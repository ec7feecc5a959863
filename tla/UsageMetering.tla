----------------------------- MODULE UsageMetering -----------------------------
(***************************************************************************)
(* How traffic becomes the data used of a session.  The router counts bytes *)
(* per device, the agent reads the counters every GATEWAY_USAGE_MS, adds     *)
(* what it read to a counter per session, drains these counters into one     *)
(* report, and the cloud adds the report to the session row.  sync runs in   *)
(* the same thread between the awaits of a collection.                       *)
(***************************************************************************)
EXTENDS Naturals, FiniteSetsExt

CONSTANTS
  Sessions,     \* cloud sessions of the location
  Macs,         \* guest devices
  MacOf,        \* WifiSession.macAddress
  MaxTraffic,   \* bound on what the devices move together
  MaxReports,   \* bound on the reports that reach the cloud
  None          \* neither a session nor a device

VARIABLES
  enforced,     \* SessionManager.enforced: MAC -> session
  admitted,     \* sessions let in so far; a bound: none is let in twice
  class,        \* class[m]: the byte counter of the device's tc class
  moved,        \* moved[s]: what the device has moved while s was enforced
  counters,     \* SessionManager.usageCounters: session -> amount, 0 when absent
  unread,       \* the entries of enforced a collection under way has still to visit
  reading,      \* the session of the entry whose readUsage is awaited
  collecting,   \* a reportUsage of the agent is under way
  sending,      \* the report on its way to the cloud, amounts by session
  reports,      \* reports the cloud has received so far
  charged       \* charged[s]: WifiSession.dataUsedMb

router == <<enforced, admitted, class, moved>>
agent == <<counters, unread, reading, collecting>>
cloud == <<sending, reports, charged>>
vars == <<router, agent, cloud>>

Nothing == [s \in Sessions |-> 0]
Total(f) == FoldSet(LAMBDA s, sum : f[s] + sum, 0, Sessions)

Init ==
  /\ enforced = [m \in Macs |-> None]
  /\ admitted = {}
  /\ class = [m \in Macs |-> 0]
  /\ moved = Nothing
  /\ counters = Nothing
  /\ unread = {} /\ reading = None /\ collecting = FALSE
  /\ sending = Nothing /\ reports = 0
  /\ charged = Nothing

\* The device moves a unit of data through its tc class.
Move(m) ==
  /\ enforced[m] # None
  /\ Total(moved) < MaxTraffic
  /\ class' = [class EXCEPT ![m] = @ + 1]
  /\ moved' = [moved EXCEPT ![enforced[m]] = @ + 1]
  /\ UNCHANGED <<enforced, admitted, agent, cloud>>

\* sync lets a device in: a class is made, the session's counter is set to 0.  A
\* collection under way visits the new entry too.
Allow(s) ==
  /\ s \notin admitted /\ enforced[MacOf[s]] = None
  /\ admitted' = admitted \cup {s}
  /\ enforced' = [enforced EXCEPT ![MacOf[s]] = s]
  /\ counters' = [counters EXCEPT ![s] = 0]
  /\ unread' = IF collecting THEN unread \cup {MacOf[s]} ELSE unread
  /\ UNCHANGED <<class, moved, reading, collecting, cloud>>

\* sync finds a newer session of an enforced device: the counter of the old one is
\* dropped, the class stays, and so does the entry a read may be awaited for.
Replace(s) ==
  /\ s \notin admitted /\ enforced[MacOf[s]] # None
  /\ admitted' = admitted \cup {s}
  /\ enforced' = [enforced EXCEPT ![MacOf[s]] = s]
  /\ counters' = [counters EXCEPT ![s] = 0, ![enforced[MacOf[s]]] = 0]
  /\ reading' = IF reading = enforced[MacOf[s]] THEN s ELSE reading
  /\ UNCHANGED <<class, moved, unread, collecting, cloud>>

\* sync blocks a device: class, map entry and counter go.
Block(m) ==
  /\ enforced[m] # None
  /\ enforced' = [enforced EXCEPT ![m] = None]
  /\ class' = [class EXCEPT ![m] = 0]
  /\ counters' = [counters EXCEPT ![enforced[m]] = 0]
  /\ unread' = unread \ {m}
  /\ UNCHANGED <<admitted, moved, reading, collecting, cloud>>

\* drainUsageReports: the counters are 0 again before the report is sent.
Drained == sending' = counters /\ counters' = Nothing

\* The usage timer fires; a bound: the previous report is no longer under way.
Collect ==
  /\ ~collecting /\ sending = Nothing
  /\ unread' = {m \in Macs : enforced[m] # None} /\ unread' # {}
  /\ collecting' = TRUE
  /\ UNCHANGED <<router, counters, reading, cloud>>

\* With an empty map there is nothing to await before the counters are drained.
CollectNothing ==
  /\ ~collecting /\ sending = Nothing
  /\ \A m \in Macs : enforced[m] = None
  /\ Drained
  /\ UNCHANGED <<router, unread, reading, collecting, reports, charged>>

ReadUsage(m) ==
  /\ m \in unread /\ reading = None
  /\ reading' = enforced[m]
  /\ unread' = unread \ {m}
  /\ UNCHANGED <<router, counters, collecting, cloud>>

\* What read-usage.sh prints for a device: the counter as it stands, which it does
\* not reset.
Printed(m) == class[m]

\* readUsage returns that, or null when the script failed.  The entry may have been
\* deleted from the map meanwhile.
ReadEnds ==
  /\ reading # None
  /\ counters' \in {counters, [counters EXCEPT ![reading] = @ + Printed(MacOf[reading])]}
  /\ reading' = None
  /\ UNCHANGED <<router, unread, collecting, cloud>>

Drain ==
  /\ collecting /\ unread = {} /\ reading = None
  /\ collecting' = FALSE
  /\ Drained
  /\ UNCHANGED <<router, unread, reading, reports, charged>>

\* GatewayService.reportUsage adds the amounts (SessionLedger has this step in detail).
Receive ==
  /\ sending # Nothing
  /\ reports < MaxReports
  /\ reports' = reports + 1
  /\ charged' = [s \in Sessions |-> charged[s] + sending[s]]
  /\ sending' = Nothing
  /\ UNCHANGED <<router, agent>>

\* The request fails: the amounts are gone with it.
Lose ==
  /\ sending # Nothing
  /\ sending' = Nothing
  /\ UNCHANGED <<router, agent, reports, charged>>

Next ==
  \/ \E m \in Macs : Move(m) \/ Block(m) \/ ReadUsage(m)
  \/ \E s \in Sessions : Allow(s) \/ Replace(s)
  \/ Collect \/ CollectNothing \/ ReadEnds \/ Drain \/ Receive \/ Lose

Spec == Init /\ [][Next]_vars

\* A session is charged with no more than its device has moved during it
\* ("Report bytes per session", api-contracts.md:108; "reads per-MAC usage from tc
\* stats", 009-openwrt-driver.md:20).
ChargedForItsTraffic == \A s \in Sessions : charged[s] <= moved[s]
=============================================================================
