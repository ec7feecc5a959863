------------------------------ MODULE VenueAccess ------------------------------
(***************************************************************************)
(* What a venue promises of its router, whatever happens to the agent that  *)
(* drives it and to the scripts it runs: a guest is let through, and given a *)
(* speed, for a session of the last list the cloud gave, and loses either   *)
(* when no session of that list still runs for the device, or with          *)
(* everybody when the venue is closing.                                     *)
(* GatewayAgent implements this specification.                              *)
(***************************************************************************)
EXTENDS Naturals

CONSTANTS
  Sessions,   \* cloud sessions of the location
  Macs,       \* guest devices
  MacOf,      \* the device of a session
  SpeedOf     \* the speed of a session

VARIABLES
  phase,      \* the sessions of the cloud
  listed,     \* the last list of the cloud, empty when there is none
  open,       \* the devices that are let through
  rate,       \* rate[m]: the speed device m has been given, 0 when it has none
  closing     \* the venue is taking its rules down

vars == <<phase, listed, open, rate, closing>>

Cloud == INSTANCE CloudSessions

Init ==
  /\ Cloud!Init
  /\ listed = {}
  /\ open = {}
  /\ rate = [m \in Macs |-> 0]
  /\ closing = FALSE

CloudStep == Cloud!Next /\ UNCHANGED <<listed, open, rate, closing>>

\* A new list of sessions that have begun.
Learn(list) ==
  /\ \A s \in list : phase[s] # "none"
  /\ listed' = list
  /\ UNCHANGED <<phase, open, rate, closing>>

\* A listed session lets its device through, or gives it a speed, or both.
Serve(s) ==
  /\ s \in listed
  /\ open' \in {open, open \cup {MacOf[s]}}
  /\ rate' \in {rate, [rate EXCEPT ![MacOf[s]] = SpeedOf[s]]}
  /\ UNCHANGED <<phase, listed, closing>>

ShutOut(m) ==
  /\ \A s \in listed : MacOf[s] = m => phase[s] = "due"
  /\ open' \in {open, open \ {m}}
  /\ rate' \in {rate, [rate EXCEPT ![m] = 0]}
  /\ UNCHANGED <<phase, listed, closing>>

Close ==
  /\ closing' = TRUE
  /\ UNCHANGED <<phase, listed, open, rate>>

TakeDown ==
  /\ closing
  /\ open' \in {open, {}}
  /\ rate' \in {rate, [m \in Macs |-> 0]}
  /\ UNCHANGED <<phase, listed, closing>>

\* The list is lost; what is on the router stays.
Restart ==
  /\ listed' = {}
  /\ closing' = FALSE
  /\ UNCHANGED <<phase, open, rate>>

Next ==
  \/ CloudStep
  \/ \E list \in SUBSET Sessions : Learn(list)
  \/ \E s \in Sessions : Serve(s)
  \/ \E m \in Macs : ShutOut(m)
  \/ Close
  \/ TakeDown
  \/ Restart

Spec == Init /\ [][Next]_vars
=============================================================================
