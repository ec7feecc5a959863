----------------------------- MODULE CloudSessions -----------------------------
(***************************************************************************)
(* A Wi-Fi session as a venue sees it, with no mention of rows, jobs and    *)
(* reports: it begins once, may be suspended, and when its time is over it   *)
(* is over for good.  VoucherRedemption and SessionLedger implement this    *)
(* specification; it is the cloud that GatewayAgent works against.          *)
(***************************************************************************)
CONSTANT Sessions

VARIABLE phase   \* phase[s]: whether session s may be online

Init == phase = [s \in Sessions |-> "none"]

\* A redemption; a slow one may end when the time it bought is over.
Open(s) ==
  /\ phase[s] = "none"
  /\ \E p \in {"active", "due"} : phase' = [phase EXCEPT ![s] = p]

\* The owner suspends a session, or its data cap does.
Suspend(s) ==
  /\ phase[s] = "active"
  /\ phase' = [phase EXCEPT ![s] = "suspended"]

\* Time passes for any number of sessions at once.
Expire(gone) ==
  /\ \A s \in gone : phase[s] \in {"active", "suspended"}
  /\ phase' = [s \in Sessions |-> IF s \in gone THEN "due" ELSE phase[s]]

Next ==
  \/ \E s \in Sessions : Open(s) \/ Suspend(s)
  \/ \E gone \in SUBSET Sessions : Expire(gone)

Spec == Init /\ [][Next]_phase
=============================================================================
