---------------------------- MODULE MCSessionLedger ----------------------------
(* Small instances of SessionLedger: calls are alike, and so are sessions.  *)
EXTENDS SessionLedger, TLC

Symmetry == Permutations(Sessions) \cup Permutations(Calls)
=============================================================================
