---------------------------- MODULE MCConsolePages -----------------------------
(* Small instances of ConsolePages: a plan for one location and a plan for  *)
(* two.                                                                     *)
EXTENDS ConsolePages

MCLimitOf == [n \in Names |-> IF n = Some THEN 1 ELSE 2]
=============================================================================
