---------------------------- MODULE MCUsageMetering ----------------------------
(* The smallest instance of UsageMetering: one device, one session.          *)
EXTENDS UsageMetering, TLC

CONSTANTS s1, m1

LoneSession == s1 :> m1
=============================================================================
