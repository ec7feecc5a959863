------------------------------- MODULE MCBilling -------------------------------
(* Small instances of Billing: two subscriptions, so that one may follow or *)
(* overlap the other.                                                       *)
EXTENDS Billing, TLC

Symmetry == Permutations(Subs) \cup Permutations(Plans) \cup Permutations(Tokens)
=============================================================================
