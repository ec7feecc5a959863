------------------------- MODULE MCVoucherRedemption -------------------------
(* Small instances of VoucherRedemption for TLC. *)
EXTENDS VoucherRedemption, TLC

\* Calls and devices are interchangeable; no liveness property is checked under it.
Symmetry == Permutations(Requests) \cup Permutations(Macs)
=============================================================================
