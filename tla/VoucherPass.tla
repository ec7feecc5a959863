----------------------------- MODULE VoucherPass -----------------------------
(***************************************************************************)
(* What a voucher promises, with no mention of how the cloud keeps the     *)
(* promise: a voucher is issued once, admits at most one device, and once  *)
(* used, lapsed or withdrawn it never admits anyone again.                 *)
(* VoucherRedemption implements this specification.                        *)
(***************************************************************************)
CONSTANTS Vouchers,     \* the vouchers that may ever be issued
          Macs          \* the devices that may present one

VARIABLES pass,         \* pass[v]: what voucher v is worth
          admitted      \* admitted[v]: the devices v has let in

passVars == <<pass, admitted>>

States == {"unissued", "valid", "used", "lapsed", "withdrawn"}

Init ==
  /\ pass = [v \in Vouchers |-> "unissued"]
  /\ admitted = [v \in Vouchers |-> {}]

Issue(v) ==
  /\ pass[v] = "unissued"
  /\ pass' = [pass EXCEPT ![v] = "valid"]
  /\ UNCHANGED admitted

Use(v, m) ==
  /\ pass[v] = "valid"
  /\ pass' = [pass EXCEPT ![v] = "used"]
  /\ admitted' = [admitted EXCEPT ![v] = {m}]

\* A housekeeping sweep may retire any set of unused vouchers in one statement.
Lapse(retired) ==
  /\ \A v \in retired : pass[v] = "valid"
  /\ pass' = [v \in Vouchers |-> IF v \in retired THEN "lapsed" ELSE pass[v]]
  /\ UNCHANGED admitted

\* The venue may withdraw vouchers it issued, used or not.
Withdraw(gone) ==
  /\ \A v \in gone : pass[v] # "unissued"
  /\ pass' = [v \in Vouchers |-> IF v \in gone THEN "withdrawn" ELSE pass[v]]
  /\ UNCHANGED admitted

Next ==
  \/ \E v \in Vouchers : Issue(v) \/ \E m \in Macs : Use(v, m)
  \/ \E s \in SUBSET Vouchers : Lapse(s) \/ Withdraw(s)

Spec == Init /\ [][Next]_passVars
=============================================================================
