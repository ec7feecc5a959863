\* Two guests race for one voucher while the job and the operator work.
CONSTANTS
  Vouchers = {v1}
  Macs = {a, b}
  Requests = {r1, r2}
  Jobs = {j1}
  Durations = {1}
  TicketLife = 1
  MaxTime = 2
  MaxCrashes = 1
  None = None
SYMMETRY Symmetry
SPECIFICATION Spec
INVARIANTS
  TypeOK
  OneSessionPerVoucher
  RedemptionIsRecorded
  AnsweredTruthfully
  ExpiredOnlyAfterDeadline
PROPERTIES
  KeepsPromise
  RedemptionKeepsSessions
