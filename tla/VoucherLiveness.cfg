\* One guest, the job, the operator and a crash: what must happen in the end.
CONSTANTS
  Vouchers = {v1}
  Macs = {a}
  Requests = {r1}
  Jobs = {j1}
  Durations = {1}
  TicketLife = 1
  MaxTime = 2
  MaxCrashes = 1
  None = None
SPECIFICATION FairSpec
PROPERTIES
  StaleRecordsAreExpired
