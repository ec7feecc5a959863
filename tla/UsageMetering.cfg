SPECIFICATION Spec
CONSTANTS
  s1 = s1
  m1 = m1
  None = None
  Sessions = {s1}
  Macs = {m1}
  MacOf <- LoneSession
  MaxTraffic = 3
  MaxReports = 3
INVARIANTS
  ChargedForItsTraffic
