SPECIFICATION Spec
CONSTANTS
  Sessions = {s1}
  Calls = {c1, c2, c3}
  Amounts = {1, 2}
  Caps = {2, 3}
  MaxUsed = 5
  MaxCrashes = 1
  None = None
SYMMETRY Symmetry
INVARIANTS
  TypeOK
  CapIsEnforced
  UsageIsWhatWasReported
  SuspensionIsAudited
PROPERTIES
  LedgerKeepsSessions
