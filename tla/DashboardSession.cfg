SPECIFICATION FairSpec
CONSTANTS
  Tabs = {t1, t2}
  Calls = {c1, c2}
  MaxIssued = 2
  None = None
INVARIANTS
  TypeOK
  SingleFlight
PROPERTIES
  RetryUsesAnotherToken
  SignedOutStaysOut
  EveryCallSettles
