SPECIFICATION FairSpec
CONSTANTS
  s1 = s1
  s2 = s2
  s3 = s3
  m1 = m1
  m2 = m2
  None = None
  Sessions <- MCSessions
  Macs <- MCMacs
  MacOf <- MCMacOf
  SpeedOf <- MCSpeedOf
  Polls = {p1}
  FailFast = FALSE
  Outcomes = {"done"}
  MaxRestarts = 0
INVARIANTS
  TypeOK
PROPERTIES
  SyncMakesRouterAgree
  OverEventuallyBlocked
  PlanSpeedApplies
