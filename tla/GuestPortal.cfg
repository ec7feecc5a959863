SPECIFICATION FairSpec
CONSTANTS
  Pages = {g1, g2}
  Phones = {p1}
  Requests = {r1, r2}
  Vouchers = {v1}
  MaxCodes = 2
  None = None
INVARIANTS
  TypeOK
  DeadCodeOpensNothing
  ConnectedMeansSession
PROPERTIES
  LoadingEnds
