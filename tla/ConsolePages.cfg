SPECIFICATION FairSpec
CONSTANTS
  Calls = {c1, c2}
  Names = {n1, n2}
  LimitOf <- MCLimitOf
  RateLimit = 2
  MaxChanges = 2
  None = None
  Pages = {"plans", "vouchers", "devices", "sessions", "tenants", "billing", "reports", "register", "forgot", "reset"}
  PlanPages = {"reports"}
  Loads = {l1, l2}
INVARIANTS
  TypeOK
  LimitHolds
  
  LinkWorksOnce
  LimitLapses
  ShowsOwnChanges
PROPERTIES
  PageComesBack
