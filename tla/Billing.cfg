SPECIFICATION Spec
CONSTANTS
  Subs = {x1, x2}
  Plans = {STARTER, BUSINESS}
  Payments = {k1}
  Tokens = {t1, t2}
  MaxEvents = 5
  None = None
SYMMETRY Symmetry
INVARIANTS
  TypeOK
  LicenseFollowsStripe
  PaidIsNeverCutOff
PROPERTIES
  VerifiedPaymentStays
