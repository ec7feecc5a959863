SPECIFICATION Spec
CONSTANTS
  Subs = {x1, x2}
  Plans = {STARTER, BUSINESS}
  Payments = {}
  Tokens = {}
  MaxEvents = 5
  None = None
SYMMETRY Symmetry
INVARIANTS
  UpgradeKeepsLicense
