SPECIFICATION Spec
CONSTANTS
  p1 = p1
  p2 = p2
  k1 = k1
  k2 = k2
  Procs = {p1, p2}
  TokenInterval = 2
  Spacing = 1
  Margin = 1
  Lifetime = 3
  Key = {k1, k2}
  MaxTime = 4
  MaxAhead = 1
  Crashes = TRUE
SYMMETRY AnyOrder
INVARIANTS TypeOK RateKept TokenRateKept InquiriesBounded
PROPERTIES TokenFresh
CHECK_DEADLOCK FALSE
