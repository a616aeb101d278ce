SPECIFICATION Spec
CONSTANTS
  Symbol = "TQQQ"
  DivisionCount = 4
  Tick = 5
  Unit = 16
  Setups <- Histories
  FeeDen = 100
INVARIANTS TypeOK NeverRaises TWithinDivisions PlanCovered PoolLasts AverageWithinPaid
CHECK_DEADLOCK FALSE
