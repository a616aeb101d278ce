SPECIFICATION Spec
CONSTANTS
  Symbol = "TQQQ"
  DivisionCount = 4
  Tick = 5
  Unit = 16
  Setups <- FallAndRecovery
  FeeDen = 100
PROPERTIES ReverseStartsWithMoc
CHECK_DEADLOCK FALSE
