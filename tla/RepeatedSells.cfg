SPECIFICATION Spec
CONSTANTS
  p1 = p1
  p2 = p2
  Procs = {p1}
  Deployments <- Together
  CommandsOf <- RunsAndReconcile
  MaxDay = 1
  MaxOrders = 4
  MaxFills = 2
  MaxVersion = 3
  InitialQty = 2
  BuyQty = 1
  PhaseDays = {}
  Crashes = FALSE
  LateRequests = {}
  DateOffsets = {0}
  NoIntent = NoIntent
INVARIANTS OpenSellsCovered
CHECK_DEADLOCK FALSE
