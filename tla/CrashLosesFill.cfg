SPECIFICATION Spec
CONSTANTS
  p1 = p1
  p2 = p2
  Procs = {p1}
  Deployments <- Together
  CommandsOf <- RunsAndReconcile
  MaxDay = 2
  MaxOrders = 1
  MaxFills = 1
  MaxVersion = 2
  InitialQty = 1
  BuyQty = 1
  PhaseDays = {}
  Crashes = TRUE
  LateRequests = {}
  DateOffsets = {0}
  NoIntent = NoIntent
INVARIANTS FillsStayReachable
CHECK_DEADLOCK FALSE
