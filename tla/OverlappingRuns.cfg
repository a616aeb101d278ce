SPECIFICATION Spec
CONSTANTS
  p1 = p1
  p2 = p2
  Procs = {p1, p2}
  Deployments <- Together
  CommandsOf <- TwoRuns
  MaxDay = 1
  MaxOrders = 2
  MaxFills = 1
  MaxVersion = 1
  InitialQty = 1
  BuyQty = 1
  PhaseDays = {}
  Crashes = FALSE
  LateRequests = {}
  DateOffsets = {0}
  NoIntent = NoIntent
INVARIANTS NoDuplicateSubmission
CHECK_DEADLOCK FALSE
