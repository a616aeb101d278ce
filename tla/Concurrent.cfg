SPECIFICATION Spec
CONSTANTS
  p1 = p1
  p2 = p2
  Procs = {p1, p2}
  Deployments <- Together
  CommandsOf <- TicksAndReconcile
  MaxDay = 1
  MaxOrders = 2
  MaxFills = 2
  MaxVersion = 1
  InitialQty = 1
  BuyQty = 1
  PhaseDays = {1}
  Crashes = TRUE
  LateRequests = {}
  DateOffsets = {0}
  NoIntent = NoIntent
INVARIANTS NoDuplicateSubmission OpenSellsCovered FillsBookedExactlyOnce
PROPERTIES FillsAreLedger StateVersionsAdvance
CHECK_DEADLOCK FALSE
