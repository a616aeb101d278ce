SPECIFICATION Spec
CONSTANTS
  p1 = p1
  p2 = p2
  Procs = {p1}
  Deployments <- Together
  CommandsOf <- RunsAndReconcile
  MaxDay = 2
  MaxOrders = 2
  MaxFills = 2
  MaxVersion = 3
  InitialQty = 0
  BuyQty = 1
  PhaseDays = {}
  Crashes = FALSE
  LateRequests = {"ambiguous"}
  DateOffsets <- NearbyDates
  NoIntent = NoIntent
INVARIANTS FillsStayReachable NoDuplicateSubmission
PROPERTIES NoOrderWhileUnknown
CHECK_DEADLOCK FALSE
