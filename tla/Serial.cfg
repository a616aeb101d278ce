SPECIFICATION Spec
CONSTANTS
  p1 = p1
  p2 = p2
  Procs = {p1, p2}
  Deployments <- HandOrSchedule
  CommandsOf <- ManualOrOperations
  MaxDay = 2
  MaxOrders = 2
  MaxFills = 2
  MaxVersion = 1
  InitialQty = 0
  BuyQty = 1
  PhaseDays = {2}
  Crashes = TRUE
  LateRequests = {}
  DateOffsets <- NearbyDates
  NoIntent = NoIntent
INVARIANTS TypeOK NoDuplicateSubmission PositionIsAppliedFills
PROPERTIES NoOrderOverAlienOrder OrdersOnlyWhileAllowed TerminalStaysTerminal
CHECK_DEADLOCK FALSE
