SPECIFICATION Spec
CONSTANTS
  p1 = p1
  p2 = p2
  f1 = f1
  Gains <- Losses
  Profiles = {f1}
  Events = {1, 2}
  Procs = {p1, p2}
  Teams <- PairOrSolo
  CrashingTeams <- Pair
  WithdrawingTeams <- Solo
  Deposits = {1, 2}
  Withdrawals = {1}
  Requests = {2}
  Timings = {"current_cycle", "next_cycle"}
  InitialCapital = 3
  MaxFills <- FillsPerTeam
  MaxVersion <- WritesPerTeam
SYMMETRY AnyOrder
INVARIANTS TypeOK NeverOverspent AllocationsAccounted CreditedAtMostOnce CashIsCapital RealizedExplained
CHECK_DEADLOCK FALSE
