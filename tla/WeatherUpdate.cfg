SPECIFICATION Spec
CONSTANTS
  p1 = p1
  p2 = p2
  Setups <- OneOrTwoOpeners
  Rows = {r1}
  WindowLength = 5
  YearLength = 2
  MinimumSessions = 1
  StressMemory = 2
  FirstEnd = 5
  LastSession = 6
  Markets <- MarketsOf
  FirstCandle <- CandlesOf
  NoSnapshot = NoSnapshot
INVARIANTS RowsSurvive OpenedIsWhole FreshWeatherIsTrue
CHECK_DEADLOCK FALSE
