SPECIFICATION Spec
CONSTANTS
  tqqq = tqqq
  soxl = soxl
  c1 = c1
  c2 = c2
  Setups <- FilesOrCollectors
  Bootstrap = 1
  InitialDay = 2
  MaxDay = 4
  Crashes = TRUE
INVARIANTS TypeOK ContiguousSessions OneBasis ManifestNeverAhead
PROPERTIES FilesNeverRegress CompletedMeansCurrent
CHECK_DEADLOCK FALSE
