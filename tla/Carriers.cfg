SPECIFICATION Spec
CONSTANTS
  Levels = {1, 2, 3, 4, 5, 6}
  Guards = {"1/8", "1/16", "1/32", "1/128", "19/256"}
  Beyond = 2
INVARIANTS TypeOK AddressesOnce CellsFit PilotInTime
\* The maps are made once.
CHECK_DEADLOCK FALSE
