SPECIFICATION Spec
CONSTANTS
  Devices <- AllDevices
  Block = 2
  MaxBlocks = 4
  NormBlocks = 2
  Errors = {2}
  Tunings <- FewTunings
  MaxQueue = 2
  MaxFails = 1
  Timely = TRUE
CHECK_DEADLOCK FALSE
INVARIANTS
  TypeOK
  NextBlockFits
  LengthTrue
  BuffersApart
  
  TunerFollows
  ReportDue
