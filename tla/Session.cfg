SPECIFICATION FairSessionSpec
CONSTANTS
  Slots = 2
  Transfers = {t1, t2}
  Count = 2
CHECK_DEADLOCK FALSE
INVARIANTS
  SessionTypeOK
  BuffersOwned
  DeviceAlive
PROPERTIES
  EachBlockOnce
  StopEndsStream
