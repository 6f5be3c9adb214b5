SPECIFICATION RSpec
CONSTANTS
  Fft = 1
  GIOrder <- OneGI
  GuardSize <- OneSize
  Quarter = "GI_1_4"
  Num = 0
  P1Len = 1
  P1Head = 0
  BufferLens = {1, 2}
  Offsets <- FewOffsets
  Zero = 0
  Fine = {0}
  Far <- FarOffsets
  Frames <- OneFrame
  NoFrame = NoFrame
  Block = 1
  MaxBlocks = 2
  Errors = {2}
  Tunings <- FewTunings
  MaxQueue = 2
  MaxFails = 1
  Timely = TRUE
INVARIANTS
  RTypeOK
  
  
PROPERTIES
  DemodulatorSpec
  DevicesSpec
