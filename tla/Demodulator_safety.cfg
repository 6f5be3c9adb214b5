SPECIFICATION Spec
CONSTANTS
  Fft = 2
  GIOrder <- AllGIs
  GuardSize <- AllSizes
  Quarter = "GI_1_4"
  Num = 1
  P1Len = 1
  P1Head = 1
  BufferLens = {1, 4}
  Offsets = {"fine", "off", "far"}
  Zero = "fine"
  Fine = {"fine"}
  Far = {"far"}
  Frames <- AllFrames
  NoFrame = NoFrame
INVARIANTS
  TypeOK
  ReadySymbols
  SymbolFits
  ScratchFits
  FrameWhole
PROPERTIES
  RelockKeepsSetup
