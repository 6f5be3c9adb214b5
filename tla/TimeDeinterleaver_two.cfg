SPECIFICATION Spec
CONSTANTS
  Plps = 2
  NSplit = 2
  Rows <- TwoRows
  NTi <- TwoNTi
  Perm <- TwoPerms
  Layouts <- TwoLayouts
  Beyond = {}
  P2Cells = 3
  Cells = 7
  Symbols = 2
  MaxQueue = 2
  MaxCell = 45
INVARIANTS
  TypeOK
  InBounds
  
  
