SPECIFICATION Spec
CONSTANTS
  Plps = 1
  Mods = {"QPSK"}
  Mod <- QpskMod
  Code <- QpskCode
  Simd = 2
  MaxFec = 3
  Kept = TRUE
  Numbers = 5
INVARIANTS
  InTurn
