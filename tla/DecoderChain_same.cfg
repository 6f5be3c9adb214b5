SPECIFICATION Spec
CONSTANTS
  Plps = 2
  Mods = {"QAM16", "QAM64"}
  Mod <- SameMod
  Code <- SameCode
  Simd = 2
  MaxFec = 2
  Kept = TRUE
  Numbers = 5
INVARIANTS
  TypeOK
  PointersAgree
PROPERTIES
  CodeWordsSpec
