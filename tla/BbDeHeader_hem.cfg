SPECIFICATION Spec
CONSTANTS
  P = 4
  Plps = 2
  Dfls = {2, 7}
  FirstDfl = 4
  Ups = 2
INVARIANTS
  TypeOK
  Aligned
  Intact
  InOrder
