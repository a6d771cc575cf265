SPECIFICATION Spec
CONSTANTS
  BASE = 4
  BOUNDARY = 3
  Sites = {1, 2}
  MaxUsed = 4
  MaxDepth = 3
INVARIANTS
  TypeOK
  StrictlyBetween
  OneSitePerPosition
  DigitsOrdered
  DepthGrowsByOne
PROPERTY AllocationEnds
CHECK_DEADLOCK FALSE
