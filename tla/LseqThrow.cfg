SPECIFICATION Spec
CONSTANTS
  BASE = 3
  BOUNDARY = 2
  Sites = {1, 2}
  MaxUsed = 4
  MaxDepth = 3
INVARIANT NeverInvalidOrdering
CHECK_DEADLOCK FALSE
