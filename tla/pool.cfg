SPECIFICATION Spec
CONSTANTS
  Granu = 5
  Extra = 3
  Sizes = {0, 1, 3, 4, 7}
  MaxBytes = 12
CHECK_DEADLOCK FALSE
INVARIANTS TypeOK BlocksInside BlocksDisjoint Bump
