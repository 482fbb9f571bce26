SPECIFICATION Spec
CONSTANTS
  Names = {1, 2, 3}
  Base = 2
  c1 = c1
  c2 = c2
  Creators <- MCCreators
  MaxKeys = 3
  MaxAdmin = 0
  MaxLists = 1
INVARIANT ListIsExact
CHECK_DEADLOCK FALSE
