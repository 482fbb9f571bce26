SPECIFICATION Spec
CONSTANTS
  Names = {1, 2, 3}
  Base = 2
  c1 = c1
  c2 = c2
  Creators <- MCCreators
  MaxKeys = 3
  MaxAdmin = 1
  MaxLists = 1
INVARIANT ListAnswersRight
CHECK_DEADLOCK FALSE
