SPECIFICATION FairSpec
CONSTANTS
  Names = {1, 2}
  Base = 2
  c1 = c1
  c2 = c2
  Creators <- MCCreators
  MaxKeys = 3
  MaxAdmin = 1
  MaxLists = 0
INVARIANTS LayerIsWhole OneCreator
PROPERTIES NothingLeftBehind CreateReturns
CHECK_DEADLOCK FALSE
