SPECIFICATION FairSpec
CONSTANTS
  Keys = {0, 1, 2, 3, 4, 5, 6, 7}
  Root = 1
  Under = {2, 3, 4, 5, 7}
  Parent <- MCParent
  Link <- MCLink
  NotUtf8 = {7}
  Layered = {1, 3}
  MaxOps = 4
  MaxFds = 4
  MaxForeign = 2
INVARIANTS StaysInTree AllOrNothing OkMeansGone QuietTreeIsDeletable NeverWaitsForItself
PROPERTIES EventuallyReturns
