SPECIFICATION MCSpec
CONSTANTS
  Sizes <- MCSizes
  MaxChanges = 4
  TemplateSizes <- MCSizes
  MaxSets = 5
  Fds = {0, 1, 2}
  Files = {f1}
  Tokens = {t1}
  CountLimit = 3
  MaxWire = 1
  MaxHandOuts = 4
INVARIANTS
  ReadIsSnapshot
  ErangeMeansOutgrown
  TemplateBelongsToPolicy
  MissingTemplateMeansRemovedOrOutgrown
  EveryDescriptorHasOneOwner
