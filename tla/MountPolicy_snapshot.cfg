SPECIFICATION MountSpec
CONSTANTS
  TemplateSizes = {0, 1, 2, 3, 4, 5}
  MaxSets = 5
INVARIANT PolicyIsSnapshot
