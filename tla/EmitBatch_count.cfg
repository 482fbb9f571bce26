SPECIFICATION BatchSpec
CONSTANTS
  MaxBatch = 3
  MaxCount = 3
INVARIANT FailureCarriesCount
