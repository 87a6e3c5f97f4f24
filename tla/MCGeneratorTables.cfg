SPECIFICATION GeneratorSpec
CONSTANTS
  Requests <- MixedRequests
  MaxFails = 0
  MaxLeftOut = 0
INVARIANTS
  TablesMatch
