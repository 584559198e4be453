SPECIFICATION FairSpec
CONSTANTS
  Block = {1, 2, 3, 4, 5, 6, 7, 8}
  Genesis = 4
  Chain <- TreeChain
  Height <- TreeHeight
  Work <- DistinctWork
  StopsInReorg = FALSE
  MaxStops = 2
INVARIANTS CountsMainBranch SkippedIsScanned
PROPERTIES HistoryCatchesUp
CHECK_DEADLOCK FALSE
