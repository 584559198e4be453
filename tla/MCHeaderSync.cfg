SPECIFICATION FairSpec
CONSTANTS
  Hash = {1, 2, 3, 4}
  Genesis = 2
  Trees <- AllTrees
  Difficulty <- UnitDifficulty
  MaxDouble = 100
  NoHash = NoHash
  NoHeight = NoHeight
  NoId = NoId
  Files = {}
  MaxID = 0
  Rewind = 1
  SkipsUndo = TRUE
  OutOfOrder = FALSE
  MaxRestarts = 2
INVARIANTS DupsTellApart MapAndDBAgree
PROPERTIES BlocksGetStored
CHECK_DEADLOCK FALSE
