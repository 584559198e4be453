SPECIFICATION ChainSpec
CONSTANTS
  Hash = {1, 2, 3, 4}
  Genesis = 2
  Trees <- AllTrees
  Difficulty <- HeavyBlock
  MaxDouble = 100
  NoHash = NoHash
  NoHeight = NoHeight
  NoId = NoId
  Files <- OneOrTwo
  MaxID = 8
INVARIANTS HeaviestTop  
CHECK_DEADLOCK FALSE
