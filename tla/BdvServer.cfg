SPECIFICATION FairSpec
CONSTANTS
  Wallets = {w1, w2}
  Early = {w1}
  MaxBlocks = 2
  ExpireCount = 2
PROPERTIES
  WalletsKept
  
  TopReachesClient
  Dropped
CHECK_DEADLOCK FALSE
