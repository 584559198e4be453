SPECIFICATION LinkFairSpec
CONSTANTS
  MaxConns = 2
  MaxBlocks = 2
  ReuseFd = FALSE
INVARIANTS  PurgeIsServed
PROPERTIES BlockNoticed StatusFollows ShutdownEnds
CHECK_DEADLOCK FALSE
