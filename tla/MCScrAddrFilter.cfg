SPECIFICATION FairSpec
CONSTANTS
  Addr = {a, b}
  Req = {r1, r2, r3}
  AddrSets <- AnySets
  Free = Free
  Updater = Updater
  MaxUpdates = 1
INVARIANTS SignalledWhenReady
 
CHECK_DEADLOCK FALSE
