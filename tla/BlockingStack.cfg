SPECIFICATION FairSpec
CONSTANTS
  Thread = {c1, c2, p}
  Consumer = {c1, c2}
  Producer = {p}
  Owner = {p}
  Entry = {e1, e2}
  Pair = {p1, p2, p3}
  Null = Null
  MaxPtr = MaxPtr
  None = None
  MaxCalls = 3
INVARIANTS NoLostWakeup
PROPERTIES UsesPromise TerminateReturnsUnlessStalled
CHECK_DEADLOCK FALSE
