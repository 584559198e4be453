SPECIFICATION FairSpec
CONSTANTS
  Thread = {t1, t2, t3}
  Entry = {e1, e2, e3}
  Null = Null
  MaxPtr = MaxPtr
INVARIANTS Ownership
PROPERTIES IsFifo PushReleasesPop
