SPECIFICATION Spec
CONSTANTS
  Thread = {t1, t2, t3, t4}
  Pair = {p1, p2, p3, p4, p5}
  None = None
SYMMETRY Sym
INVARIANTS ObjectsAlive NoOrphan
