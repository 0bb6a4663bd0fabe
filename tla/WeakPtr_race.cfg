SPECIFICATION WeakSpec
CONSTANTS
  NoThread = NoThread
  Null = Null
  RefThreads = {t1, t2}
  Remnants = {r1, r2, r3}
  MaxRefs = 2
  UsesPython = TRUE
  Quiet = FALSE
SYMMETRY Symmetry
CHECK_DEADLOCK FALSE
INVARIANT CountsReferences
