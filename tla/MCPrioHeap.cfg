CONSTANTS
  t0 = t0
  t1 = t1
  t2 = t2
  t3 = t3
  t4 = t4
  t5 = t5
  Tids = {t0, t1, t2, t3, t4, t5}
  TID_NULL = t0
  Prios = {1, 2}
  COUNT_MAX = 3
  EPOCHS = 2
SPECIFICATION Spec
SYMMETRY Symmetric
VIEW Live
INVARIANTS TypeOK IndexRight TopRight SiftLocal
PROPERTIES ImplementsQueue
CHECK_DEADLOCK FALSE
