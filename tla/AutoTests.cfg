CONSTANTS
  Tests = {0, 2, 3}
  RxMax = 1
  MemMayFail = TRUE
SPECIFICATION FairSpec
INVARIANTS VerdictRight
PROPERTIES TestEnds TakeTurns
