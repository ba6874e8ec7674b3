CONSTANTS
  Tests = {1}
  RxMax = 1
  MemMayFail = TRUE
SPECIFICATION Spec
INVARIANTS T01Passes
