CONSTANTS
  MAX_TASKS = 4
  TID_KCD = 2
  PRIO_NULL = 3
  Prios = {2}
  NewPrios = {}
  BootTasks <- EqualTable
  MbxSizes = {7}
  KCD_MBX_SIZE = 7
  MsgLens = {3}
  RxMax = 1
  RxInIrq = TRUE
  MemMayFail = FALSE
  CheckedTids = FALSE
SPECIFICATION FairSpec
INVARIANTS StrictPriority QueueMatchesStates NoLostWakeup ActiveIsNonDormant
PROPERTIES EqualsShare InputServed PreemptionKeepsPlace
