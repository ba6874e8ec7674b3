CONSTANTS
  MAX_TASKS = 4
  TID_KCD = 2
  PRIO_NULL = 3
  Prios = {1, 2}
  NewPrios = {1, 2}
  BootTasks <- KcdTable
  MbxSizes = {4}
  KCD_MBX_SIZE = 4
  MsgLens = {3}
  RxMax = 0
  RxInIrq = TRUE
  MemMayFail = TRUE
  CheckedTids = FALSE
SPECIFICATION Spec
INVARIANTS NoReadyMoreUrgent
