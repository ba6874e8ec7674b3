CONSTANTS
  MAX_TASKS = 4
  TID_KCD = 2
  PRIO_NULL = 3
  Prios = {2}
  NewPrios = {1, 2}
  BootTasks <- PrivTable
  MbxSizes = {}
  KCD_MBX_SIZE = 4
  MsgLens = {}
  RxMax = 0
  RxInIrq = TRUE
  MemMayFail = TRUE
  CheckedTids = TRUE
SPECIFICATION Spec
INVARIANTS TypeOK TidPool NoReadyMoreUrgent
PROPERTIES OnlySelfLeaves QueueContract
