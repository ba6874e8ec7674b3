CONSTANTS
  N = 3
  Priv = {}
  KCD = 3
  NUM_IRQ = 256
  IRQs = {29, 32, 194, 199, 200, 255}
  RxMax = 2
  InboxMax = 2
SPECIFICATION FairSpec
INVARIANTS KnownInterrupts EndedBeforeTasks ContextsRight OnlyNullMasked NoneLost
PROPERTIES UartServed
