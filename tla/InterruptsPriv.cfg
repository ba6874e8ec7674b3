CONSTANTS
  N = 3
  Priv = {1, 2}
  KCD = 4
  NUM_IRQ = 256
  IRQs = {29, 32, 194, 199, 200, 255}
  RxMax = 1
  InboxMax = 1
SPECIFICATION Spec
INVARIANTS NoneLost
