CONSTANTS
  a = a
  b = b
  Chars = {13, 37, 57, 65}
  Tids = {a, b}
  MAX_CMD_LEN = 3
  MsgLens = {8, 9, 10}
  INBOX = 1
  BIRTHS = 50
  TID_UART_IRQ = TID_UART_IRQ
  None = None
SPECIFICATION Spec
SYMMETRY Symmetric
VIEW Live
INVARIANTS TypeOK
PROPERTIES ImplementsConsole
