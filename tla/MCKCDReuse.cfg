CONSTANTS
  a = a
  b = b
  Chars = {13, 37, 65}
  Tids = {a, b}
  MAX_CMD_LEN = 2
  MsgLens = {8, 9}
  INBOX = 1
  BIRTHS = 2
  TID_UART_IRQ = TID_UART_IRQ
  None = None
SPECIFICATION Spec
PROPERTIES ReachesRegistrant
