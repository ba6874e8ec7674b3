CONSTANTS
  a = a
  b = b
  Nothing = Nothing
  Senders = {a, b}
  Msgs <- FourMsgs
  MbxSizes = {1, 16, 30, 36}
  BufLens = {8, 9}
SPECIFICATION Spec
INVARIANTS WordsAligned RingHoldsMail NeverRefusesRoom
PROPERTIES ImplementsFifo
