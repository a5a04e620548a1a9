SPECIFICATION Spec
CONSTANTS
  a = a
  b = b
  c = c
  d = d
  Tasks = {a, b, c, d}
  None = None
INVARIANTS
  TypeOK
  MessageKept
  ClosedIsFinal
  ReceiverWoken
  SenderWoken
  NoWakerRetained
CHECK_DEADLOCK FALSE
