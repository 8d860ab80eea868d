CONSTANTS
  Reader = {r1}
  Writer = {w1, w2}
  Killable = {w1}
  Byte = {0}
  PIPESIZE = 2
  UINT = 4
  MaxN = 2
  None = None
SPECIFICATION Spec
INVARIANT ReaderNotForgotten
CHECK_DEADLOCK FALSE
