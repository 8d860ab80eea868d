CONSTANTS
  Reader = {r1}
  Writer = {w1, w2}
  Killable = {r1}
  Byte = {0, 1}
  PIPESIZE = 2
  UINT = 4
  MaxN = 3
  None = None
  Opener = {o1, o2}
  o1 = o1
  NFILE = 2
  NOFILE = 2
  NPIPE = 1
  Size = 2
  Sender = {h, s}
  handler = h
  FIFO = 3
  INPUT_BUF_SIZE = 3
  UINT32 = 6
  MaxRead = 2
  TextChar = {"a", "b"}
  PatternChar = {"a", ".", "*", "^", "$"}
  MaxPattern = 4
  MaxInput = 3
  BUF = 3
SPECIFICATION DescriptorsSpec
SYMMETRY Symmetry
INVARIANTS PipeSound FilesCounted SharedOffset TerminalSound GrepIsExact
PROPERTIES ImplementsFifo ImplementsTty
\* The pipe is gone once both ends are closed.
CHECK_DEADLOCK FALSE
