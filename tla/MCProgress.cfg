CONSTANTS
  Thread = {t1, t2, t3}
  NPAGE = 2
  MaxRef = 3
  Program = {u1, u2}
  u1 = u1
  NFRAME = 14
  PGSIZE = 2
  FANOUT = 2
  MAXVA = 6
  USERSTACK = 1
  Images <- SmallImages
  Amounts <- SmallAmounts
  None = None
  NPROC = 5
  Lines <- SmallLines
  MAXARGS = 3
  MaxBackground = 0
  Depth = 2
  HDR = 2
  NALLOC = 4
  TOP = 11
  INTUNITS = 11
  MaxBytes = 18
  Nowhere = Nowhere
SPECIFICATION ProgressSpec
INVARIANTS PagesAccounted RefCountExact HeapSound PagesSound CommandsSound
PROPERTIES PagesSettle PromptComesBack ImplementsUserMemory
