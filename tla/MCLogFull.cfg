CONSTANTS
  Proc = {p1, p2}
  Block = {b1, b2}
  Val = {0, 1}
  MAXOPBLOCKS = 1
  OPBLOCKS = 1
  LOGBLOCKS = 2
  NotCached = NotCached
SPECIFICATION Safety
INVARIANT NoPanic
