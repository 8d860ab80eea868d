CONSTANTS
  NCPU = 2
  NPROC = 3
  MaxPid = 3
  KillTargets = {2}
  None = None
  Hart = {h1, h2}
  Thread = {t1, t2}
  Core = {c1, c2}
  c1 = c1
  Sleeper = {u1, u2}
  UINT = 6
  INT_MAX = 2
  MaxDelay = 1
  Client = {d1, d2}
  Queuer = {q1, q2, q3}
  q1 = q1
  NUM = 8
  UINT16 = 16
  Val = {0, 1}
SPECIFICATION SystemSpec
SYMMETRY Symmetry
INVARIANTS NoLostExit LifeCycleSound TrapsSound NeverWaitsForItself PausesExactly DriverSound
PROPERTIES WaitLockFirst ImplementsAsyncDisk
