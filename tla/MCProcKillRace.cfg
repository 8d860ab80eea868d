CONSTANTS
  NCPU = 2
  NPROC = 3
  MaxPid = 3
  KillTargets = {2, 3}
  None = None
SPECIFICATION Spec
INVARIANT KilledNotAsleep
