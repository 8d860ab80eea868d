CONSTANTS
  NCPU = 2
  NPROC = 3
  MaxPid = 3
  KillTargets = {0, 2}
  None = None
SPECIFICATION Spec
INVARIANT UnusedIsClean
