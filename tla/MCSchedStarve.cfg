CONSTANTS
  CPU = {c1}
  NPROC = 2
  Pid <- Pids
  None = None
SPECIFICATION Spec
PROPERTY EveryRunnableRuns
