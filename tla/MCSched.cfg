CONSTANTS
  CPU = {c1, c2}
  NPROC = 3
  Pid <- Pids
  None = None
SPECIFICATION Spec
INVARIANTS SchedSound NoLostWakeup ChampionBeatsSteady
PROPERTY FirstRuns
