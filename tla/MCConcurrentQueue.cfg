SPECIFICATION Spec
CONSTANTS
  Clients = {c1, c2}
  Workers = {w1}
  AsyncTasks = {a1, a2}
  SyncTasks = {s1}
  MaxSuspends = 2
INVARIANTS TypeOK EveryTaskCovered NoTaskStranded ResumeTakesEffect
PROPERTIES EveryTaskRuns
CHECK_DEADLOCK FALSE
