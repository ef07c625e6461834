SPECIFICATION MCSpec
CONSTANTS
  Clients = {c1, c2}
  Workers = {w1, w2}
  AsyncTasks = {a1, a2}
  SyncTasks = {s1}
  NoTask = NoTask
  MaxSuspends = 1
INVARIANTS TypeOK MutualExclusion TokenNeverLost NoLostWakeup
PROPERTIES SuspendHolds ImplementsAbstract
CHECK_DEADLOCK FALSE
