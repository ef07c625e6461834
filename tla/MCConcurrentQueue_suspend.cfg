SPECIFICATION SafeSpec
CONSTANTS
  Clients = {c1, c2}
  Workers = {w1}
  AsyncTasks = {a1}
  SyncTasks = {s1}
  MaxSuspends = 1
SYMMETRY Symmetry
INVARIANTS SuspendTakesEffect
CHECK_DEADLOCK FALSE
