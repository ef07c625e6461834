SPECIFICATION SafeSpec
CONSTANTS
  Threads = {t1, t2, t3}
  Callbacks = {f1}
  NoCallback = NoCallback
  MaxTasks = 2
  MaxWaits = 1
SYMMETRY Symmetry
INVARIANTS CallbackAfterTasks
CHECK_DEADLOCK FALSE
