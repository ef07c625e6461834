SPECIFICATION Spec
CONSTANTS
  Threads = {t1, t2, t3}
  Callbacks = {f1}
  NoCallback = NoCallback
  MaxTasks = 2
  MaxWaits = 2
INVARIANTS TypeOK CallbackNotForgotten
PROPERTIES WaitSeesEmpty EveryWaitReturns
CHECK_DEADLOCK FALSE
