SPECIFICATION Spec
CONSTANTS
  Threads = {t1, t2, t3}
  Owner = t1
  Callbacks = {f1, f2}
  NoCallback = NoCallback
  MaxPerforms = 2
INVARIANTS TypeOK NextExclusive CallbackOnce ReleasedOnce NobodyInside WaitsForOne
PROPERTIES EveryWaitReturns DestroyEnds
CHECK_DEADLOCK FALSE
