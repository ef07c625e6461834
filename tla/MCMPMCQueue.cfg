SPECIFICATION Spec
CONSTANTS
  Threads = {t1, t2, t3}
  Values = {v1, v2}
  NoValue = NoValue
  Capacity = 1
  MaxTickets = 2
  WordSize = 16
INVARIANTS TypeOK StorageExclusive
PROPERTIES ImplementsAbstract
CHECK_DEADLOCK FALSE
