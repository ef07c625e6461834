SPECIFICATION SafeSpec
CONSTANTS
  Threads = {t1, t2}
  Values = {v1}
  NoValue = NoValue
  Capacity = 1
  MaxTickets = 3
  WordSize = 16
SYMMETRY Symmetry
PROPERTIES GivesUpWhenFull
CHECK_DEADLOCK FALSE
