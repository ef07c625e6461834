SPECIFICATION Spec
CONSTANTS
  Threads = {t1, t2}
  NoValue = NoValue
  MinCapacity = 1
  MaxCapacity = 3
  Multiplier = 2
  ExtraCapacity = 1
  SeqlockSize = 8
  MaxTickets = 5
INVARIANTS TypeOK TicketBound
PROPERTIES ImplementsAbstract
CHECK_DEADLOCK FALSE
