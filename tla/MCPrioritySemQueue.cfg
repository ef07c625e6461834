SPECIFICATION Spec
CONSTANTS
  Adders = {a1}
  Takers = {t1, t2}
  Elements = {e1, e2}
  NoElement = NoElement
  NumPriorities = 2
  Priorities <- BothEnds
  Capacity = 1
  Kinds = {"dynamic", "block", "throw"}
  MaxAdds = 2
INVARIANTS TypeOK ReadersCounted TakersServed
PROPERTIES PriorityRespected EveryElementTaken
CHECK_DEADLOCK FALSE
