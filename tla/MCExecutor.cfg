SPECIFICATION Spec
CONSTANTS
  Clients = {c1, c2}
  Workers = {w1, w2, w3}
  Owner = Owner
  Nobody = Nobody
  PoolSizes = {2}
  MaxAdds = 3
INVARIANTS TypeOK ActiveExact EveryThreadJoined RefsHaveThreads
PROPERTIES EveryRefTaken StopEnds
CHECK_DEADLOCK FALSE
