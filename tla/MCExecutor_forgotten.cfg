SPECIFICATION SafeSpec
CONSTANTS
  Clients = {c1, c2}
  Workers = {w1, w2}
  Owner = Owner
  Nobody = Nobody
  PoolSizes = {2}
  MaxAdds = 2
INVARIANTS RefsNotForgotten
CHECK_DEADLOCK FALSE
