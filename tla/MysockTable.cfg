SPECIFICATION Spec
CONSTANTS
  b1 = b1
  b2 = b2
  b3 = b3
  a1 = a1
  NULL = NULL
  MAX_NUM_CONNECTIONS = 2
  Blocks = {b1, b2, b3}
  Apps = {a1}
  Backlogs = {0}
SYMMETRY Symmetry
CONSTRAINT NotClashed
INVARIANTS
  MysocketsOwned
  SocketsOwned
  ContextsAlive
  AssertionsHold
CHECK_DEADLOCK FALSE
