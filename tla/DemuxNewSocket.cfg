SPECIFICATION Spec
CONSTANTS
  c1 = c1
  c2 = c2
  c3 = c3
  a1 = a1
  None = None
  Attempts = {c1, c2, c3}
  Acceptors = {a1}
  Addr <- OwnAddr
  Slots <- OneSlot
  Firsts = {"syn"}
  Transports = {"stcp"}
INVARIANTS
  NewSocketFree
CHECK_DEADLOCK FALSE
