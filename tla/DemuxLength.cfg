SPECIFICATION Spec
CONSTANTS
  c1 = c1
  c2 = c2
  a1 = a1
  None = None
  Attempts = {c1, c2}
  Acceptors = {a1}
  Addr <- OwnAddr
  Slots <- TwoSlots
  Firsts = {"syn"}
  Transports = {"stcp"}
INVARIANTS
  LengthAssertionsHold
CHECK_DEADLOCK FALSE
