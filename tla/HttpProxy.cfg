SPECIFICATION Spec
CONSTANTS
  Clients = {"c1", "c2"}
  Bytes = {"G", "A", "r", "n", "x", ":", "K", "k", "1", "2"}
  Requests <- SomeRequests
  Reply <- TwoParts
INVARIANTS
  RequestLineWhole
  AnswerExplained
PROPERTIES
  ClientReleased
CHECK_DEADLOCK FALSE
