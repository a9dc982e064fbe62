SPECIFICATION Spec
CONSTANTS
  Names = {"a", "b"}
  OneCharNames = {"b"}
  FileBytes <- Contents
  Growth <- LineGrowth
  LineSize = 2
  RespSize = 4
  MaxRequests = 2
  MaxChanges = 1
INVARIANTS
  CompleteMeansWhole
PROPERTIES
  TransferEnds
CHECK_DEADLOCK FALSE
