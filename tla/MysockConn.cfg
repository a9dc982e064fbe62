SPECIFICATION Spec
CONSTANTS
  WriteLens = {2}
  ReadMaxes = {1}
  RecvMaxes = {1}
  PacketLens = {2}
  NetRecvMaxes = {2}
  WaitFlags <- AnyEventOnly
  MaxBytes = 2
  MaxQueue = 2
  MaxPackets = 3
  Transports = {"skeleton", "stcp"}
  OverlapSafe = TRUE
INVARIANTS
  TypeOK
  StreamsInOrder
  NoUseAfterFree
  NoLostWakeup
  SuccessMeansEstablished
PROPERTIES
  DownPipe
  UpPipe
  ConnectReturns
  DataTaken
  ReadReturns
  CloseReturns
CHECK_DEADLOCK FALSE
