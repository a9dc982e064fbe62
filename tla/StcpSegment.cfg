SPECIFICATION Spec
CONSTANTS
  B = 4
  HDR_LEN = 4
  SUM_AT = 2
  IPPROTO_TCP = 1
  MAX_IP_PAYLOAD_LEN = 7
  Headers <- OneHeader
  Payloads <- EvenAndOdd
  Hosts <- SomeHosts
  MaxSegments = 2
INVARIANTS
  SegmentsWhole
  ChecksumExact
  SumsAgree
CHECK_DEADLOCK FALSE
