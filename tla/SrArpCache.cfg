SPECIFICATION Spec
CONSTANTS
  p1 = p1
  p2 = p2
  p3 = p3
  i1 = i1
  i2 = i2
  m1 = m1
  m2 = m2
  NULL = NULL
  Wild = Wild
  Packets <- MCPackets
  Hop <- MCHop
  MacsOf <- MCMacsOf
  Reqs = {r1, r2}
  SR_ARPCACHE_SZ = 2
  SR_ARPCACHE_TO = 1
  MaxSends = 3
INVARIANTS
  NoDanglingRequest
  EachPacketOnce
  SentToNextHop
PROPERTIES
  GivesUpLate
  QueueSettles
