--------------------------- MODULE MCStcpSegment ---------------------------
(* An instance of StcpSegment for TLC: bytes of two bits, a header of four    *)
(* bytes with the sum in the last two, payloads of even and odd length.       *)
EXTENDS StcpSegment

OneHeader == {<<3, 1, 0, 0>>}
EvenAndOdd == {<<>>, <<1>>, <<2, 3, 1>>}

Host(nameS, wireS, nameR, wireR) ==
  [nameS |-> nameS, wireS |-> wireS, nameR |-> nameR, wireR |-> wireR]
\* a host that talks to itself, hosts known under their own addresses, and a
\* host whose name has another address than its peer sees
SomeHosts ==
  LET a == <<0, 3>>
      b == <<2, 1>>
      c == <<3, 3>>
  IN {Host(a, b, a, b), Host(b, c, b, c), Host(a, a, b, b), Host(b, b, c, c),
      Host(c, c, a, a), Host(c, b, a, a)}
=============================================================================
