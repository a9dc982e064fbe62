---------------------------- MODULE StcpSegment ----------------------------
(***************************************************************************)
(* The way of STCP segments from stcp_network_send of one mysocket to      *)
(* stcp_network_recv of its peer: the header is completed and summed, the  *)
(* segment is framed by its length and written to a TCP connection, which  *)
(* takes and delivers bytes in pieces of any size; the peer reads length   *)
(* and segment and checks the sum.  Bytes have B values instead of 256 and *)
(* words W = B * B instead of 65536; an address is one word; all header    *)
(* fields but the sum are bytes of the argument of stcp_network_send.      *)
(* The peers may have different byte orders (the Makefile builds for       *)
(* Solaris and Linux).                                                     *)
(***************************************************************************)
EXTENDS Integers, Sequences, FiniteSets, FiniteSetsExt, SequencesExt

CONSTANTS
  B,                  \* number of byte values
  HDR_LEN,            \* sizeof(struct tcphdr)
  SUM_AT,             \* offsetof(struct tcphdr, th_sum)
  IPPROTO_TCP,
  MAX_IP_PAYLOAD_LEN,
  Headers, Payloads,  \* the buffers handed to stcp_network_send
  Hosts,              \* addresses of sender and receiver: see host
  MaxSegments         \* bound on the segments sent

W == B * B
PSEUDO_LEN == 8       \* two addresses, protocol, length

Byte == 0..(B - 1)
Addrs == (Byte \X Byte) \ {<<0, 0>>}

ASSUME BaseAssumption == B \in Nat \ {0, 1}
ASSUME SegmentAssumption ==
  /\ HDR_LEN \in Nat /\ SUM_AT \in Nat /\ MAX_IP_PAYLOAD_LEN \in Nat
  /\ SUM_AT % 2 = 0 /\ SUM_AT + 2 <= HDR_LEN
  /\ IPPROTO_TCP \in 1..(B - 1)
  /\ Headers \subseteq Seq(Byte) /\ Payloads \subseteq Seq(Byte)
  /\ \A h \in Headers : Len(h) = HDR_LEN
  /\ \A h \in Headers, p \in Payloads : Len(h) + Len(p) <= MAX_IP_PAYLOAD_LEN
  /\ MAX_IP_PAYLOAD_LEN < W
  \* the sum of all words fits the positive half of an int of two words
  /\ ((PSEUDO_LEN + MAX_IP_PAYLOAD_LEN + 1) \div 2) * (W - 1) < (W * W) \div 2
  /\ Hosts \subseteq [{"nameS", "wireS", "nameR", "wireR"} -> Addrs]

VARIABLES
  host,      \* addresses: of a host by its name, and as its peer sees it
  little,    \* byte order of the sender and of the receiver
  sent,      \* segments handed to _network_send
  out,       \* bytes of the current _tcp_io(write), and those of the next one
  net,       \* bytes in the TCP connection
  state,     \* of the connection: open, closed by the sender, or broken
  need, got, \* _tcp_io(read): bytes asked for and bytes read
  part,      \* what _network_recv_packet reads: the length or the segment
  received,  \* segments it returned
  damaged    \* history: segments that have a wrong byte

vars == <<host, little, sent, out, net, state, need, got, part, received,
          damaged>>

-----------------------------------------------------------------------------
(* Checksums *)

\* the byte order of the network
BigEndian == FALSE

\* htons: a number as the two bytes that are sent
Hton(n) == <<n \div B, n % B>>
Ntoh(s) == s[1] * B + s[2]
\* the number a host of the given byte order reads in two bytes, and stores
HostWord(s, lit) == IF lit THEN s[1] + B * s[2] ELSE Ntoh(s)
HostBytes(n, lit) == IF lit THEN <<n % B, n \div B>> ELSE Hton(n)

\* the sum of the first words, as the loops of both checksums go through them
SumWords(s, lit) ==
  LET sum[n \in 0..(Len(s) \div 2)] ==
        IF n = 0 THEN 0
        ELSE sum[n - 1] + HostWord(<<s[2 * n - 1], s[2 * n]>>, lit)
  IN sum[Len(s) \div 2]

\* the last byte of a segment of odd length, in the first byte of tmp
OddByteLow(s, lit) == IF Len(s) % 2 = 0 THEN 0 ELSE s[Len(s)]
OddByte(s, lit) ==
  IF Len(s) % 2 = 0 THEN 0 ELSE HostWord(<<s[Len(s)], 0>>, lit)

\* a segment as it is summed, with nothing in th_sum
Blank(packet) == [packet EXCEPT ![SUM_AT + 1] = 0, ![SUM_AT + 2] = 0]
PseudoHeader(src, dst, len) == src \o dst \o <<0, IPPROTO_TCP>> \o Hton(len)

\* the 32-bit sum folded into 16 bits, as _mysock_tcp_checksum does it
Fold(sum) == LET once == (sum \div W) + (sum % W)
             IN (once + (once \div W)) % W

\* _mysock_tcp_checksum; the word of th_sum is skipped
TcpChecksum(src, dst, packet, lit) ==
  (W - 1) - Fold(SumWords(PseudoHeader(src, dst, Len(packet)), lit)
                 + SumWords(Blank(packet), lit) + OddByte(packet, lit))

\* cksum of the router folds until no carry is left and never returns 0
CksumLoop[sum \in Nat] ==
  IF sum < W THEN sum ELSE CksumLoop[(sum \div W) + (sum % W)]
CksumSumOnce(sum) == ((sum \div W) + (sum % W)) % W
CksumSum(sum) == CksumLoop[sum]
Cksum(data) ==
  LET c == (W - 1) - CksumSum(SumWords(data, BigEndian)
                              + OddByte(data, BigEndian))
  IN IF c = 0 THEN W - 1 ELSE c

\* _mysock_set_checksum: the sender's address is the one its name has
SetChecksum(packet) ==
  LET sum == HostBytes(TcpChecksum(host.nameS, host.wireR, packet, little.S),
                       little.S)
  IN [packet EXCEPT ![SUM_AT + 1] = sum[1], ![SUM_AT + 2] = sum[2]]

StoredSum(packet) == <<packet[SUM_AT + 1], packet[SUM_AT + 2]>>

\* _mysock_verify_checksum, which stcp_network_recv asserts
VerifyChecksum(packet) ==
  TcpChecksum(host.wireS, host.nameR, packet, little.R)
    = HostWord(StoredSum(packet), little.R)

-----------------------------------------------------------------------------
Init ==
  /\ host \in Hosts
  /\ little \in [S : BOOLEAN, R : BOOLEAN]
  /\ sent = <<>> /\ out = <<>> /\ net = <<>> /\ state = "open"
  /\ need = 2 /\ got = <<>> /\ part = "length"
  /\ received = <<>> /\ damaged = {}

recvVars == <<need, got, part, received>>

\* stcp_network_send puts its buffers into one packet, fills in the header and
\* has _network_send_packet write the length and the packet
NetworkSend(header, payload) ==
  LET packet == SetChecksum(Blank(header \o payload))
  IN /\ state = "open" /\ out = <<>> /\ Len(sent) < MaxSegments
     /\ sent' = Append(sent, packet)
     /\ out' = Hton(Len(packet)) \o packet
     /\ UNCHANGED <<host, little, net, state, recvVars, damaged>>

\* the length and the packet are two calls of _tcp_io: no write() covers both
NextWrite == LET body == Len(Last(sent))
             IN IF Len(out) > body THEN Len(out) - body ELSE Len(out)

\* _tcp_io(write): write() takes some of the bytes
TcpWrite(n) ==
  /\ state = "open" /\ out # <<>> /\ n \in 1..NextWrite
  /\ net' = net \o SubSeq(out, 1, n)
  /\ out' = SubSeq(out, n + 1, Len(out))
  /\ UNCHANGED <<host, little, sent, state, recvVars, damaged>>

\* write() fails because the connection is gone: the rest is not sent, and no
\* later segment either
WriteFails ==
  /\ state = "open" /\ out # <<>>
  /\ state' = "broken" /\ out' = <<>>
  /\ UNCHANGED <<host, little, sent, net, recvVars, damaged>>

\* _network_close of the sender
CloseSender ==
  /\ state = "open" /\ out = <<>>
  /\ state' = "closed"
  /\ UNCHANGED <<host, little, sent, out, net, recvVars, damaged>>

\* a byte of a segment is damaged on its way (one in a behaviour)
Damage(j, byte) ==
  /\ damaged = {} /\ out # <<>> /\ Len(out) <= Len(Last(sent))
  /\ j \in DOMAIN out /\ out[j] # byte
  /\ out' = [out EXCEPT ![j] = byte]
  /\ damaged' = {Len(sent)}
  /\ UNCHANGED <<host, little, sent, net, state, recvVars>>

\* _tcp_io(read) is complete when all bytes asked for are there
TcpIoShort(bytes, count) == Len(bytes) >= 2
TcpIoDone(bytes, count) == Len(bytes) = count

\* read() returns n bytes; a complete length or segment ends a call of _tcp_io.
\* A segment longer than the buffer is not sent by this code.
TcpRead(n) ==
  LET bytes == got \o SubSeq(net, 1, n)
  IN /\ part # "ended" /\ n \in 1..Min({Len(net), need - Len(got)})
     /\ net' = SubSeq(net, n + 1, Len(net))
     /\ \/ /\ ~TcpIoDone(bytes, need)
           /\ got' = bytes
           /\ UNCHANGED <<need, part, received>>
        \/ /\ TcpIoDone(bytes, need) /\ part = "length"
           /\ got' = <<>> /\ part' = "segment"
           /\ need' = Min({Ntoh(bytes), MAX_IP_PAYLOAD_LEN})
           /\ UNCHANGED received
        \/ /\ TcpIoDone(bytes, need) /\ part = "segment"
           /\ got' = <<>> /\ part' = "length" /\ need' = 2
           /\ received' = Append(received, bytes)
     /\ UNCHANGED <<host, little, sent, out, state, damaged>>

\* read() returns 0 or fails: what was read of a segment is dropped
ReadEnds ==
  /\ part # "ended" /\ \/ state = "closed" /\ net = <<>>
                       \/ state = "broken"
  /\ part' = "ended" /\ got' = <<>>
  /\ UNCHANGED <<host, little, sent, out, net, state, need, received, damaged>>

Next ==
  \/ \E h \in Headers, p \in Payloads : NetworkSend(h, p)
  \/ \E n \in 1..MAX_IP_PAYLOAD_LEN : TcpWrite(n) \/ TcpRead(n)
  \/ WriteFails \/ CloseSender \/ ReadEnds
  \/ \E j \in 1..MAX_IP_PAYLOAD_LEN, byte \in Byte : Damage(j, byte)

Spec == Init /\ [][Next]_vars

-----------------------------------------------------------------------------
(* Properties *)

\* However write() and read() cut the stream, and wherever it ends, the receive
\* thread gets whole segments, each of them once and in the order sent; only a
\* byte damaged on the way differs.
SegmentsWhole ==
  /\ Len(received) <= Len(sent)
  /\ \A i \in DOMAIN received :
       /\ Len(received[i]) = Len(sent[i])
       /\ i \notin damaged => received[i] = sent[i]
  /\ state = "closed" /\ part = "ended" => Len(received) = Len(sent)

\* one host that talks to itself, and hosts whose names have the addresses they
\* are reached under
OneHost == host.nameS = host.nameR /\ host.wireS = host.wireR
Named == host.nameS = host.wireS /\ host.nameR = host.wireR

\* The assertion of stcp_network_recv holds for every segment that arrives as
\* it was sent and for no other, whatever the byte orders of the two hosts, for
\* even and odd lengths, although the two sides take the addresses from
\* different places: from the host's name and from the connection.
ChecksumExact ==
  OneHost \/ Named =>
    \A i \in DOMAIN received : VerifyChecksum(received[i]) <=> i \notin damaged

\* The one's complement sum of RFC 1071, as a number from 1 to W - 1
OnesComplementSum(data) ==
  LET sum == SumWords(data, BigEndian) + OddByte(data, BigEndian)
  IN IF sum = 0 THEN 0 ELSE 1 + ((sum - 1) % (W - 1))

\* On the wire, the checksum is the complement of the sum over pseudo header
\* and segment in network byte order; the router's cksum computes the same
\* function, except that it sends W - 1 for 0.
SumsAgree ==
  \A i \in DOMAIN sent :
    LET data == PseudoHeader(host.nameS, host.wireR, Len(sent[i]))
                  \o Blank(sent[i])
        c == (W - 1) - OnesComplementSum(data)
    IN /\ StoredSum(sent[i]) = Hton(c)
       /\ Cksum(data) = IF c = 0 THEN W - 1 ELSE c
=============================================================================
