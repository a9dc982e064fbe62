-------------------------- MODULE SrArpCacheProofs --------------------------
(***************************************************************************)
(* Proofs about SrArpCache for every value of its constants: any number of *)
(* packets, requests, cache slots and sends.                               *)
(***************************************************************************)
EXTENDS SrArpCache, SequencesExt, SequenceTheorems, WellFoundedInduction, TLAPS

-----------------------------------------------------------------------------
(* Lists and numbers *)

\* sr_arpcache_queuereq does with requests and with packets.
LEMMA PrependFacts ==
  ASSUME NEW S, NEW s \in Seq(S), NEW e \in S
  PROVE  /\ <<e>> \o s \in Seq(S)
         /\ Range(<<e>> \o s) = Range(s) \cup {e}
         /\ IsInjective(s) /\ e \notin Range(s) => IsInjective(<<e>> \o s)
<1> DEFINE t == <<e>> \o s
<1>1. /\ t \in Seq(S) /\ Len(t) = Len(s) + 1 /\ Len(s) \in Nat
      /\ DOMAIN t = 1..Len(s) + 1 /\ DOMAIN s = 1..Len(s)
      /\ t[1] = e
      /\ \A i \in 2..Len(s) + 1 : t[i] = s[i - 1]
  OBVIOUS
<1> HIDE DEF t
<1>2. Range(t) = Range(s) \cup {e}
  <2>1. ASSUME NEW x \in Range(t) PROVE x \in Range(s) \cup {e}
    BY <1>1 DEF Range
  <2>2. ASSUME NEW x \in Range(s) PROVE x \in Range(t)
    <3>1. PICK j \in 1..Len(s) : s[j] = x
      BY <1>1 DEF Range
    <3>2. j + 1 \in 1..Len(s) + 1 /\ t[j + 1] = x
      BY <3>1, <1>1
    <3> QED  BY <3>2, <1>1 DEF Range
  <2>3. e \in Range(t)
    BY <1>1 DEF Range
  <2> QED  BY <2>1, <2>2, <2>3
<1>3. ASSUME IsInjective(s), e \notin Range(s) PROVE IsInjective(t)
  <2> SUFFICES ASSUME NEW a \in 1..Len(s) + 1, NEW b \in 1..Len(s) + 1, t[a] = t[b]
               PROVE  a = b
    BY <1>1 DEF IsInjective
  <2>1. \A i \in 2..Len(s) + 1 : t[i] # e
    BY <1>1, <1>3 DEF Range
  <2>2. CASE a = 1
    BY <2>1, <2>2, <1>1
  <2>3. CASE b = 1
    BY <2>1, <2>3, <1>1
  <2>4. CASE a # 1 /\ b # 1
    <3>1. a - 1 \in 1..Len(s) /\ b - 1 \in 1..Len(s) /\ s[a - 1] = s[b - 1]
      BY <2>4, <1>1
    <3>2. a - 1 = b - 1
      BY <3>1, <1>1, <1>3 DEF IsInjective
    <3> QED  BY <3>2
  <2> QED  BY <2>2, <2>3, <2>4
<1> QED  BY <1>1, <1>2, <1>3 DEF t

\* Unlinking one element of a list that has each element once leaves the others.
LEMMA RemoveAtFacts ==
  ASSUME NEW S, NEW s \in Seq(S), IsInjective(s), NEW i \in 1..Len(s)
  PROVE  /\ RemoveAt(s, i) \in Seq(S)
         /\ IsInjective(RemoveAt(s, i))
         /\ Range(RemoveAt(s, i)) = Range(s) \ {s[i]}
<1> DEFINE t == RemoveAt(s, i)
           n == Len(s)
           Old(k) == IF k < i THEN k ELSE k + 1
<1>1. n \in Nat /\ DOMAIN s = 1..n
  OBVIOUS
<1> DEFINE before == SubSeq(s, 1, i - 1)
           after == SubSeq(s, i + 1, n)
<1>2. /\ before \in Seq(S) /\ Len(before) = i - 1
      /\ \A k \in 1..i - 1 : before[k] = s[k]
  OBVIOUS
<1>3. /\ after \in Seq(S) /\ Len(after) = n - i
      /\ \A k \in 1..n - i : after[k] = s[k + i]
  OBVIOUS
<1>10. t = before \o after
  BY DEF RemoveAt
<1> HIDE DEF before, after, t
<1>11. /\ t \in Seq(S) /\ Len(t) = Len(before) + Len(after)
       /\ \A k \in 1..Len(before) + Len(after) :
            t[k] = IF k <= Len(before) THEN before[k] ELSE after[k - Len(before)]
  BY <1>2, <1>3, <1>10, ConcatProperties
<1>4. t \in Seq(S) /\ Len(t) = n - 1 /\ DOMAIN t = 1..n - 1
  BY <1>1, <1>2, <1>3, <1>11
<1>5. ASSUME NEW k \in 1..n - 1 PROVE t[k] = s[Old(k)]
  <2>1. t[k] = IF k <= i - 1 THEN before[k] ELSE after[k - (i - 1)]
    BY <1>1, <1>2, <1>3, <1>11
  <2>2. CASE k < i
    BY <2>1, <2>2, <1>2
  <2>3. CASE k >= i
    <3>1. k - (i - 1) \in 1..n - i /\ (k - (i - 1)) + i = k + 1
      BY <2>3, <1>1
    <3> QED  BY <2>1, <2>3, <3>1, <1>3
  <2> QED  BY <2>2, <2>3
<1>6. \A k \in 1..n - 1 : Old(k) \in 1..n /\ Old(k) # i
  BY <1>1
<1>7. IsInjective(t)
  <2> SUFFICES ASSUME NEW a \in 1..n - 1, NEW b \in 1..n - 1, t[a] = t[b]
               PROVE  a = b
    BY <1>4 DEF IsInjective
  <2>1. Old(a) = Old(b)
    BY <1>1, <1>5, <1>6 DEF IsInjective
  <2> QED  BY <2>1, <1>1
<1>8. ASSUME NEW x \in Range(t) PROVE x \in Range(s) \ {s[i]}
  <2>1. PICK k \in 1..n - 1 : t[k] = x
    BY <1>4 DEF Range
  <2>2. x = s[Old(k)] /\ Old(k) \in 1..n /\ Old(k) # i
    BY <2>1, <1>5, <1>6
  <2> HIDE DEF Old
  <2> QED  BY <2>2, <1>1 DEF Range, IsInjective
<1>9. ASSUME NEW x \in Range(s) \ {s[i]} PROVE x \in Range(t)
  <2>1. PICK k \in 1..n : s[k] = x
    BY <1>1 DEF Range
  <2>2. k # i
    BY <2>1
  <2>3. CASE k < i
    BY <2>1, <2>3, <1>1, <1>4, <1>5 DEF Range
  <2>4. CASE k > i
    <3>1. k - 1 \in 1..n - 1 /\ t[k - 1] = s[k]
      BY <2>4, <1>1, <1>5
    <3> QED  BY <3>1, <2>1, <1>4 DEF Range
  <2> QED  BY <2>2, <2>3, <2>4, <1>1
<1> QED  BY <1>4, <1>7, <1>8, <1>9 DEF t

\* The head of a list and what is left after it.
LEMMA HeadFacts ==
  ASSUME NEW S, NEW s \in Seq(S), s # <<>>
  PROVE  /\ Tail(s) \in Seq(S)
         /\ Head(s) \in Range(s) /\ Head(s) \in S
         /\ Range(s) = Range(Tail(s)) \cup {Head(s)}
<1>1. /\ Len(s) \in Nat \ {0} /\ DOMAIN s = 1..Len(s) /\ Head(s) = s[1]
      /\ Tail(s) \in Seq(S) /\ DOMAIN Tail(s) = 1..Len(s) - 1
      /\ \A i \in 1..Len(s) - 1 : Tail(s)[i] = s[i + 1]
  BY EmptySeq, LenProperties, HeadTailProperties
<1>2. ASSUME NEW x \in Range(s) PROVE x \in Range(Tail(s)) \cup {Head(s)}
  <2>1. PICK k \in 1..Len(s) : s[k] = x
    BY <1>1 DEF Range
  <2>2. CASE k = 1
    BY <2>1, <2>2, <1>1
  <2>3. CASE k # 1
    <3>1. k - 1 \in 1..Len(s) - 1 /\ Tail(s)[k - 1] = x
      BY <2>1, <2>3, <1>1
    <3> QED  BY <3>1, <1>1 DEF Range
  <2> QED  BY <2>2, <2>3
<1>3. ASSUME NEW x \in Range(Tail(s)) PROVE x \in Range(s)
  <2>1. PICK k \in 1..Len(s) - 1 : Tail(s)[k] = x
    BY <1>1 DEF Range
  <2> QED  BY <2>1, <1>1 DEF Range
<1>4. Head(s) \in Range(s) /\ Head(s) \in S
  BY <1>1 DEF Range
<1> QED  BY <1>1, <1>2, <1>3, <1>4

\* Every set of numbers has a least element.
LEMMA LeastNatural ==
  ASSUME NEW T, T \subseteq Nat, T # {}
  PROVE  \E x \in T : \A y \in T : x <= y
<1> DEFINE R == {ss \in Nat \X Nat : ss[1] < ss[2]}
<1>1. IsWellFoundedOn(R, Nat)
  BY NatLessThanWellFounded DEF OpToRel
<1>2. PICK x \in T : \A y \in T : ~(<<y, x>> \in R)
  <2> HIDE DEF R
  <2> QED  BY <1>1, WFMin
<1>3. ASSUME NEW y \in T PROVE x <= y
  <2>1. <<y, x>> \in Nat \X Nat
    OBVIOUS
  <2>2. ~(<<y, x>>[1] < <<y, x>>[2])
    BY <1>2, <2>1
  <2> QED  BY <2>2
<1> QED  BY <1>3

\* Every bounded set of numbers has a greatest element.
LEMMA GreatestBelow ==
  ASSUME NEW n \in Nat, NEW T, T \subseteq 1..n, T # {}
  PROVE  \E x \in T : \A y \in T : y <= x
<1> DEFINE U == {n - y : y \in T}
<1>1. U \subseteq Nat /\ U # {}
  <2>1. ASSUME NEW y \in T PROVE n - y \in Nat
    <3>1. y \in 1..n
      OBVIOUS
    <3> QED  BY <3>1
  <2>2. U \subseteq Nat
    BY <2>1, Zenon
  <2>3. U # {}
    BY Zenon
  <2> QED  BY <2>2, <2>3
<1>2. PICK u \in U : \A v \in U : u <= v
  BY <1>1, LeastNatural
<1>3. PICK x \in T : u = n - x
  OBVIOUS
<1>4. ASSUME NEW y \in T PROVE y <= x
  <2>1. n - x <= n - y
    BY <1>2, <1>3
  <2>2. x \in 1..n /\ y \in 1..n
    OBVIOUS
  <2> QED  BY <2>1, <2>2
<1> QED  BY <1>4

-----------------------------------------------------------------------------
(* The inductive invariant *)

Entries == [valid : BOOLEAN, ip : Ips \cup {NULL}, mac : Macs \cup {NULL}, age : Nat]
Requests == [ip : Ips \cup {NULL}, age : 0..OldRequest, times_sent : Nat,
             packets : Seq(Packets)]

\* The handler is idle, has missed in the cache, or serves a reply.
HandlerOK ==
  \/ handler = Idle
  \/ \E p \in Packets : handler = Missed(p)
  \/ \E r \in Reqs, m \in Macs, left \in Seq(Packets) : handler = Serving(r, m, left)

TypeOK ==
  /\ entries \in [Slots -> Entries]
  /\ requests \in Seq(Reqs)
  /\ req \in [Reqs -> Requests]
  /\ alive \in SUBSET Reqs
  /\ lock \in {"free", "sweep"}
  /\ curr \in Reqs \cup {NULL, Wild}
  /\ slept \in BOOLEAN
  /\ HandlerOK
  /\ fate \in [Packets -> {"new", "queued", "dropped"} \cup Macs]
  /\ waited \in [Reqs -> Nat]

Served_req == IF handler.pc = "serving" THEN {handler.req} ELSE {}

\* The allocated requests are those in the queue and the one being served, and
\* the sweep has a request in hand only while it holds the lock.
Linked ==
  /\ IsInjective(requests)
  /\ alive = Range(requests) \cup Served_req
  /\ Served_req \cap Range(requests) = {}
  /\ curr # NULL => lock = "sweep"
  /\ curr \in Reqs => curr \in Range(requests)

\* Each live request has an address, which is the next hop of its packets.
Lists ==
  \A r \in alive :
    /\ IsInjective(req[r].packets) /\ req[r].ip \in Ips
    /\ \A p \in Range(req[r].packets) : req[r].ip = Hop[p]

\* One request per address in the queue, one list per packet.
Disjoint ==
  /\ \A r, s \in Range(requests) : req[r].ip = req[s].ip => r = s
  /\ \A r, s \in alive : \A p \in Packets :
       p \in Range(req[r].packets) /\ p \in Range(req[s].packets) => r = s

\* A queued packet waits somewhere, a new or dropped one nowhere.
Waits ==
  \A p \in Packets :
    /\ fate[p] = "queued" =>
         \E r \in alive : /\ p \in Range(req[r].packets)
                         /\ \/ r \in Range(requests)
                            \/ /\ handler.pc = "serving" /\ handler.req = r
                               /\ p \in Range(handler.left)
    /\ fate[p] \in {"new", "dropped"} =>
         \A r \in alive : p \notin Range(req[r].packets)

\* What the handler has in hand: a packet that is still new, or a request with
\* an address that the reply's MAC address belongs to.
InHand ==
  /\ handler.pc = "missed" => fate[handler.packet] = "new"
  /\ handler.pc = "serving" =>
       /\ handler.mac \in MacsOf[req[handler.req].ip]
       /\ Range(handler.left) \subseteq Range(req[handler.req].packets)

\* The cache only has mappings that were announced.
Announced ==
  \A i \in Slots : entries[i].valid =>
    entries[i].ip \in Ips /\ entries[i].mac \in MacsOf[entries[i].ip]

\* The sends of a request are more than a second apart, and the last one
\* destroys it.
Spaced ==
  \A r \in Reqs :
    /\ req[r].times_sent < MaxSends
    /\ req[r].times_sent > 0 =>
         \/ waited[r] >= Patience
         \/ waited[r] >= OldRequest * (req[r].times_sent - 1) + req[r].age

PacketInv == Linked /\ Lists /\ Disjoint /\ Waits
CacheInv == TypeOK /\ PacketInv /\ InHand /\ Announced /\ SentToNextHop

-----------------------------------------------------------------------------
(* Operators *)

\* What the shape of the handler's state says of its fields.
LEMMA HandlerCases ==
  ASSUME HandlerOK
  PROVE  \/ handler = Idle /\ handler.pc = "idle"
         \/ /\ handler.pc = "missed" /\ handler.packet \in Packets
            /\ handler = Missed(handler.packet)
         \/ /\ handler.pc = "serving" /\ handler.req \in Reqs
            /\ handler.mac \in Macs /\ handler.left \in Seq(Packets)
            /\ handler = Serving(handler.req, handler.mac, handler.left)
<1>1. CASE handler = Idle
  BY <1>1 DEF Idle
<1>2. ASSUME NEW p \in Packets, handler = Missed(p)
      PROVE  handler.pc = "missed" /\ handler.packet = p
  BY <1>2 DEF Missed
<1>3. ASSUME NEW r \in Reqs, NEW m \in Macs, NEW left \in Seq(Packets),
             handler = Serving(r, m, left)
      PROVE  /\ handler.pc = "serving" /\ handler.req = r
             /\ handler.mac = m /\ handler.left = left
  BY <1>3 DEF Serving
<1> QED  BY <1>1, <1>2, <1>3 DEF HandlerOK

\* A packet is not sent to "queued": fates and addresses are told apart.
LEMMA MacsAreMacs ==
  /\ \A i \in Ips : MacsOf[i] \subseteq Macs
  /\ "new" \notin Macs /\ "queued" \notin Macs /\ "dropped" \notin Macs
BY FateAssumption, Zenon DEF Macs

\* The position the walk finds is the request's.
LEMMA PositionFacts ==
  ASSUME requests \in Seq(Reqs), NEW r \in Range(requests)
  PROVE  Position(r) \in 1..Len(requests) /\ requests[Position(r)] = r
<1>1. \E i \in DOMAIN requests : requests[i] = r
  BY DEF Range
<1>2. DOMAIN requests = 1..Len(requests)
  BY LenProperties
<1> QED  BY <1>1, <1>2 DEF Position

\* Unlinking a request leaves exactly the others, each once.
LEMMA WithoutFacts ==
  ASSUME requests \in Seq(Reqs), IsInjective(requests), NEW r
  PROVE  /\ Without(r) \in Seq(Reqs)
         /\ IsInjective(Without(r))
         /\ Range(Without(r)) = Range(requests) \ {r}
<1>1. CASE r \in Range(requests)
  <2>1. Position(r) \in 1..Len(requests) /\ requests[Position(r)] = r
    BY <1>1, PositionFacts
  <2>2. Without(r) = RemoveAt(requests, Position(r))
    BY <1>1 DEF Without
  <2> QED  BY <2>1, <2>2, RemoveAtFacts
<1>2. CASE r \notin Range(requests)
  BY <1>2 DEF Without
<1> QED  BY <1>1, <1>2

\* The successor of a linked request is NULL or linked.
LEMMA SuccessorLinked ==
  ASSUME requests \in Seq(Reqs), IsInjective(requests), NEW r \in Range(requests)
  PROVE  Next_of(r) \in (Range(requests) \ {r}) \cup {NULL}
<1>1. /\ Position(r) \in 1..Len(requests) /\ requests[Position(r)] = r
      /\ DOMAIN requests = 1..Len(requests) /\ Len(requests) \in Nat
  BY PositionFacts, LenProperties
<1>2. ASSUME Position(r) # Len(requests)
      PROVE  requests[Position(r) + 1] \in Range(requests) \ {r}
  <2>1. Position(r) + 1 \in 1..Len(requests)
    BY <1>1, <1>2
  <2>2. Position(r) + 1 # Position(r)
    BY <1>1
  <2> QED  BY <1>1, <2>1, <2>2 DEF Range, IsInjective
<1> QED  BY <1>2 DEF Next_of

\* A hit gives an entry that matches.
LEMMA FoundFacts ==
  ASSUME NEW ip, Matching(ip) # {}
  PROVE  \E i \in Slots : entries[i].valid /\ entries[i].ip = ip /\ Found(ip) = entries[i]
<1>1. Matching(ip) \subseteq 1..SR_ARPCACHE_SZ /\ SR_ARPCACHE_SZ \in Nat
  BY SizesAssumption DEF Matching, Slots
<1>2. \E i \in Matching(ip) : \A j \in Matching(ip) : j <= i
  BY <1>1, GreatestBelow
<1>3. PICK i \in Matching(ip) : Found(ip) = entries[i]
  BY <1>2 DEF Found
<1> QED  BY <1>3 DEF Matching

\* An insertion fills an invalid slot.
LEMMA FirstFreeFacts ==
  ASSUME FreeSlots # {}
  PROVE  FirstFree \in Slots
<1>1. FreeSlots \subseteq Slots /\ FreeSlots \subseteq Nat
  BY SizesAssumption DEF FreeSlots, Slots
<1>2. \E i \in FreeSlots : \A j \in FreeSlots : i <= j
  BY <1>1, LeastNatural
<1> QED  BY <1>1, <1>2 DEF FirstFree

-----------------------------------------------------------------------------
(* Every step preserves the invariant *)

LEMMA CacheInit == Init => CacheInv
<1> SUFFICES ASSUME Init PROVE CacheInv
  OBVIOUS
<1>1. TypeOK
  <2>1. NoEntry \in Entries
    BY DEF NoEntry, Entries
  <2>2. NoRequest \in Requests
    BY EmptySeq DEF NoRequest, Requests, OldRequest
  <2> QED  BY <2>1, <2>2, EmptySeq DEF Init, TypeOK, HandlerOK
<1>2. Range(requests) = {} /\ IsInjective(requests) /\ Served_req = {}
  BY DEF Init, Range, IsInjective, Served_req, Idle
<1>3. PacketInv
  BY <1>2, NULLAssumption DEF Init, PacketInv, Linked, Lists, Disjoint, Waits
<1>4. InHand /\ Announced
  BY DEF Init, InHand, Announced, Idle, NoEntry
<1>5. SentToNextHop
  BY MacsAreMacs DEF Init, SentToNextHop
<1> QED  BY <1>1, <1>3, <1>4, <1>5 DEF CacheInv

\* A hit sends the packet to an announced address; a miss only remembers it.
LEMMA LookupStep ==
  ASSUME CacheInv, NEW p \in Packets, Lookup(p)
  PROVE  CacheInv'
<1> USE DEF CacheInv, PacketInv
<1>1. /\ handler = Idle /\ handler.pc = "idle" /\ fate[p] = "new"
      /\ UNCHANGED <<entries, requests, req, alive, lock, curr, slept, waited>>
  BY DEF Lookup, cacheVars, sweepVars, Idle
<1>2. CASE /\ Matching(Hop[p]) # {}
           /\ fate' = [fate EXCEPT ![p] = Found(Hop[p]).mac]
           /\ UNCHANGED handler
  <2>1. PICK m \in MacsOf[Hop[p]] : fate' = [fate EXCEPT ![p] = m]
    BY <1>2, FoundFacts DEF Announced
  <2>2. m \in Macs /\ m \notin {"new", "queued", "dropped"}
    BY <2>1, MacsAreMacs, HopAssumption
  <2>3. TypeOK'
    BY <1>1, <1>2, <2>1, <2>2 DEF TypeOK, HandlerOK
  <2>4. Linked' /\ Lists' /\ Disjoint'
    BY <1>1, <1>2 DEF Linked, Lists, Disjoint, Served_req
  <2>5. Waits'
    BY <1>1, <1>2, <2>1, <2>2 DEF Waits, TypeOK
  <2>6. InHand' /\ Announced'
    BY <1>1, <1>2 DEF InHand, Announced
  <2>7. SentToNextHop'
    BY <2>1, <2>2 DEF SentToNextHop, TypeOK
  <2> QED  BY <2>3, <2>4, <2>5, <2>6, <2>7
<1>3. CASE handler' = Missed(p) /\ UNCHANGED fate
  <2>1. handler'.pc = "missed" /\ handler'.packet = p
    BY <1>3 DEF Missed
  <2>2. TypeOK'
    BY <1>1, <1>3 DEF TypeOK, HandlerOK
  <2>3. Linked' /\ Lists' /\ Disjoint'
    BY <1>1, <2>1 DEF Linked, Lists, Disjoint, Served_req
  <2>4. Waits'
    BY <1>1, <1>3, <2>1 DEF Waits
  <2>5. InHand' /\ Announced' /\ SentToNextHop'
    BY <1>1, <1>3, <2>1 DEF InHand, Announced, SentToNextHop
  <2> QED  BY <2>2, <2>3, <2>4, <2>5
<1> QED  BY <1>2, <1>3 DEF Lookup

\* A packet that missed joins the request for its next hop, or a new one.
LEMMA QueueStep ==
  ASSUME CacheInv, Queue
  PROVE  CacheInv'
<1> USE DEF CacheInv, PacketInv
<1> DEFINE p == handler.packet
           ip == Hop[p]
<1>1. /\ handler.pc = "missed" /\ p \in Packets /\ fate[p] = "new" /\ ip \in Ips
      /\ handler' = Idle /\ handler'.pc = "idle"
      /\ fate' = [fate EXCEPT ![p] = "queued"]
      /\ UNCHANGED <<entries, lock, curr, slept, waited>>
  BY HandlerCases, HopAssumption DEF Queue, sweepVars, Idle, TypeOK, InHand
<1>2. /\ Served_req = {} /\ Served_req' = {} /\ alive = Range(requests)
      /\ lock = "free" /\ curr = NULL
  BY <1>1 DEF Served_req, Linked, Queue
<1>3. \A r \in alive : p \notin Range(req[r].packets)
  BY <1>1 DEF Waits
<1> HIDE DEF p, ip
<1>8. Announced' /\ InHand' /\ SentToNextHop'
  BY <1>1, MacsAreMacs DEF Announced, InHand, SentToNextHop, TypeOK
<1>4. ASSUME NEW r \in For(ip), AddPacket(r, p), UNCHANGED <<requests, alive>>
      PROVE  CacheInv'
  <2> DEFINE new == <<p>> \o req[r].packets
  <2>1. r \in alive /\ r \in Reqs /\ req[r].ip = ip /\ req[r].packets \in Seq(Packets)
    BY <1>2 DEF For, TypeOK, Requests
  <2>2. /\ new \in Seq(Packets) /\ IsInjective(new)
        /\ Range(new) = Range(req[r].packets) \cup {p}
    BY <1>1, <1>3, <2>1, PrependFacts DEF Lists
  <2>3. /\ req'[r].packets = new /\ req'[r].ip = ip
        /\ \A s \in Reqs \ {r} : req'[s] = req[s]
        /\ req' \in [Reqs -> Requests]
        /\ \A s \in Reqs : req'[s].ip = req[s].ip
    BY <1>4, <2>1, <2>2 DEF AddPacket, TypeOK, Requests
  <2> HIDE DEF new
  <2>4. TypeOK'
    BY <1>1, <1>4, <2>3 DEF TypeOK, HandlerOK
  <2>5. Linked'
    BY <1>1, <1>2, <1>4 DEF Linked
  <2>6. Lists'
    BY <1>1, <1>4, <2>1, <2>2, <2>3 DEF Lists, TypeOK, ip
  <2>7. Disjoint'
    <3>1. \A q, s \in Range(requests') : req'[q].ip = req'[s].ip => q = s
      BY <1>2, <1>4, <2>3 DEF Disjoint, TypeOK
    <3>2. \A q, s \in alive' : \A x \in Packets :
            x \in Range(req'[q].packets) /\ x \in Range(req'[s].packets) => q = s
      <4> SUFFICES ASSUME NEW q \in alive, NEW s \in alive, NEW x \in Packets,
                          x \in Range(req'[q].packets), x \in Range(req'[s].packets)
                   PROVE  q = s
        BY <1>4
      <4>1. \A t \in alive : x \in Range(req'[t].packets) =>
                             x \in Range(req[t].packets) \/ (x = p /\ t = r)
        BY <1>4, <2>1, <2>2, <2>3 DEF TypeOK
      <4>2. CASE x = p
        BY <4>1, <4>2, <1>3
      <4>3. CASE x # p
        BY <4>1, <4>3 DEF Disjoint
      <4> QED  BY <4>2, <4>3
    <3> QED  BY <3>1, <3>2 DEF Disjoint
  <2>8. Waits'
    <3> SUFFICES ASSUME NEW q \in Packets
                 PROVE  /\ fate'[q] = "queued" =>
                             \E s \in alive' : q \in Range(req'[s].packets)
                                             /\ s \in Range(requests')
                        /\ fate'[q] \in {"new", "dropped"} =>
                             \A s \in alive' : q \notin Range(req'[s].packets)
      BY DEF Waits
    <3>1. CASE q = p
      BY <3>1, <1>1, <1>2, <1>4, <2>1, <2>2, <2>3 DEF TypeOK
    <3>2. CASE q # p
      <4>1. fate'[q] = fate[q]
        BY <3>2, <1>1 DEF TypeOK
      <4>2. \A s \in alive : q \in Range(req'[s].packets) <=> q \in Range(req[s].packets)
        BY <3>2, <2>1, <2>2, <2>3 DEF TypeOK
      <4> QED  BY <4>1, <4>2, <1>1, <1>2, <1>4 DEF Waits
    <3> QED  BY <3>1, <3>2
  <2> QED  BY <2>4, <2>5, <2>6, <2>7, <2>8, <1>8
<1>5. ASSUME For(ip) = {}, NEW r \in Reqs \ alive,
             req' = [req EXCEPT ![r] = NewRequest(ip, p)],
             requests' = <<r>> \o requests, alive' = alive \cup {r}
      PROVE  CacheInv'
  <2> DEFINE only == <<p>>
  <2>2. /\ only \in Seq(Packets) /\ IsInjective(only) /\ Range(only) = {p}
    BY <1>1 DEF Range, IsInjective
  <2>3. /\ req'[r].packets = only /\ req'[r].ip = ip
        /\ \A s \in Reqs \ {r} : req'[s] = req[s]
        /\ req' \in [Reqs -> Requests]
    BY <1>1, <1>5, <2>2 DEF TypeOK, Requests, NewRequest, OldRequest
  <2> HIDE DEF only
  <2>4. /\ requests' \in Seq(Reqs) /\ IsInjective(requests')
        /\ Range(requests') = Range(requests) \cup {r}
    BY <1>2, <1>5, PrependFacts DEF Linked, TypeOK
  <2>5. TypeOK'
    BY <1>1, <1>5, <2>3, <2>4 DEF TypeOK, HandlerOK
  <2>6. Linked'
    BY <1>1, <1>2, <1>5, <2>4 DEF Linked
  <2>7. Lists'
    BY <1>1, <1>5, <2>2, <2>3 DEF Lists, TypeOK, ip
  <2>8. Disjoint'
    <3>1. \A s \in Range(requests) : req[s].ip # ip
      BY <1>5 DEF For
    <3>2. \A q, s \in Range(requests') : req'[q].ip = req'[s].ip => q = s
      BY <1>2, <1>5, <2>3, <2>4, <3>1 DEF Disjoint, TypeOK
    <3>3. \A q, s \in alive' : \A x \in Packets :
            x \in Range(req'[q].packets) /\ x \in Range(req'[s].packets) => q = s
      BY <1>3, <1>5, <2>2, <2>3 DEF Disjoint, TypeOK
    <3> QED  BY <3>2, <3>3 DEF Disjoint
  <2>9. Waits'
    <3> SUFFICES ASSUME NEW q \in Packets
                 PROVE  /\ fate'[q] = "queued" =>
                             \E s \in alive' : q \in Range(req'[s].packets)
                                             /\ s \in Range(requests')
                        /\ fate'[q] \in {"new", "dropped"} =>
                             \A s \in alive' : q \notin Range(req'[s].packets)
      BY DEF Waits
    <3>1. CASE q = p
      BY <3>1, <1>1, <1>2, <1>5, <2>2, <2>3, <2>4 DEF TypeOK
    <3>2. CASE q # p
      <4>1. fate'[q] = fate[q]
        BY <3>2, <1>1 DEF TypeOK
      <4>2. /\ \A s \in alive : req'[s] = req[s]
            /\ q \notin Range(req'[r].packets)
        BY <3>2, <1>5, <2>2, <2>3 DEF TypeOK
      <4> QED  BY <4>1, <4>2, <1>1, <1>2, <1>5, <2>4 DEF Waits
    <3> QED  BY <3>1, <3>2
  <2> QED  BY <2>5, <2>6, <2>7, <2>8, <2>9, <1>8
<1>6. sr_arpcache_queuereq(ip, p)
  BY DEF Queue, ip, p
<1> QED  BY <1>4, <1>5, <1>6 DEF sr_arpcache_queuereq

\* Inserting a mapping that was announced.
LEMMA InsertEntryFacts ==
  ASSUME TypeOK, Announced, NEW i \in Ips, NEW m \in MacsOf[i], InsertEntry(i, m)
  PROVE  entries' \in [Slots -> Entries] /\ Announced'
<1>1. CASE FreeSlots # {}
  <2>1. m \in Macs
    BY MacsAreMacs
  <2>2. /\ Mapping(i, m) \in Entries
        /\ Mapping(i, m).ip = i /\ Mapping(i, m).mac = m
    BY <2>1 DEF Mapping, Entries
  <2>3. entries' = [entries EXCEPT ![FirstFree] = Mapping(i, m)] /\ FirstFree \in Slots
    BY <1>1, FirstFreeFacts DEF InsertEntry
  <2> QED  BY <2>2, <2>3 DEF TypeOK, Announced
<1>2. CASE FreeSlots = {}
  BY <1>2 DEF InsertEntry, TypeOK, Announced
<1> QED  BY <1>1, <1>2

\* A reply fills a slot and takes the request for its address out of the queue.
LEMMA InsertStep ==
  ASSUME CacheInv, NEW i \in Ips, NEW m \in MacsOf[i], Insert(i, m)
  PROVE  CacheInv'
<1> USE DEF CacheInv, PacketInv
<1>1. /\ handler = Idle /\ handler.pc = "idle" /\ lock = "free" /\ m \in Macs
      /\ UNCHANGED <<req, alive, lock, curr, slept, fate, waited>>
  BY MacsAreMacs DEF Insert, sweepVars, Idle
<1>2. entries' \in [Slots -> Entries] /\ Announced' /\ SentToNextHop'
  BY <1>1, InsertEntryFacts DEF Insert, SentToNextHop
<1>3. Served_req = {} /\ alive = Range(requests) /\ curr = NULL
  BY <1>1 DEF Served_req, Linked
<1>4. ASSUME NEW r \in For(i), TakeRequest(r), handler' = Serving(r, m, req[r].packets)
      PROVE  CacheInv'
  <2>1. /\ r \in Range(requests) /\ r \in Reqs /\ req[r].ip = i
        /\ req[r].packets \in Seq(Packets)
    BY <1>3 DEF For, TypeOK, Requests
  <2>2. /\ handler'.pc = "serving" /\ handler'.req = r /\ handler'.mac = m
        /\ handler'.left = req[r].packets
    BY <1>4 DEF Serving
  <2>3. /\ requests' \in Seq(Reqs) /\ IsInjective(requests')
        /\ Range(requests') = Range(requests) \ {r}
    BY <1>4, WithoutFacts DEF TakeRequest, Linked, TypeOK
  <2>4. TypeOK'
    BY <1>1, <1>2, <1>4, <2>1, <2>3 DEF TypeOK, HandlerOK
  <2>5. Linked'
    BY <1>1, <1>3, <2>1, <2>2, <2>3, NULLAssumption DEF Linked, Served_req
  <2>6. Lists' /\ Disjoint'
    BY <1>1, <2>3 DEF Lists, Disjoint
  <2>7. Waits'
    BY <1>1, <1>3, <2>2, <2>3 DEF Waits
  <2>8. InHand'
    BY <1>1, <2>1, <2>2 DEF InHand
  <2> QED  BY <2>4, <2>5, <2>6, <2>7, <2>8, <1>2
<1>5. CASE UNCHANGED <<requests, handler>>
  BY <1>1, <1>2, <1>5
     DEF TypeOK, HandlerOK, Linked, Served_req, Lists, Disjoint, Waits, InHand
<1> QED  BY <1>4, <1>5 DEF Insert

\* The next waiting packet goes out to the address of the reply.
LEMMA SendWaitingStep ==
  ASSUME CacheInv, SendWaiting
  PROVE  CacheInv'
<1> USE DEF CacheInv, PacketInv
<1> DEFINE p == Head(handler.left)
           m == handler.mac
           r == handler.req
<1>1. /\ handler.pc = "serving" /\ r \in Reqs /\ m \in Macs
      /\ handler.left \in Seq(Packets) /\ handler.left # <<>>
      /\ handler = Serving(r, m, handler.left)
      /\ fate' = [fate EXCEPT ![p] = m]
      /\ UNCHANGED <<entries, requests, req, alive, lock, curr, slept, waited>>
  BY HandlerCases DEF SendWaiting, cacheVars, sweepVars, TypeOK
<1>2. /\ Tail(handler.left) \in Seq(Packets) /\ p \in Packets /\ p \in Range(handler.left)
      /\ Range(handler.left) = Range(Tail(handler.left)) \cup {p}
  BY <1>1, HeadFacts
<1>3. /\ handler' = Serving(r, m, Tail(handler.left))
      /\ handler'.pc = "serving" /\ handler'.req = r /\ handler'.mac = m
      /\ handler'.left = Tail(handler.left)
  BY <1>1 DEF SendWaiting, Serving
<1>4. r \in alive /\ p \in Range(req[r].packets) /\ m \in MacsOf[Hop[p]]
  BY <1>1, <1>2 DEF Linked, Served_req, InHand, Lists
<1> HIDE DEF p, m, r
<1>5. m # "new" /\ m # "queued" /\ m # "dropped"
  BY <1>1, MacsAreMacs
<1>6. TypeOK'
  BY <1>1, <1>2, <1>3 DEF TypeOK, HandlerOK
<1>7. Linked' /\ Lists' /\ Disjoint'
  BY <1>1, <1>3 DEF Linked, Lists, Disjoint, Served_req, r
<1>8. Waits'
  <2> SUFFICES ASSUME NEW q \in Packets
               PROVE  /\ fate'[q] = "queued" =>
                           \E s \in alive' :
                             /\ q \in Range(req'[s].packets)
                             /\ \/ s \in Range(requests')
                                \/ /\ handler'.pc = "serving" /\ handler'.req = s
                                   /\ q \in Range(handler'.left)
                      /\ fate'[q] \in {"new", "dropped"} =>
                           \A s \in alive' : q \notin Range(req'[s].packets)
    BY DEF Waits
  <2>1. CASE q = p
    BY <2>1, <1>1, <1>5 DEF TypeOK
  <2>2. CASE q # p
    <3>1. fate'[q] = fate[q]
      BY <2>2, <1>1 DEF TypeOK
    <3>2. q \in Range(handler.left) => q \in Range(handler'.left)
      BY <2>2, <1>2, <1>3
    <3> QED  BY <3>1, <3>2, <1>1, <1>3 DEF Waits, r
  <2> QED  BY <2>1, <2>2
<1>9. InHand'
  BY <1>1, <1>2, <1>3 DEF InHand, r, m
<1>10. Announced'
  BY <1>1 DEF Announced
<1>11. SentToNextHop'
  BY <1>1, <1>2, <1>4 DEF SentToNextHop, TypeOK
<1> QED  BY <1>6, <1>7, <1>8, <1>9, <1>10, <1>11

\* Freeing a live request: what it leaves, whoever does it.
LEMMA DestroyFacts ==
  ASSUME CacheInv, NEW r \in alive, sr_arpreq_destroy(r)
  PROVE  /\ requests' \in Seq(Reqs) /\ IsInjective(requests')
         /\ Range(requests') = Range(requests) \ {r}
         /\ alive' = alive \ {r} /\ alive' \in SUBSET Reqs
         /\ req' \in [Reqs -> Requests] /\ waited' \in [Reqs -> Nat]
         /\ \A s \in alive' : req'[s] = req[s]
         /\ fate' \in [Packets -> {"new", "queued", "dropped"} \cup Macs]
         /\ Lists' /\ Disjoint' /\ SentToNextHop'
         /\ \A p \in Packets :
              fate'[p] = IF p \in Range(req[r].packets) /\ fate[p] = "queued"
                         THEN "dropped" ELSE fate[p]
<1> USE DEF CacheInv, PacketInv
<1>1. /\ requests' \in Seq(Reqs) /\ IsInjective(requests')
      /\ Range(requests') = Range(requests) \ {r}
  BY WithoutFacts DEF sr_arpreq_destroy, Linked, TypeOK
<1>2. alive' = alive \ {r} /\ alive' \in SUBSET Reqs
  BY DEF sr_arpreq_destroy, TypeOK
<1>3. NoRequest \in Requests
  BY EmptySeq DEF NoRequest, Requests, OldRequest
<1>4. /\ req' \in [Reqs -> Requests] /\ waited' \in [Reqs -> Nat]
      /\ \A s \in alive' : req'[s] = req[s]
  BY <1>2, <1>3 DEF sr_arpreq_destroy, TypeOK
<1>5. \A p \in Packets :
        fate'[p] = IF p \in Range(req[r].packets) /\ fate[p] = "queued"
                   THEN "dropped" ELSE fate[p]
  BY DEF sr_arpreq_destroy
<1>6. fate' \in [Packets -> {"new", "queued", "dropped"} \cup Macs]
  BY DEF sr_arpreq_destroy, TypeOK
<1>7. Lists' /\ Disjoint'
  <2>1. Range(requests') \subseteq alive' /\ alive' \subseteq alive
    BY <1>1, <1>2 DEF Linked
  <2>2. Lists'
    BY <1>4, <2>1 DEF Lists
  <2>3. Disjoint'
    BY <1>1, <1>4, <2>1 DEF Disjoint
  <2> QED  BY <2>2, <2>3
<1>8. SentToNextHop'
  BY <1>5, MacsAreMacs DEF SentToNextHop
<1> QED  BY <1>1, <1>2, <1>4, <1>5, <1>6, <1>7, <1>8

\* The handler frees the request it has served: nothing of it still waits.
LEMMA ServedStep ==
  ASSUME CacheInv, Served
  PROVE  CacheInv'
<1> USE DEF CacheInv, PacketInv
<1> DEFINE r == handler.req
<1>1. /\ handler.pc = "serving" /\ handler.left = <<>> /\ lock = "free"
      /\ sr_arpreq_destroy(r) /\ handler' = Idle /\ handler'.pc = "idle"
      /\ UNCHANGED <<entries, lock, curr, slept>>
  BY DEF Served, sweepVars, Idle
<1>2. /\ r \in alive /\ r \notin Range(requests) /\ curr = NULL
      /\ alive = Range(requests) \cup {r}
  BY <1>1 DEF Linked, Served_req
<1> HIDE DEF r
<1>3. TypeOK'
  BY <1>1, <1>2, DestroyFacts DEF TypeOK, HandlerOK
<1>4. Linked'
  BY <1>1, <1>2, DestroyFacts DEF Linked, Served_req
<1>5. Lists' /\ Disjoint' /\ SentToNextHop'
  BY <1>1, <1>2, DestroyFacts
<1>6. Range(handler.left) = {}
  BY <1>1 DEF Range
<1>7. Waits'
  <2> SUFFICES ASSUME NEW q \in Packets
               PROVE  /\ fate'[q] = "queued" =>
                           \E s \in alive' : /\ q \in Range(req'[s].packets)
                                             /\ s \in Range(requests')
                      /\ fate'[q] \in {"new", "dropped"} =>
                           \A s \in alive' : q \notin Range(req'[s].packets)
    BY DEF Waits
  <2>1. /\ alive' = alive \ {r} /\ Range(requests') = Range(requests)
        /\ \A s \in alive' : req'[s] = req[s]
        /\ fate'[q] = IF q \in Range(req[r].packets) /\ fate[q] = "queued"
                      THEN "dropped" ELSE fate[q]
    <3>1. /\ alive' = alive \ {r} /\ Range(requests') = Range(requests) \ {r}
          /\ \A s \in alive' : req'[s] = req[s]
      BY <1>1, <1>2, DestroyFacts
    <3>2. fate'[q] = IF q \in Range(req[r].packets) /\ fate[q] = "queued"
                     THEN "dropped" ELSE fate[q]
      BY <1>1, <1>2, DestroyFacts
    <3> QED  BY <3>1, <3>2, <1>2
  <2>2. CASE fate[q] = "queued"
    <3>1. PICK s \in Range(requests) : q \in Range(req[s].packets)
      BY <2>2, <1>6 DEF Waits
    <3>2. q \notin Range(req[r].packets)
      BY <3>1, <1>2 DEF Disjoint
    <3> QED  BY <2>1, <2>2, <3>1, <3>2, <1>2
  <2>3. CASE fate[q] # "queued"
    BY <2>1, <2>3 DEF Waits
  <2> QED  BY <2>2, <2>3
<1>8. InHand' /\ Announced'
  BY <1>1 DEF InHand, Announced
<1> QED  BY <1>3, <1>4, <1>5, <1>7, <1>8

\* The sweep drops the old entries and starts at the first request.
LEMMA SweepBeginStep ==
  ASSUME CacheInv, SweepBegin
  PROVE  CacheInv'
<1> USE DEF CacheInv, PacketInv
<1>1. /\ curr' = First(requests) /\ lock' = "sweep" /\ slept' = FALSE
      /\ UNCHANGED <<requests, req, alive, handler, fate, waited>>
  BY DEF SweepBegin
<1>2. NoEntry \in Entries /\ NoEntry.valid = FALSE
  BY DEF NoEntry, Entries
<1>3. /\ entries' = [i \in Slots |-> IF Expired(i) THEN NoEntry ELSE entries[i]]
      /\ entries \in [Slots -> Entries]
  BY DEF SweepBegin, TypeOK
<1>4. entries' \in [Slots -> Entries] /\ Announced'
  <2>1. ASSUME NEW i \in Slots
        PROVE  entries'[i] = NoEntry \/ entries'[i] = entries[i]
    BY <1>3
  <2>2. entries' \in [Slots -> Entries]
    BY <1>2, <1>3
  <2>3. Announced'
    BY <1>2, <2>1 DEF Announced
  <2> QED  BY <2>2, <2>3
<1>5. curr' \in Reqs \cup {NULL} /\ (curr' # NULL => curr' \in Range(requests))
  BY <1>1, HeadFacts DEF First, TypeOK
<1>6. TypeOK'
  BY <1>1, <1>4, <1>5 DEF TypeOK, HandlerOK
<1>7. Linked'
  BY <1>1, <1>5, NULLAssumption DEF Linked, Served_req
<1>8. Lists' /\ Disjoint' /\ Waits' /\ InHand' /\ SentToNextHop'
  BY <1>1 DEF Lists, Disjoint, Waits, InHand, SentToNextHop
<1> QED  BY <1>4, <1>6, <1>7, <1>8

\* What a turn of the sweep makes of a request.
LEMMA HandleFacts ==
  ASSUME NEW q \in Requests
  PROVE  /\ handle_arpreq(q) \in Requests
         /\ handle_arpreq(q).ip = q.ip /\ handle_arpreq(q).packets = q.packets
         /\ \/ /\ q.age = OldRequest /\ handle_arpreq(q).age = 0
               /\ handle_arpreq(q).times_sent = q.times_sent + 1
            \/ handle_arpreq(q) = q
<1>1. CASE q.age = OldRequest /\ q.times_sent < MaxSends
  <2>1. handle_arpreq(q) = [q EXCEPT !.age = 0, !.times_sent = q.times_sent + 1]
    BY <1>1 DEF handle_arpreq
  <2>2. q.times_sent + 1 \in Nat /\ 0 \in 0..OldRequest
    BY DEF Requests, OldRequest
  <2> QED  BY <1>1, <2>1, <2>2 DEF Requests
<1>2. CASE ~(q.age = OldRequest /\ q.times_sent < MaxSends)
  BY <1>2 DEF handle_arpreq
<1> QED  BY <1>1, <1>2

\* A turn of the sweep counts a send of the request it is at or destroys it, and
\* goes to the one that followed it, or astray when it has freed the request.
LEMMA SweepRequestStep ==
  ASSUME CacheInv, SweepRequest
  PROVE  CacheInv'
<1> USE DEF CacheInv, PacketInv
<1> DEFINE q == handle_arpreq(req[curr])
<1>1. /\ lock = "sweep" /\ curr \in Reqs /\ curr' \in {Next_of(curr), Wild}
      /\ UNCHANGED <<entries, lock, slept, handler>>
  BY DEF SweepRequest
<1>2. curr \in Range(requests) /\ curr \in alive /\ curr \in Reqs /\ req[curr] \in Requests
  BY <1>1 DEF Linked, TypeOK
<1>3. /\ curr' \in (Range(requests) \ {curr}) \cup {NULL, Wild}
      /\ NULL \notin Reqs /\ Wild \notin Reqs
  BY <1>1, <1>2, SuccessorLinked, NULLAssumption DEF Linked, TypeOK
<1>4. q \in Requests /\ q.ip = req[curr].ip /\ q.packets = req[curr].packets
  BY <1>2, HandleFacts
<1> HIDE DEF q
<1>5. Announced'
  BY <1>1 DEF Announced
<1>6. CASE sr_arpreq_destroy(curr)
  <2>1. TypeOK'
    <3>1. curr' \in Reqs \cup {NULL, Wild}
      BY <1>3 DEF Linked, TypeOK
    <3> QED  BY <1>1, <1>2, <1>6, <3>1, DestroyFacts DEF TypeOK, HandlerOK
  <2>2. Linked'
    <3>1. Served_req' = Served_req /\ curr \notin Served_req
      BY <1>1, <1>2 DEF Linked, Served_req
    <3> QED  BY <1>1, <1>2, <1>3, <1>6, <3>1, DestroyFacts DEF Linked
  <2>3. Lists' /\ Disjoint' /\ SentToNextHop'
    BY <1>2, <1>6, DestroyFacts
  <2>4. /\ alive' = alive \ {curr} /\ Range(requests') = Range(requests) \ {curr}
        /\ \A s \in alive' : req'[s] = req[s]
        /\ \A p \in Packets :
             fate'[p] = IF p \in Range(req[curr].packets) /\ fate[p] = "queued"
                        THEN "dropped" ELSE fate[p]
    BY <1>2, <1>6, DestroyFacts
  <2>5. handler.pc = "serving" => handler.req # curr /\ handler.req \in alive
    BY <1>2 DEF Linked, Served_req
  <2>6. Waits'
    <3> SUFFICES ASSUME NEW p \in Packets
                 PROVE  /\ fate'[p] = "queued" =>
                             \E s \in alive' :
                               /\ p \in Range(req'[s].packets)
                               /\ \/ s \in Range(requests')
                                  \/ /\ handler'.pc = "serving" /\ handler'.req = s
                                     /\ p \in Range(handler'.left)
                        /\ fate'[p] \in {"new", "dropped"} =>
                             \A s \in alive' : p \notin Range(req'[s].packets)
      BY DEF Waits
    <3>1. CASE p \in Range(req[curr].packets) /\ fate[p] = "queued"
      BY <3>1, <2>4, <1>2 DEF Disjoint
    <3>2. CASE p \notin Range(req[curr].packets) /\ fate[p] = "queued"
      BY <3>2, <2>4, <1>1 DEF Waits
    <3>3. CASE fate[p] # "queued"
      BY <3>3, <2>4 DEF Waits
    <3> QED  BY <3>1, <3>2, <3>3
  <2>7. InHand'
    <3>1. ASSUME handler.pc = "missed" PROVE fate'[handler.packet] = "new"
      BY <3>1, <2>4, HandlerCases DEF InHand, TypeOK
    <3>2. ASSUME handler.pc = "serving" PROVE req'[handler.req] = req[handler.req]
      BY <3>2, <2>4, <2>5
    <3> QED  BY <1>1, <3>1, <3>2 DEF InHand
  <2> QED  BY <1>5, <2>1, <2>2, <2>3, <2>6, <2>7
<1>7. CASE req' = [req EXCEPT ![curr] = q] /\ UNCHANGED <<requests, alive, fate, waited>>
  <2>1. /\ req' \in [Reqs -> Requests]
        /\ \A s \in Reqs : req'[s].ip = req[s].ip /\ req'[s].packets = req[s].packets
    BY <1>2, <1>4, <1>7 DEF TypeOK
  <2>2. TypeOK'
    <3>1. curr' \in Reqs \cup {NULL, Wild}
      BY <1>3 DEF Linked, TypeOK
    <3> QED  BY <1>1, <1>7, <2>1, <3>1 DEF TypeOK, HandlerOK
  <2>3. Linked'
    BY <1>1, <1>3, <1>7 DEF Linked, Served_req
  <2>4. Range(requests) \subseteq Reqs /\ alive \subseteq Reqs
    BY DEF Linked, TypeOK
  <2>5. Lists' /\ Disjoint' /\ Waits'
    BY <1>1, <1>7, <2>1, <2>4 DEF Lists, Disjoint, Waits
  <2>6. InHand'
    <3>1. handler.pc = "serving" => handler.req \in Reqs
      BY HandlerCases DEF TypeOK
    <3> QED  BY <1>1, <1>7, <2>1, <3>1 DEF InHand
  <2>7. SentToNextHop'
    BY <1>7 DEF SentToNextHop
  <2> QED  BY <1>5, <2>2, <2>3, <2>5, <2>6, <2>7
<1> QED  BY <1>6, <1>7 DEF SweepRequest, q

\* The sweep unlocks.
LEMMA SweepEndStep ==
  ASSUME CacheInv, SweepEnd
  PROVE  CacheInv'
BY DEF SweepEnd, CacheInv, PacketInv, cacheVars, TypeOK, HandlerOK, Linked, Served_req,
   Lists, Disjoint, Waits, InHand, Announced, SentToNextHop

\* A second passes: only ages change.
LEMMA TickStep ==
  ASSUME CacheInv, Tick
  PROVE  CacheInv'
<1> USE DEF CacheInv, PacketInv
<1>1. UNCHANGED <<requests, alive, lock, curr, handler, fate>>
  BY DEF Tick
<1>2. /\ entries' \in [Slots -> Entries]
      /\ \A i \in Slots : /\ entries'[i].valid = entries[i].valid
                          /\ entries'[i].ip = entries[i].ip
                          /\ entries'[i].mac = entries[i].mac
  <2> SUFFICES ASSUME NEW i \in Slots
               PROVE  /\ entries'[i] \in Entries /\ entries'[i].valid = entries[i].valid
                      /\ entries'[i].ip = entries[i].ip /\ entries'[i].mac = entries[i].mac
    BY DEF Tick
  <2>1. entries[i] \in Entries /\ Aged(entries[i].age, OldEntry) \in Nat
    BY DEF TypeOK, Entries, Aged
  <2> QED  BY <2>1 DEF Tick, Entries
<1>3. /\ req' \in [Reqs -> Requests]
      /\ \A r \in Reqs : req'[r].ip = req[r].ip /\ req'[r].packets = req[r].packets
  <2> SUFFICES ASSUME NEW r \in Reqs
               PROVE  /\ req'[r] \in Requests /\ req'[r].ip = req[r].ip
                      /\ req'[r].packets = req[r].packets
    BY DEF Tick
  <2>1. req[r] \in Requests /\ Aged(req[r].age, OldRequest) \in 0..OldRequest
    BY DEF TypeOK, Requests, Aged, OldRequest
  <2> QED  BY <2>1 DEF Tick, Requests
<1>4. waited' \in [Reqs -> Nat]
  BY DEF Tick, Aged, TypeOK
<1>5. slept' \in BOOLEAN
  BY DEF Tick, TypeOK
<1>6. TypeOK'
  BY <1>1, <1>2, <1>3, <1>4, <1>5 DEF TypeOK, HandlerOK
<1>7. Range(requests) \subseteq Reqs /\ alive \subseteq Reqs
  BY DEF Linked, TypeOK
<1>8. Linked'
  BY <1>1 DEF Linked, Served_req
<1>9. Lists' /\ Disjoint' /\ Waits'
  BY <1>1, <1>3, <1>7 DEF Lists, Disjoint, Waits
<1>10. InHand'
  <2>1. handler.pc = "serving" => handler.req \in Reqs
    BY HandlerCases DEF TypeOK
  <2> QED  BY <1>1, <1>3, <2>1 DEF InHand
<1>11. Announced'
  BY <1>2 DEF Announced
<1>12. SentToNextHop'
  BY <1>1 DEF SentToNextHop
<1> QED  BY <1>6, <1>8, <1>9, <1>10, <1>11, <1>12

\* Every step preserves the invariant.
LEMMA CacheStep == CacheInv /\ [Next]_vars => CacheInv'
<1> SUFFICES ASSUME CacheInv, [Next]_vars PROVE CacheInv'
  OBVIOUS
<1>1. CASE UNCHANGED vars
  BY <1>1 DEF vars, cacheVars, sweepVars, CacheInv, PacketInv, TypeOK, HandlerOK, Linked,
     Served_req, Lists, Disjoint, Waits, InHand, Announced, SentToNextHop
<1>2. CASE InHandler
  BY <1>2, QueueStep, SendWaitingStep, ServedStep DEF InHandler
<1>3. CASE SweepStep
  BY <1>3, SweepBeginStep, SweepRequestStep, SweepEndStep DEF SweepStep
<1> QED  BY <1>1, <1>2, <1>3, LookupStep, InsertStep, TickStep DEF Next

\* The invariant says what the three properties say.
LEMMA CacheImplies == CacheInv => NoDanglingRequest /\ EachPacketOnce
<1> SUFFICES ASSUME CacheInv PROVE NoDanglingRequest /\ EachPacketOnce
  OBVIOUS
<1> USE DEF CacheInv, PacketInv
<1>1. NoDanglingRequest
  BY DEF NoDanglingRequest, Linked, Served_req, TypeOK
<1>2. ASSUME NEW p \in Packets
      PROVE  LET in == {r \in alive : p \in Range(req[r].packets)}
             IN /\ fate[p] = "queued" =>
                     \E r \in alive : /\ in = {r}
                                    /\ \/ r \in Range(requests)
                                       \/ /\ handler.pc = "serving" /\ handler.req = r
                                          /\ p \in Range(handler.left)
                /\ fate[p] \in {"new", "dropped"} => in = {}
  <2> DEFINE in == {r \in alive : p \in Range(req[r].packets)}
  <2>1. ASSUME fate[p] = "queued"
        PROVE  \E r \in alive : /\ in = {r}
                              /\ \/ r \in Range(requests)
                                 \/ /\ handler.pc = "serving" /\ handler.req = r
                                    /\ p \in Range(handler.left)
    <3>1. PICK r \in alive : /\ p \in Range(req[r].packets)
                            /\ \/ r \in Range(requests)
                               \/ /\ handler.pc = "serving" /\ handler.req = r
                                  /\ p \in Range(handler.left)
      BY <2>1 DEF Waits
    <3>2. in = {r}
      BY <3>1 DEF Disjoint
    <3> QED  BY <3>1, <3>2
  <2>2. fate[p] \in {"new", "dropped"} => in = {}
    BY DEF Waits
  <2> QED  BY <2>1, <2>2
<1>3. EachPacketOnce
  BY <1>2 DEF EachPacketOnce, Lists, Disjoint
<1> QED  BY <1>1, <1>3

-----------------------------------------------------------------------------
(* Theorems *)

\* The invariant holds of every behaviour of the cache.
LEMMA CacheInvariant == Spec => []CacheInv
BY CacheInit, CacheStep, PTL DEF Spec

\* The packet handler never reaches a request that sr_arpreq_destroy has freed,
\* and the sweep handles none, however their calls interleave, up to a pointer
\* that the sweep itself read from freed memory.
THEOREM RequestsNeverDangle == Spec => []NoDanglingRequest
BY CacheInvariant, CacheImplies, PTL

\* sr_arpcache_queuereq, sr_arpcache_insert and sr_arpreq_destroy keep each
\* waiting packet in exactly one list, that of its next hop's only request.
THEOREM PacketsWaitOnce == Spec => []EachPacketOnce
BY CacheInvariant, CacheImplies, PTL

\* sr_arpcache_lookup and the service of a reply send a packet only to an
\* address announced for its next hop.
THEOREM PacketsToNextHop == Spec => []SentToNextHop
<1>1. CacheInv => SentToNextHop
  BY DEF CacheInv
<1> QED  BY <1>1, CacheInvariant, PTL

-----------------------------------------------------------------------------
(* When a request is given up *)

\* One request's sends are spaced, for a state given by its three times.
SpacedFor(n, age, w) ==
  /\ n < MaxSends
  /\ n > 0 => w >= Patience \/ w >= OldRequest * (n - 1) + age

LEMMA SpacedInit == Init => Spaced
BY SizesAssumption DEF Init, Spaced, NoRequest

\* The sends of every request stay spaced: a turn of the sweep sends only an
\* old request, and a second that passes counts for both clocks.
LEMMA SpacedStep == CacheInv /\ Spaced /\ [Next]_vars => Spaced'
<1> SUFFICES ASSUME CacheInv, Spaced, [Next]_vars PROVE Spaced'
  OBVIOUS
<1> USE SizesAssumption
<1>1. /\ req \in [Reqs -> Requests] /\ waited \in [Reqs -> Nat]
      /\ \A r \in Reqs : /\ req[r].times_sent \in Nat /\ req[r].age \in 0..OldRequest
                         /\ waited[r] \in Nat
  BY DEF CacheInv, TypeOK, Requests
<1>2. \A r \in Reqs : SpacedFor(req[r].times_sent, req[r].age, waited[r])
  BY DEF Spaced, SpacedFor
<1>3. SUFFICES ASSUME NEW r \in Reqs
               PROVE  SpacedFor(req'[r].times_sent, req'[r].age, waited'[r])
  BY DEF Spaced, SpacedFor
<1>4. CASE req'[r].times_sent = req[r].times_sent /\ req'[r].age = req[r].age
           /\ waited'[r] = waited[r]
  BY <1>2, <1>4
<1>5. CASE req'[r].times_sent = 0
  BY <1>5 DEF SpacedFor
<1>6. CASE UNCHANGED vars
  BY <1>4, <1>6 DEF vars, cacheVars
<1>7. ASSUME NEW p \in Packets, Lookup(p) PROVE SpacedFor(req'[r].times_sent, req'[r].age, waited'[r])
  BY <1>4, <1>7 DEF Lookup, cacheVars
<1>8. ASSUME NEW i \in Ips, NEW m \in MacsOf[i], Insert(i, m)
      PROVE  SpacedFor(req'[r].times_sent, req'[r].age, waited'[r])
  BY <1>4, <1>8 DEF Insert
<1>9. CASE Queue
  <2>1. UNCHANGED waited /\ sr_arpcache_queuereq(Hop[handler.packet], handler.packet)
    BY <1>9 DEF Queue
  <2>2. ASSUME NEW s \in For(Hop[handler.packet]), AddPacket(s, handler.packet)
        PROVE  req'[r].times_sent = req[r].times_sent /\ req'[r].age = req[r].age
    BY <1>1, <2>2 DEF AddPacket, Requests
  <2>3. ASSUME NEW s \in Reqs, NEW ip,
               req' = [req EXCEPT ![s] = NewRequest(ip, handler.packet)]
        PROVE  req'[r].times_sent = 0 \/ req'[r] = req[r]
    BY <1>1, <2>3 DEF NewRequest
  <2> QED  BY <1>4, <1>5, <2>1, <2>2, <2>3 DEF sr_arpcache_queuereq
<1>10. CASE SendWaiting
  BY <1>4, <1>10 DEF SendWaiting, cacheVars
<1>11. ASSUME NEW s, sr_arpreq_destroy(s)
       PROVE  SpacedFor(req'[r].times_sent, req'[r].age, waited'[r])
  BY <1>1, <1>4, <1>5, <1>11 DEF sr_arpreq_destroy, NoRequest
<1>12. CASE Served
  BY <1>11, <1>12 DEF Served
<1>13. CASE SweepBegin
  BY <1>4, <1>13 DEF SweepBegin
<1>14. CASE SweepRequest
  <2> DEFINE q == handle_arpreq(req[curr])
  <2>1. curr \in Reqs
    BY <1>14 DEF SweepRequest, CacheInv, TypeOK
  <2>2. \/ /\ req[curr].age = OldRequest /\ q.age = 0
           /\ q.times_sent = req[curr].times_sent + 1
        \/ q = req[curr]
    BY <1>1, <2>1, HandleFacts
  <2> HIDE DEF q
  <2>3. ASSUME q.times_sent < MaxSends, req' = [req EXCEPT ![curr] = q], UNCHANGED waited
        PROVE  SpacedFor(req'[r].times_sent, req'[r].age, waited'[r])
    <3>1. CASE r = curr
      <4>1. req'[r] = q
        BY <3>1, <2>3, <1>1
      <4>2. CASE q = req[curr]
        BY <4>1, <4>2, <3>1, <2>3, <1>2
      <4>3. CASE /\ req[curr].age = OldRequest /\ q.age = 0
                 /\ q.times_sent = req[curr].times_sent + 1
        BY <4>1, <4>3, <3>1, <2>3, <1>1, <1>2 DEF SpacedFor, OldRequest
      <4> QED  BY <2>2, <4>2, <4>3
    <3>2. CASE r # curr
      BY <3>2, <2>3, <1>1, <1>4
    <3> QED  BY <3>1, <3>2
  <2> QED  BY <1>11, <1>14, <2>3 DEF SweepRequest, q
<1>15. CASE SweepEnd
  BY <1>4, <1>15 DEF SweepEnd, cacheVars
<1>16. CASE Tick
  <2> DEFINE n == req[r].times_sent
  <2>1. /\ req'[r].times_sent = n
        /\ req'[r].age = req[r].age \/ req'[r].age = Aged(req[r].age, OldRequest)
    BY <1>1, <1>16 DEF Tick, Requests
  <2>2. waited'[r] = IF n > 0 THEN Aged(waited[r], Patience) ELSE waited[r]
    BY <1>1, <1>16 DEF Tick
  <2> QED  BY <1>1, <1>2, <2>1, <2>2 DEF SpacedFor, Aged, OldRequest, Patience
<1> QED  BY <1>6, <1>7, <1>8, <1>9, <1>10, <1>12, <1>13, <1>14, <1>15, <1>16
            DEF Next, InHandler, SweepStep

\* A linked request is freed only in a turn of the sweep that sends it for the
\* last time.
LEMMA GivenUpLate ==
  ASSUME CacheInv, Spaced, [Next]_vars, NEW r \in Range(requests), r \notin alive'
  PROVE  waited[r] >= Patience
<1>1. /\ r \in alive /\ r \in Reqs /\ req[r] \in Requests /\ waited[r] \in Nat
      /\ Served_req \cap Range(requests) = {}
  BY DEF CacheInv, PacketInv, Linked, TypeOK
<1>2. CASE SweepRequest
  <2> DEFINE q == handle_arpreq(req[curr])
  <2>1. q.times_sent >= MaxSends /\ sr_arpreq_destroy(curr)
    BY <1>1, <1>2 DEF SweepRequest
  <2>2. r = curr
    BY <1>1, <2>1 DEF sr_arpreq_destroy
  <2>3. \/ /\ req[r].age = OldRequest
           /\ q.times_sent = req[r].times_sent + 1
        \/ q = req[r]
    BY <1>1, <2>2, HandleFacts
  <2>4. /\ req[r].times_sent < MaxSends /\ req[r].times_sent \in Nat
        /\ req[r].times_sent > 0 =>
             \/ waited[r] >= Patience
             \/ waited[r] >= OldRequest * (req[r].times_sent - 1) + req[r].age
    BY <1>1 DEF Spaced, Requests
  <2> HIDE DEF q
  <2>5. req[r].age = OldRequest /\ req[r].times_sent = MaxSends - 1
    BY <2>1, <2>3, <2>4, SizesAssumption
  <2>6. CASE req[r].times_sent = 0
    BY <1>1, <2>5, <2>6, SizesAssumption DEF Patience, OldRequest
  <2>7. CASE req[r].times_sent > 0
    BY <1>1, <2>4, <2>5, <2>7, SizesAssumption DEF Patience, OldRequest
  <2> QED  BY <2>4, <2>6, <2>7
<1>3. CASE Served
  BY <1>1, <1>3 DEF Served, sr_arpreq_destroy, Served_req
<1>4. CASE Queue
  BY <1>1, <1>4 DEF Queue, sr_arpcache_queuereq
<1>5. CASE UNCHANGED alive
  BY <1>1, <1>5
<1> QED
  BY <1>2, <1>3, <1>4, <1>5
     DEF Next, vars, cacheVars, Lookup, Insert, InHandler, SendWaiting, SweepStep,
         SweepBegin, SweepEnd, Tick

\* sr_arpcache_sweepreqs gives a request up only after all its sends, each more
\* than a second after the one before.
THEOREM RequestsGivenUpLate == Spec => GivesUpLate
<1>1. CacheInv /\ Spaced /\ [Next]_vars
        => [\A r \in Range(requests) : r \notin alive' => waited[r] >= Patience]_vars
  BY GivenUpLate
<1>2. Spec => [](CacheInv /\ Spaced)
  BY CacheInit, CacheStep, SpacedInit, SpacedStep, PTL DEF Spec
<1> QED  BY <1>1, <1>2, PTL DEF Spec, GivesUpLate
=============================================================================
