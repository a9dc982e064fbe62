----------------------------- MODULE SrArpCache -----------------------------
(***************************************************************************)
(* The ARP cache of the router (sr_arpcache.c): IP->MAC entries, the queue *)
(* of requests with the packets that wait for them, the thread that sweeps *)
(* both every second, and the thread that handles packets.  The handler    *)
(* sends a packet by looking its next hop up and queueing it on a miss, and*)
(* serves an ARP reply by inserting the mapping, sending what waited and   *)
(* destroying the request, as sr_arpcache.h prescribes.  That handler is   *)
(* external: the committed sr_handlepacket aborts before its calls.        *)
(*                                                                         *)
(* A function that holds cache->lock from its first to its last line is    *)
(* one step; the sweep, which holds it over both its loops, is one step per*)
(* request.  Times are kept as ages, counted up to the age from which the  *)
(* code no longer tells them apart.  A request is "sent" when the code     *)
(* counts it as sent: the sending itself is a TODO (sr_arpcache.c 58).     *)
(***************************************************************************)
EXTENDS Integers, Sequences, FiniteSets, SequencesExt

CONSTANTS
  Packets,
  Hop,             \* the next hop of each packet
  MacsOf,          \* the MAC addresses that each IP address is announced with
  Reqs,            \* memory for sr_arpreq
  NULL,
  Wild,            \* a pointer read from memory that was handed out again
  SR_ARPCACHE_SZ,
  SR_ARPCACHE_TO,
  MaxSends         \* 5 in the code

Ips == DOMAIN MacsOf
Macs == UNION {MacsOf[i] : i \in Ips}

ASSUME HopAssumption == Hop \in [Packets -> Ips]
ASSUME MacsAssumption == \A i \in Ips : MacsOf[i] # {}
ASSUME NULLAssumption == NULL \notin Reqs /\ Wild \notin Reqs /\ Wild # NULL
ASSUME SizesAssumption == /\ SR_ARPCACHE_SZ \in Nat \ {0}
                          /\ SR_ARPCACHE_TO \in Nat
                          /\ MaxSends \in Nat \ {0}
ASSUME FateAssumption == Macs \cap {"new", "queued", "dropped"} = {}

VARIABLES
  entries,     \* cache->entries, added as an age
  requests,    \* cache->requests, the linked requests in list order
  req,         \* contents of each sr_arpreq, sent as an age
  alive,       \* requests allocated and not freed
  lock,        \* cache->lock: "free" or "sweep"
  curr,        \* sweep thread: the request it is at
  slept,       \* sweep thread: sleep(1.0) is over
  handler,     \* packet handler: the call it is in
  fate,        \* each packet: "new", "queued", "dropped" or the MAC it went to
  waited       \* history: seconds since each request was first sent

cacheVars == <<entries, requests, req, alive>>
sweepVars == <<lock, curr, slept>>
vars == <<cacheVars, sweepVars, handler, fate, waited>>

Slots == 1..SR_ARPCACHE_SZ
OldEntry == SR_ARPCACHE_TO + 1    \* difftime(curtime, added) > SR_ARPCACHE_TO
OldRequest == 2                   \* difftime(now, request->sent) > 1.0
Patience == OldRequest * (MaxSends - 1)   \* what MaxSends spaced sends take
NoEntry == [valid |-> FALSE, ip |-> NULL, mac |-> NULL, age |-> 0]
NoRequest == [ip |-> NULL, age |-> 0, times_sent |-> 0, packets |-> <<>>]

\* What the handler is doing: nothing, between lookup and queuereq, or serving
\* a reply.
Idle == [pc |-> "idle"]
Missed(p) == [pc |-> "missed", packet |-> p]
Serving(r, mac, left) == [pc |-> "serving", req |-> r, mac |-> mac, left |-> left]

Init == /\ entries = [i \in Slots |-> NoEntry]
        /\ requests = <<>>
        /\ req = [r \in Reqs |-> NoRequest]
        /\ alive = {}
        /\ lock = "free" /\ curr = NULL /\ slept = FALSE
        /\ handler = Idle
        /\ fate = [p \in Packets |-> "new"]
        /\ waited = [r \in Reqs |-> 0]

-----------------------------------------------------------------------------
(* The cache.                                                              *)

Matching(ip) == {i \in Slots : entries[i].valid /\ entries[i].ip = ip}

\* A hit gives the last entry that matches.
Found(ip) == entries[CHOOSE i \in Matching(ip) : \A j \in Matching(ip) : j <= i]

For(ip) == {r \in Range(requests) : req[r].ip = ip}

\* Where the walk along the list meets r, and the list with r unlinked; a
\* request that is not linked leaves the list as it is.
Position(r) == CHOOSE i \in DOMAIN requests : requests[i] = r
Without(r) == IF r \in Range(requests) THEN RemoveAt(requests, Position(r)) ELSE requests

\* The slot that an insertion fills, the first invalid one.
FreeSlots == {i \in Slots : ~entries[i].valid}
FirstFree == CHOOSE i \in FreeSlots : \A j \in FreeSlots : i <= j

Mapping(ip, mac) == [valid |-> TRUE, ip |-> ip, mac |-> mac, age |-> 0]

InsertEntry(ip, mac) ==
  entries' = IF FreeSlots # {} THEN [entries EXCEPT ![FirstFree] = Mapping(ip, mac)]
             ELSE entries

\* mutant: the request is returned and stays in the queue
TakeRequestLinked(r) == UNCHANGED requests

TakeRequest(r) == requests' = Without(r)

\* The request is freed with its packets; a packet that was never sent is lost.
sr_arpreq_destroy(r) ==
  /\ requests' = Without(r)
  /\ alive' = alive \ {r}
  /\ req' = [req EXCEPT ![r] = NoRequest]
  /\ waited' = [waited EXCEPT ![r] = 0]
  /\ fate' = [p \in Packets |-> IF p \in Range(req[r].packets) /\ fate[p] = "queued"
                                THEN "dropped" ELSE fate[p]]

-----------------------------------------------------------------------------
(* The packet handler.                                                     *)

\* sr_arpcache_lookup for a new packet; on a hit the packet is sent.
Lookup(p) ==
  /\ handler = Idle /\ fate[p] = "new"
  /\ lock = "free"
  /\ \/ /\ Matching(Hop[p]) # {}
        /\ fate' = [fate EXCEPT ![p] = Found(Hop[p]).mac]
        /\ UNCHANGED handler
     \/ /\ Matching(Hop[p]) = {}
        /\ handler' = Missed(p)
        /\ UNCHANGED fate
  /\ UNCHANGED <<cacheVars, sweepVars, waited>>

NewRequest(ip, p) == [ip |-> ip, age |-> OldRequest, times_sent |-> 0, packets |-> <<p>>]

\* mutant: the packet replaces those that wait already
AddPacketAlone(r, p) == req' = [req EXCEPT ![r].packets = <<p>>]

AddPacket(r, p) == req' = [req EXCEPT ![r].packets = <<p>> \o @]

\* A new request has sent = 0, which is long ago.
sr_arpcache_queuereq(ip, p) ==
  \/ /\ \E r \in For(ip) : AddPacket(r, p)
     /\ UNCHANGED <<requests, alive>>
  \/ /\ For(ip) = {}
     /\ \E r \in Reqs \ alive :
          /\ req' = [req EXCEPT ![r] = NewRequest(ip, p)]
          /\ requests' = <<r>> \o requests
          /\ alive' = alive \cup {r}

Queue ==
  /\ handler.pc = "missed"
  /\ lock = "free"
  /\ sr_arpcache_queuereq(Hop[handler.packet], handler.packet)
  /\ fate' = [fate EXCEPT ![handler.packet] = "queued"]
  /\ handler' = Idle
  /\ UNCHANGED <<entries, sweepVars, waited>>

\* An ARP reply: sr_arpcache_insert fills a slot, if there is one, and takes
\* the request for the address, if there is one, out of the queue.
\* mutant: takes the first request, whatever its address
InsertFirst(ip, mac) ==
  /\ handler = Idle
  /\ lock = "free"
  /\ InsertEntry(ip, mac)
  /\ \/ /\ requests # <<>>
        /\ TakeRequest(Head(requests))
        /\ handler' = Serving(Head(requests), mac, req[Head(requests)].packets)
     \/ /\ requests = <<>>
        /\ UNCHANGED <<requests, handler>>
  /\ UNCHANGED <<req, alive, sweepVars, fate, waited>>

Insert(ip, mac) ==
  /\ handler = Idle
  /\ lock = "free"
  /\ InsertEntry(ip, mac)
  /\ \/ \E r \in For(ip) :
          /\ TakeRequest(r)
          /\ handler' = Serving(r, mac, req[r].packets)
     \/ /\ For(ip) = {}
        /\ UNCHANGED <<requests, handler>>
  /\ UNCHANGED <<req, alive, sweepVars, fate, waited>>

\* Sends the next packet of the request, without the lock; the router is still
\* running.
SendWaiting ==
  /\ curr # Wild
  /\ handler.pc = "serving" /\ handler.left # <<>>
  /\ fate' = [fate EXCEPT ![Head(handler.left)] = handler.mac]
  /\ handler' = [handler EXCEPT !.left = Tail(@)]
  /\ UNCHANGED <<cacheVars, sweepVars, waited>>

Served ==
  /\ handler.pc = "serving" /\ handler.left = <<>>
  /\ lock = "free"
  /\ sr_arpreq_destroy(handler.req)
  /\ handler' = Idle
  /\ UNCHANGED <<entries, sweepVars>>

-----------------------------------------------------------------------------
(* The sweep thread.                                                       *)

Expired(i) == entries[i].valid /\ entries[i].age > SR_ARPCACHE_TO

First(list) == IF list = <<>> THEN NULL ELSE Head(list)

\* Wakes up, locks and invalidates the old entries.
SweepBegin ==
  /\ curr = NULL /\ slept /\ lock = "free"
  /\ entries' = [i \in Slots |-> IF Expired(i) THEN NoEntry ELSE entries[i]]
  /\ lock' = "sweep"
  /\ slept' = FALSE
  /\ curr' = First(requests)
  /\ UNCHANGED <<requests, req, alive, handler, fate, waited>>

\* mutant: counts a send without noting when
ResentNotNoted(q) ==
  IF q.age = OldRequest /\ q.times_sent < MaxSends
    THEN [q EXCEPT !.times_sent = @ + 1] ELSE q

\* mutant: notes when, and does not count
ResentNotCounted(q) ==
  IF q.age = OldRequest /\ q.times_sent < MaxSends THEN [q EXCEPT !.age = 0] ELSE q

\* A send is counted and its time noted.  A request that has just been created
\* has sent = 0, which is long ago.
handle_arpreq(q) ==
  IF q.age = OldRequest /\ q.times_sent < MaxSends
    THEN [q EXCEPT !.age = 0, !.times_sent = @ + 1] ELSE q

\* What curr->next says while curr is linked.
Next_of(r) == IF Position(r) = Len(requests) THEN NULL ELSE requests[Position(r) + 1]

\* One turn of sr_arpcache_sweepreqs.  curr->next is read at its end, from a
\* request that may just have been freed: free leaves that field as it was,
\* but by then the chunk may have been handed out to the other thread, and
\* the field is anything.
SweepRequest ==
  /\ lock = "sweep" /\ curr \in Reqs
  /\ LET q == handle_arpreq(req[curr])
     IN \/ /\ q.times_sent >= MaxSends
           /\ sr_arpreq_destroy(curr)
           /\ curr' \in {Next_of(curr), Wild}
        \/ /\ q.times_sent < MaxSends
           /\ req' = [req EXCEPT ![curr] = q]
           /\ curr' = Next_of(curr)
           /\ UNCHANGED <<requests, alive, fate, waited>>
  /\ UNCHANGED <<entries, lock, slept, handler>>

SweepEnd ==
  /\ lock = "sweep" /\ curr = NULL
  /\ lock' = "free"
  /\ UNCHANGED <<cacheVars, curr, slept, handler, fate, waited>>

SweepStep == SweepBegin \/ SweepRequest \/ SweepEnd

-----------------------------------------------------------------------------
Aged(n, cap) == IF n < cap THEN n + 1 ELSE n

\* A second passes.
Tick ==
  /\ entries' = [i \in Slots |-> IF entries[i].valid
                               THEN [entries[i] EXCEPT !.age = Aged(@, OldEntry)]
                               ELSE entries[i]]
  /\ req' = [r \in Reqs |-> IF r \in alive THEN [req[r] EXCEPT !.age = Aged(@, OldRequest)]
                            ELSE req[r]]
  /\ waited' = [r \in Reqs |-> IF req[r].times_sent > 0 THEN Aged(waited[r], Patience)
                               ELSE waited[r]]
  /\ slept' = (slept \/ lock = "free")
  /\ UNCHANGED <<requests, alive, lock, curr, handler, fate>>

InHandler == Queue \/ SendWaiting \/ Served

Next == \/ \E p \in Packets : Lookup(p)
        \/ \E i \in Ips : \E m \in MacsOf[i] : Insert(i, m)
        \/ InHandler
        \/ SweepStep
        \/ Tick

\* The system schedules both threads, and time passes.  No packet need come and
\* no request need be answered.
Fairness == WF_vars(InHandler) /\ WF_vars(SweepStep) /\ WF_vars(Tick)

Spec == Init /\ [][Next]_vars /\ Fairness

-----------------------------------------------------------------------------
(* Properties.                                                             *)

\* The queue links only live requests, each once; the request whose packets the
\* handler sends without the lock is live and out of the sweep's reach; and the
\* sweep handles only requests of the queue.  The exception is the fault of
\* sr_arpcache.c 27, which reads the next pointer of a request that line 25 has
\* freed: memory that was handed out again since may hold anything (Wild).
NoDanglingRequest ==
  /\ Range(requests) \subseteq alive /\ IsInjective(requests)
  /\ curr \notin {NULL, Wild} => curr \in Range(requests)
  /\ handler.pc = "serving" => handler.req \in alive \ Range(requests)

\* The queue has one request per address, and no packet is lost or waits twice:
\* a queued packet is in the list of one request, for its next hop, that the
\* queue links or the handler is serving, and a packet that was dropped or
\* is still new is in no list.
EachPacketOnce ==
  /\ \A r, s \in Range(requests) : req[r].ip = req[s].ip => r = s
  /\ \A r \in alive : /\ IsInjective(req[r].packets)
                     /\ \A p \in Range(req[r].packets) : req[r].ip = Hop[p]
  /\ \A p \in Packets :
       LET in == {r \in alive : p \in Range(req[r].packets)}
       IN /\ fate[p] = "queued" =>
               \E r \in alive : /\ in = {r}
                              /\ \/ r \in Range(requests)
                                 \/ /\ handler.pc = "serving" /\ handler.req = r
                                    /\ p \in Range(handler.left)
          /\ fate[p] \in {"new", "dropped"} => in = {}

\* A packet goes out to a MAC address that its own next hop was announced with,
\* whether it found the mapping in the cache or waited for a reply.
SentToNextHop ==
  \A p \in Packets : fate[p] \in Macs => fate[p] \in MacsOf[Hop[p]]

\* The sweep gives a request up only when all its sends have been counted, each
\* more than a second after the one before.
GivesUpLate ==
  [][\A r \in Range(requests) : r \notin alive' => waited[r] >= Patience]_vars

\* A packet that waits is sent or given up in the end, though no reply need come,
\* unless the sweep has lost its way in freed memory.
QueueSettles ==
  \A p \in Packets : fate[p] = "queued" ~> (fate[p] # "queued" \/ curr = Wild)
=============================================================================
