------------------------ MODULE ConnectionDemuxProofs ------------------------
(***************************************************************************)
(* Proofs about ConnectionDemux for any number of attempts, application    *)
(* threads and slots, and for both transport layers.                       *)
(***************************************************************************)
EXTENDS ConnectionDemux, FiniteSetTheorems,
        SequencesExt, SequenceTheorems, WellFoundedInduction, TLAPS

-----------------------------------------------------------------------------
(* Lists and numbers *)

\* The head of a list and what is left after it.
LEMMA HeadFacts ==
  ASSUME NEW S, NEW s \in Seq(S), s # <<>>
  PROVE  /\ Tail(s) \in Seq(S)
         /\ Head(s) \in Range(s) /\ Head(s) \in S
         /\ Range(s) = Range(Tail(s)) \cup {Head(s)}
<1>1. /\ Len(s) \in Nat \ {0} /\ DOMAIN s = 1..Len(s) /\ Head(s) = s[1]
      /\ Tail(s) \in Seq(S) /\ DOMAIN Tail(s) = 1..Len(s) - 1
      /\ \A i \in 1..Len(s) - 1 : Tail(s)[i] = s[i + 1]
  BY EmptySeq, LenProperties, HeadTailProperties
<1>2. ASSUME NEW x \in Range(s) PROVE x \in Range(Tail(s)) \cup {Head(s)}
  <2>1. PICK k \in 1..Len(s) : s[k] = x
    BY <1>1 DEF Range
  <2>2. CASE k = 1
    BY <2>1, <2>2, <1>1
  <2>3. CASE k # 1
    <3>1. k - 1 \in 1..Len(s) - 1 /\ Tail(s)[k - 1] = x
      BY <2>1, <2>3, <1>1
    <3> QED  BY <3>1, <1>1 DEF Range
  <2> QED  BY <2>2, <2>3
<1>3. ASSUME NEW x \in Range(Tail(s)) PROVE x \in Range(s)
  <2>1. PICK k \in 1..Len(s) - 1 : Tail(s)[k] = x
    BY <1>1 DEF Range
  <2> QED  BY <2>1, <1>1 DEF Range
<1>4. Head(s) \in Range(s) /\ Head(s) \in S
  BY <1>1 DEF Range
<1> QED  BY <1>1, <1>2, <1>3, <1>4

\* What is left of a list without repetitions does not have its head.
LEMMA TailFacts ==
  ASSUME NEW S, NEW s \in Seq(S), s # <<>>, IsInjective(s)
  PROVE  IsInjective(Tail(s)) /\ Range(Tail(s)) = Range(s) \ {Head(s)}
<1>1. /\ Len(s) \in Nat \ {0} /\ DOMAIN s = 1..Len(s) /\ Head(s) = s[1]
      /\ DOMAIN Tail(s) = 1..Len(s) - 1
      /\ \A i \in 1..Len(s) - 1 : Tail(s)[i] = s[i + 1]
  BY EmptySeq, LenProperties, HeadTailProperties
<1>2. ASSUME NEW i \in 1..Len(s) - 1, NEW j \in 1..Len(s) - 1, Tail(s)[i] = Tail(s)[j]
      PROVE  i = j
  <2>1. i + 1 \in DOMAIN s /\ j + 1 \in DOMAIN s /\ s[i + 1] = s[j + 1]
    BY <1>1, <1>2
  <2>2. i + 1 = j + 1
    BY <2>1 DEF IsInjective
  <2> QED  BY <2>2
<1>3. ASSUME NEW i \in 1..Len(s) - 1 PROVE Tail(s)[i] # Head(s)
  <2>1. i + 1 \in DOMAIN s /\ 1 \in DOMAIN s /\ i + 1 # 1
    BY <1>1
  <2> QED  BY <1>1, <2>1 DEF IsInjective
<1>4. Head(s) \notin Range(Tail(s))
  BY <1>1, <1>3 DEF Range
<1> QED  BY <1>1, <1>2, <1>4, HeadFacts DEF IsInjective

\* Putting an element that the list does not have at its end.
LEMMA AppendRange ==
  ASSUME NEW S, NEW s \in Seq(S), NEW e \in S
  PROVE  /\ Append(s, e) \in Seq(S)
         /\ Range(Append(s, e)) = Range(s) \cup {e}
         /\ IsInjective(s) /\ e \notin Range(s) => IsInjective(Append(s, e))
<1> DEFINE t == Append(s, e)
<1>1. /\ t \in Seq(S) /\ Len(s) \in Nat
      /\ DOMAIN t = 1..Len(s) + 1 /\ DOMAIN s = 1..Len(s)
      /\ t[Len(s) + 1] = e
      /\ \A i \in 1..Len(s) : t[i] = s[i]
  BY AppendProperties, LenProperties
<1> HIDE DEF t
<1>2. Range(t) = Range(s) \cup {e}
  <2>1. ASSUME NEW x \in Range(t) PROVE x \in Range(s) \cup {e}
    <3>1. PICK j \in 1..Len(s) + 1 : t[j] = x
      BY <1>1 DEF Range
    <3> QED  BY <3>1, <1>1 DEF Range
  <2>2. ASSUME NEW x \in Range(s) PROVE x \in Range(t)
    BY <1>1 DEF Range
  <2>3. e \in Range(t)
    BY <1>1 DEF Range
  <2> QED  BY <2>1, <2>2, <2>3
<1>3. ASSUME IsInjective(s), e \notin Range(s) PROVE IsInjective(t)
  <2> SUFFICES ASSUME NEW a \in 1..Len(s) + 1, NEW b \in 1..Len(s) + 1, t[a] = t[b]
               PROVE  a = b
    BY <1>1 DEF IsInjective
  <2>1. \A i \in 1..Len(s) : t[i] # e
    BY <1>1, <1>3 DEF Range
  <2>2. CASE a = Len(s) + 1 \/ b = Len(s) + 1
    BY <2>1, <2>2, <1>1
  <2>3. CASE a # Len(s) + 1 /\ b # Len(s) + 1
    BY <2>3, <1>1, <1>3 DEF IsInjective
  <2> QED  BY <2>2, <2>3
<1> QED  BY <1>1, <1>2, <1>3 DEF t

\* Every set of numbers has a least element.
LEMMA LeastNatural ==
  ASSUME NEW T, T \subseteq Nat, T # {}
  PROVE  \E x \in T : \A y \in T : x <= y
<1> DEFINE R == {ss \in Nat \X Nat : ss[1] < ss[2]}
<1>1. IsWellFoundedOn(R, Nat)
  BY NatLessThanWellFounded DEF OpToRel
<1>2. PICK x \in T : \A y \in T : ~(<<y, x>> \in R)
  <2> HIDE DEF R
  <2> QED  BY <1>1, WFMin
<1>3. ASSUME NEW y \in T PROVE x <= y
  <2>1. <<y, x>> \in Nat \X Nat
    OBVIOUS
  <2>2. ~(<<y, x>>[1] < <<y, x>>[2])
    BY <1>2, <2>1
  <2> QED  BY <2>2
<1> QED  BY <1>3

-----------------------------------------------------------------------------
(* The inductive invariant *)

ListenStates == {"poll", "read", "rdlock", "check", "inc", "new", "undo", "syn", "done"}
ConnStates ==
  {"none", "handshake", "synrcvd", "unblock", "find", "signal", "run", "exited"}
AppStates ==
  {"idle", "rdlock", "lock", "check", "dec", "joinlis", "scan", "join", "closed"}

\* What the proofs need of the types: the registers and counters, whose values
\* the two races on cur_len make meaningless, do not matter.
TypeOK ==
  /\ transport \in {"skeleton", "stcp"}
  /\ link \in [Attempts -> {"idle", "open", "hungup", "read0"}]
  /\ tcp_backlog \subseteq Attempts
  /\ lis \in ListenStates /\ cur \in Attempts \cup {None}
  /\ tr \in [Attempts -> ConnStates] /\ stcp_errno \in [Attempts -> {0, 1}]
  /\ recvq \in [Attempts -> Seq({"syn", "err"})]
  /\ acc \in [Acceptors -> AppStates] /\ aslot \in [Acceptors -> Nat]
  /\ connection_queue \in [Slots -> Attempts \cup {None}]
  /\ completed_queue \in Seq(Slots)
  /\ sockets \subseteq Attempts /\ accepted \in Seq(Attempts)
  /\ queueAlive \in BOOLEAN

\* Who holds listen_lock: the listener while it looks for a slot and fills it, a
\* transport thread while it completes its connection, an application thread
\* in the body of myaccept, and for writing the one that closes the socket.
Locked ==
  /\ lis \in {"check", "inc", "new", "undo", "syn"} => "listener" \in readers
  /\ \A c \in Attempts : tr[c] \in {"find", "signal"} => c \in readers
  /\ \A a \in Acceptors : acc[a] \in {"lock", "check", "dec"} => a \in readers
  /\ readers # {} => writer = None
  /\ \A a \in Acceptors : acc[a] \in {"scan", "join"} => writer = a /\ lis = "done"

\* An attempt has no threads before the listener has made a mysocket for it,
\* which it does once.
Fresh ==
  /\ \A c \in Attempts : link[c] = "idle" \/ c \in tcp_backlog => tr[c] = "none" /\ c # cur
  /\ \A c \in tcp_backlog : link[c] # "idle"
  /\ lis \in {"read", "rdlock", "check", "inc", "new", "undo"} => cur # None /\ tr[cur] = "none"
  /\ \A c \in Attempts : tr[c] = "none" => recvq[c] = <<>>

Occupants == {connection_queue[k] : k \in Slots} \ {None}

\* The slots myclose has been through.
Scanned(k) == \E a \in Acceptors : acc[a] \in {"scan", "join"} /\ k < aslot[a]

\* Every connection whose threads have started has one slot until myaccept
\* returns it; its context lives until myclose joins its transport thread.
SlotsUsed ==
  /\ lis \in {"inc", "new", "undo"} => lslot \in Slots /\ connection_queue[lslot] = None
  /\ \A k \in Slots : connection_queue[k] # None =>
       /\ tr[connection_queue[k]] # "none"
       /\ connection_queue[k] \notin Returned
       /\ IF Scanned(k) THEN tr[connection_queue[k]] = "exited"
                        ELSE connection_queue[k] \in sockets
  /\ \A j, k \in Slots :
       connection_queue[j] = connection_queue[k] /\ connection_queue[j] # None => j = k
  /\ \A a \in Acceptors :
       /\ acc[a] \in {"scan", "join"} => aslot[a] # 0
       /\ acc[a] = "join" => aslot[a] \in Slots /\ connection_queue[aslot[a]] # None
  /\ queueAlive => \A c \in Attempts : tr[c] # "none" => c \in Occupants \cup Returned
  /\ ~queueAlive =>
       /\ lis = "done" /\ completed_queue = <<>>
       /\ \A c \in Attempts : tr[c] \in {"none", "signal", "run", "exited"}

\* completed_queue lists the slots of the completed connections, each once.
Queued ==
  /\ IsInjective(completed_queue)
  /\ \A k \in Range(completed_queue) :
       connection_queue[k] # None /\ Completed(connection_queue[k])
  /\ \A k \in Slots :
       connection_queue[k] # None /\ Completed(connection_queue[k]) => k \in Range(completed_queue)

\* The SYN has not been passed on: an STCP cannot have answered it, so the
\* connection has not been established and the application cannot close it.
SynPending ==
  /\ lis = "syn" =>
       /\ cur \in sockets /\ tr[cur] # "none"
       /\ transport = "stcp" => /\ "syn" \notin Range(recvq[cur])
                                /\ tr[cur] # "synrcvd"
                                /\ tr[cur] = "handshake" \/ stcp_errno[cur] = 1
  /\ transport = "skeleton" => \A c \in Attempts : stcp_errno[c] = 0 /\ tr[c] # "exited"

\* myaccept returns completed connections, each of them once.
ReturnedOnce ==
  /\ \A c \in Returned : Completed(c)
  /\ IsFiniteSet(Returned) /\ Cardinality(Returned) = Len(accepted)

NoBadPointer == failure \notin {"new_ctx", "connection_req", "listen_sd"}

DemuxInv == /\ TypeOK /\ Locked /\ Fresh /\ SlotsUsed /\ Queued /\ SynPending
            /\ ReturnedOnce /\ NoBadPointer

-----------------------------------------------------------------------------
(* Frames *)

QueueSame == UNCHANGED <<connection_queue, completed_queue, queueAlive, accepted, sockets>>

\* A thread that neither starts, completes nor leaves "exited".
SameStage(c) == /\ (tr[c] = "none") = (tr'[c] = "none")
                /\ Completed(c)' = Completed(c)
                /\ tr[c] = "exited" => tr'[c] = "exited"

\* A step of myclose's scan is not among the application's steps.
SameScan(a) == /\ (acc'[a] \in {"scan", "join"}) = (acc[a] \in {"scan", "join"})
               /\ acc'[a] = "join" => acc[a] = "join"
               /\ aslot'[a] = aslot[a]

\* Most steps leave the slots and the queue as they are.
LEMMA QueueFrame ==
  ASSUME TypeOK, SlotsUsed, Queued, ReturnedOnce, QueueSame,
         \A c \in Attempts : SameStage(c), \A a \in Acceptors : SameScan(a),
         lis' \in {"inc", "new", "undo"} => lslot' \in Slots /\ connection_queue[lslot'] = None,
         ~queueAlive => lis' = "done", tr' \in [Attempts -> ConnStates]
  PROVE  SlotsUsed' /\ Queued' /\ ReturnedOnce'
<1>1. /\ connection_queue' = connection_queue /\ completed_queue' = completed_queue
      /\ queueAlive' = queueAlive /\ Returned' = Returned /\ accepted' = accepted
      /\ sockets' = sockets /\ Occupants' = Occupants
  BY DEF QueueSame, Returned, Occupants
<1>2. \A k \in Slots : Scanned(k)' = Scanned(k)
  BY DEF SameScan, Scanned
<1>3. \A k \in Slots : connection_queue[k] # None => connection_queue[k] \in Attempts
  BY DEF TypeOK
<1>4. /\ Returned \subseteq Attempts /\ Range(completed_queue) \subseteq Slots
  BY DEF TypeOK, Returned, Range
<1>5. Queued'
  BY <1>1, <1>3, <1>4 DEF Queued, SameStage
<1>6. ReturnedOnce'
  BY <1>1, <1>4 DEF ReturnedOnce, SameStage
<1>7. SlotsUsed'
  <2>1. lis' \in {"inc", "new", "undo"} => lslot' \in Slots /\ connection_queue'[lslot'] = None
    BY <1>1
  <2>2. ASSUME NEW k \in Slots, connection_queue'[k] # None
        PROVE  /\ tr'[connection_queue'[k]] # "none"
               /\ connection_queue'[k] \notin Returned'
               /\ IF Scanned(k)' THEN tr'[connection_queue'[k]] = "exited"
                                 ELSE connection_queue'[k] \in sockets'
    BY <1>1, <1>2, <1>3, <2>2 DEF SlotsUsed, SameStage
  <2>3. \A j, k \in Slots :
          connection_queue'[j] = connection_queue'[k] /\ connection_queue'[j] # None => j = k
    BY <1>1 DEF SlotsUsed
  <2>4. \A a \in Acceptors :
          /\ acc'[a] \in {"scan", "join"} => aslot'[a] # 0
          /\ acc'[a] = "join" => aslot'[a] \in Slots /\ connection_queue'[aslot'[a]] # None
    BY <1>1 DEF SlotsUsed, SameScan
  <2>5. queueAlive' => \A c \in Attempts : tr'[c] # "none" => c \in Occupants' \cup Returned'
    BY <1>1 DEF SlotsUsed, SameStage
  <2>6. ~queueAlive' =>
          /\ lis' = "done" /\ completed_queue' = <<>>
          /\ \A c \in Attempts : tr'[c] \in {"none", "signal", "run", "exited"}
    <3>1. ASSUME ~queueAlive, NEW c \in Attempts
          PROVE  tr'[c] \in {"none", "signal", "run", "exited"}
      <4>1. tr[c] = "none" \/ Completed(c)
        BY <3>1 DEF SlotsUsed, Completed
      <4> QED  BY <4>1 DEF SameStage, Completed
    <3> QED  BY <1>1, <3>1 DEF SlotsUsed
  <2> QED  BY <2>1, <2>2, <2>3, <2>4, <2>5, <2>6 DEF SlotsUsed
<1> QED  BY <1>5, <1>6, <1>7

LEMMA NamesDiffer ==
  /\ \A c \in Attempts, a \in Acceptors : c # a
  /\ "listener" \notin Attempts /\ "listener" \notin Acceptors
  /\ None \notin Attempts /\ None \notin Acceptors
  /\ Cardinality(Slots) \in Nat /\ Slots = 1..Cardinality(Slots) /\ Slots \subseteq Nat
<1>1. Cardinality(Slots) \in Nat
  BY DemuxAssumption, FS_CardinalityType
<1>2. Slots = 1..Cardinality(Slots)
  BY DemuxAssumption
<1>3. Slots \subseteq Nat
  BY <1>1, <1>2
<1> QED  BY <1>1, <1>2, <1>3, DemuxAssumption

\* The first of some slots is one of them.
LEMMA FirstOfSlots ==
  ASSUME NEW S \in SUBSET Slots, S # {}
  PROVE  FirstOf(S) \in S
<1>1. \E k \in S : \A j \in S : k <= j
  BY NamesDiffer, LeastNatural
<1> QED  BY <1>1 DEF FirstOf

-----------------------------------------------------------------------------
(* Initially *)

LEMMA DemuxInit == Init => DemuxInv
<1> SUFFICES ASSUME Init PROVE DemuxInv
  OBVIOUS
<1>1. TypeOK
  BY DemuxAssumption, EmptySeq DEF Init, TypeOK, ListenStates, ConnStates, AppStates
<1>2. Locked
  BY DEF Init, Locked
<1>3. Fresh
  BY NamesDiffer DEF Init, Fresh
<1>4. Returned = {} /\ Range(completed_queue) = {}
  BY DEF Init, Returned, Range
<1>5. SlotsUsed
  BY <1>4 DEF Init, SlotsUsed
<1>6. Queued
  BY <1>4 DEF Init, Queued, IsInjective
<1>7. SynPending
  BY DEF Init, SynPending
<1>8. ReturnedOnce
  BY <1>4, FS_EmptySet DEF Init, ReturnedOnce
<1>9. NoBadPointer
  BY DEF Init, NoBadPointer
<1> QED  BY <1>1, <1>2, <1>3, <1>5, <1>6, <1>7, <1>8, <1>9 DEF DemuxInv

-----------------------------------------------------------------------------
(* Peers *)

LEMMA PeersPreserve ==
  ASSUME DemuxInv, Peers
  PROVE  DemuxInv'
<1> USE DEF DemuxInv
<1>1. PICK c \in Attempts :
        \/ link[c] = "idle" /\ link' = [link EXCEPT ![c] = "open"] /\ tcp_backlog' = tcp_backlog \cup {c}
        \/ link[c] # "idle" /\ UNCHANGED tcp_backlog
           /\ (link' = link \/ link' = [link EXCEPT ![c] = "hungup"])
  BY DEF Peers, PeerConnect, PeerFirst, PeerHangup
<1>2. /\ UNCHANGED <<transport, lis, cur, lslot, tr, stcp_errno, recvq, acc, aslot, readers>>
      /\ UNCHANGED <<writer, connection_queue, completed_queue, queueAlive, sockets, accepted>>
      /\ UNCHANGED failure
  BY DEF Peers, PeerConnect, PeerFirst, PeerHangup, lisVars, trVars, accVars, lockVars,
         queueVars, sockVars, NoFailure
<1>3. TypeOK'
  BY <1>1, <1>2 DEF TypeOK
<1>4. Locked' /\ SynPending' /\ NoBadPointer'
  BY <1>2 DEF Locked, SynPending, NoBadPointer
<1>5. Fresh'
  BY <1>1, <1>2 DEF Fresh, TypeOK
<1>6. SlotsUsed' /\ Queued' /\ ReturnedOnce'
  <2>1. QueueSame /\ (\A d \in Attempts : SameStage(d)) /\ \A a \in Acceptors : SameScan(a)
    BY <1>2 DEF QueueSame, SameStage, SameScan, Completed
  <2> QED  BY <1>2, <2>1, QueueFrame DEF TypeOK, SlotsUsed
<1> QED  BY <1>3, <1>4, <1>5, <1>6

-----------------------------------------------------------------------------
(* The listening thread *)

\* A step of the listener that leaves the connections and the queue alone.
ListenSame ==
  /\ UNCHANGED <<transport, link, tr, stcp_errno, recvq, acc, aslot, writer>>
  /\ UNCHANGED <<connection_queue, completed_queue, queueAlive, sockets, accepted>>

\* What such a step has to show: where the listener goes.
LEMMA ListenFrame ==
  ASSUME DemuxInv, ListenSame, lis # "done", lis' \in ListenStates, lis' # "syn",
         cur' \in Attempts \cup {None}, tcp_backlog' \subseteq tcp_backlog, NoBadPointer',
         readers' \cup {"listener"} = readers \cup {"listener"},
         lis' \in {"check", "inc", "new", "undo"} => "listener" \in readers',
         readers' # {} => writer = None,
         \A c \in Attempts : link[c] = "idle" \/ c \in tcp_backlog' => c # cur',
         lis' \in {"read", "rdlock", "check", "inc", "new", "undo"} =>
           cur' # None /\ tr[cur'] = "none",
         lis' \in {"inc", "new", "undo"} => lslot' \in Slots /\ connection_queue[lslot'] = None
  PROVE  DemuxInv'
<1> USE DEF DemuxInv, ListenSame
<1>1. TypeOK'
  BY DEF TypeOK
<1>2. Locked'
  <2>1. \A c \in Attempts : c \in readers => c \in readers'
    BY NamesDiffer
  <2>2. \A a \in Acceptors : a \in readers => a \in readers'
    BY NamesDiffer
  <2> QED  BY <2>1, <2>2 DEF Locked
<1>3. Fresh'
  BY DEF Fresh
<1>4. SynPending'
  BY DEF SynPending
<1>5. SlotsUsed' /\ Queued' /\ ReturnedOnce'
  <2>1. QueueSame /\ (\A d \in Attempts : SameStage(d)) /\ \A a \in Acceptors : SameScan(a)
    BY DEF QueueSame, SameStage, SameScan, Completed
  <2> QED  BY <2>1, QueueFrame DEF TypeOK, SlotsUsed
<1> QED  BY <1>1, <1>2, <1>3, <1>4, <1>5

LEMMA ListenPollPreserves ==
  ASSUME DemuxInv, ListenPoll
  PROVE  DemuxInv'
<1>1. ListenSame /\ UNCHANGED readers /\ lis = "poll"
  BY DEF ListenPoll, ListenSame, trVars, accVars, lockVars, queueVars, NoFailure
<1>2. CASE lis' = "done" /\ UNCHANGED <<cur, tcp_backlog, failure>>
  BY <1>1, <1>2, ListenFrame DEF DemuxInv, TypeOK, Locked, Fresh, NoBadPointer, ListenStates
<1>3. ASSUME NEW c \in tcp_backlog, tcp_backlog' = tcp_backlog \ {c}, cur' = c, lis' = "read",
             UNCHANGED failure
      PROVE  DemuxInv'
  <2>1. c \in Attempts /\ tr[c] = "none" /\ link[c] # "idle" /\ c # None
    BY NamesDiffer DEF DemuxInv, TypeOK, Fresh
  <2> QED  BY <1>1, <1>3, <2>1, ListenFrame DEF DemuxInv, TypeOK, Locked, NoBadPointer, ListenStates
<1>4. ASSUME NEW c \in tcp_backlog, tcp_backlog' = tcp_backlog \ {c}, failure' = "new_socket",
             UNCHANGED <<cur, lis>>
      PROVE  DemuxInv'
  BY <1>1, <1>4, ListenFrame DEF DemuxInv, TypeOK, Locked, Fresh, NoBadPointer, ListenStates
<1> QED  BY <1>2, <1>3, <1>4 DEF ListenPoll, NoFailure

LEMMA ListenReadPreserves ==
  ASSUME DemuxInv, ListenRead
  PROVE  DemuxInv'
<1>1. /\ ListenSame /\ UNCHANGED <<readers, cur, tcp_backlog, failure>>
      /\ lis = "read" /\ lis' \in {"rdlock", "done"}
  BY DEF ListenRead, ListenSame, peerVars, trVars, accVars, lockVars, queueVars, sockVars, NoFailure
<1> QED  BY <1>1, ListenFrame DEF DemuxInv, TypeOK, Locked, Fresh, NoBadPointer, ListenStates

LEMMA ListenLockPreserves ==
  ASSUME DemuxInv, ListenLock
  PROVE  DemuxInv'
<1>1. /\ ListenSame /\ UNCHANGED <<cur, tcp_backlog, failure>>
      /\ lis = "rdlock" /\ lis' = "check" /\ writer = None /\ readers' = readers \cup {"listener"}
  BY DEF ListenLock, RdLock, ListenSame, peerVars, trVars, accVars, queueVars, sockVars, NoFailure
<1> QED  BY <1>1, ListenFrame DEF DemuxInv, TypeOK, Fresh, NoBadPointer, ListenStates

LEMMA ListenDropPreserves ==
  ASSUME DemuxInv, ListenDrop \/ ListenUndo
  PROVE  DemuxInv'
<1>1. /\ ListenSame /\ UNCHANGED <<cur, tcp_backlog, failure>>
      /\ lis \in {"check", "undo"} /\ lis' = "poll" /\ readers' = readers \ {"listener"}
  BY DEF ListenDrop, ListenUndo, RdUnlock, ListenSame, peerVars, trVars, accVars, queueVars,
         sockVars, NoFailure
<1> QED  BY <1>1, ListenFrame DEF DemuxInv, TypeOK, Locked, Fresh, NoBadPointer, ListenStates

\* A step that stops the process on an assertion other than those on pointers.
LEMMA FailPreserves ==
  ASSUME DemuxInv, NEW what, Fail(what), what \notin {"new_ctx", "connection_req", "listen_sd"}
  PROVE  DemuxInv'
<1>1. /\ UNCHANGED <<transport, link, tcp_backlog, lis, cur, lslot, tr, stcp_errno, recvq, acc, aslot>>
      /\ UNCHANGED <<readers, writer, connection_queue, completed_queue, queueAlive, sockets, accepted>>
      /\ failure' = what
  BY DEF Fail, peerVars, lisVars, trVars, accVars, lockVars, queueVars, sockVars
<1>2. TypeOK' /\ Locked' /\ Fresh' /\ SynPending' /\ NoBadPointer'
  BY <1>1 DEF DemuxInv, TypeOK, Locked, Fresh, SynPending, NoBadPointer
<1>3. SlotsUsed' /\ Queued' /\ ReturnedOnce'
  <2>1. QueueSame /\ (\A d \in Attempts : SameStage(d)) /\ \A a \in Acceptors : SameScan(a)
    BY <1>1 DEF QueueSame, SameStage, SameScan, Completed
  <2> QED  BY <1>1, <2>1, QueueFrame DEF DemuxInv, TypeOK, SlotsUsed
<1> QED  BY <1>2, <1>3 DEF DemuxInv

LEMMA ListenSlotPreserves ==
  ASSUME DemuxInv, ListenSlot
  PROVE  DemuxInv'
<1>1. CASE Fail("queue_entry")
  BY <1>1, FailPreserves
<1>2. CASE /\ FreeSlots # {} /\ lslot' = FirstOf(FreeSlots) /\ lis' = "inc"
           /\ UNCHANGED <<peerVars, cur, trVars, accVars, lockVars, queueVars, sockVars>>
           /\ NoFailure
  <2>1. /\ ListenSame /\ UNCHANGED <<readers, cur, tcp_backlog, failure>> /\ lis = "check"
    BY <1>2 DEF ListenSlot, ListenSame, peerVars, trVars, accVars, lockVars, queueVars, sockVars,
                NoFailure
  <2>2. lslot' \in FreeSlots
    BY <1>2, FirstOfSlots DEF FreeSlots
  <2>3. lslot' \in Slots /\ connection_queue[lslot'] = None
    BY <2>2 DEF FreeSlots
  <2> QED  BY <1>2, <2>1, <2>3, ListenFrame
              DEF DemuxInv, TypeOK, Locked, Fresh, NoBadPointer, ListenStates
<1> QED  BY <1>1, <1>2 DEF ListenSlot

LEMMA ListenIncrementPreserves ==
  ASSUME DemuxInv, ListenIncrement
  PROVE  DemuxInv'
<1>1. /\ ListenSame /\ UNCHANGED <<readers, cur, lslot, tcp_backlog, failure>>
      /\ lis = "inc" /\ lis' = "new"
  BY DEF ListenIncrement, ListenSame, peerVars, trVars, accVars, lockVars, sockVars, NoFailure
<1> QED  BY <1>1, ListenFrame
            DEF DemuxInv, TypeOK, Locked, Fresh, SlotsUsed, NoBadPointer, ListenStates

\* The attempt the listener has in hand gets its mysocket and its slot.
LEMMA ListenNewPreserves ==
  ASSUME DemuxInv, ListenNew
  PROVE  DemuxInv'
<1> USE DEF DemuxInv
<1>1. CASE /\ lis' = "undo"
           /\ UNCHANGED <<connection_queue, sockets, new_socket, tr>>
  <2>1. /\ ListenSame /\ UNCHANGED <<readers, cur, lslot, tcp_backlog, failure>> /\ lis = "new"
    BY <1>1 DEF ListenNew, ListenSame, peerVars, accVars, lockVars, NoFailure
  <2> QED  BY <1>1, <2>1, ListenFrame
              DEF TypeOK, Locked, Fresh, SlotsUsed, NoBadPointer, ListenStates
<1>2. CASE /\ connection_queue' = [connection_queue EXCEPT ![lslot] = cur]
           /\ sockets' = sockets \cup {cur} /\ tr' = [tr EXCEPT ![cur] = "handshake"]
           /\ lis' = "syn"
  <2>1. /\ UNCHANGED <<transport, link, tcp_backlog, cur, lslot, stcp_errno, recvq, acc, aslot>>
        /\ UNCHANGED <<readers, writer, completed_queue, queueAlive, accepted, failure>>
        /\ lis = "new"
    BY DEF ListenNew, peerVars, accVars, lockVars, NoFailure
  <2>2. cur \in Attempts /\ tr[cur] = "none" /\ lslot \in Slots /\ connection_queue[lslot] = None
    BY <2>1, NamesDiffer DEF Fresh, TypeOK, SlotsUsed
  <2>3. TypeOK'
    BY <1>2, <2>1, <2>2 DEF TypeOK, ListenStates, ConnStates
  <2>4. Locked' /\ NoBadPointer'
    BY <1>2, <2>1, <2>2 DEF Locked, TypeOK, NoBadPointer
  <2>5. Fresh'
    BY <1>2, <2>1, <2>2 DEF Fresh, TypeOK
  <2>6. SynPending'
    <3>1. recvq[cur] = <<>> /\ Range(<<>>) = {}
      BY <2>2 DEF Fresh, Range
    <3> QED  BY <1>2, <2>1, <2>2, <3>1 DEF SynPending, TypeOK
  <2>7. /\ cur \notin Returned /\ (\A k \in Slots : connection_queue[k] # cur)
        /\ lslot \notin Range(completed_queue) /\ cur # None
        /\ \A k \in Slots : ~Scanned(k)
    BY <2>1, <2>2, NamesDiffer DEF ReturnedOnce, Completed, SlotsUsed, Queued, Scanned, Locked
  <2>8. \A k \in Slots : connection_queue[k] # None => connection_queue[k] \in Attempts
    BY DEF TypeOK
  <2>9. Returned' = Returned /\ Range(completed_queue)' = Range(completed_queue)
        /\ Returned \subseteq Attempts /\ Range(completed_queue) \subseteq Slots
    BY <2>1 DEF Returned, Range, TypeOK
  <2>10. /\ tr'[cur] = "handshake" /\ connection_queue'[lslot] = cur
         /\ \A c \in Attempts \ {cur} : tr'[c] = tr[c]
         /\ \A k \in Slots \ {lslot} : connection_queue'[k] = connection_queue[k]
    BY <1>2, <2>2 DEF TypeOK
  <2>11. ReturnedOnce'
    BY <2>1, <2>7, <2>9, <2>10 DEF ReturnedOnce, Completed
  <2>12. Queued'
    BY <2>1, <2>7, <2>8, <2>9, <2>10 DEF Queued, Completed
  <2>13. SlotsUsed'
    <3>1. \A k \in Slots : ~Scanned(k)'
      BY <2>1, <2>7 DEF Scanned
    <3>2. ASSUME NEW k \in Slots, connection_queue'[k] # None
          PROVE  /\ tr'[connection_queue'[k]] # "none" /\ connection_queue'[k] \notin Returned'
                 /\ connection_queue'[k] \in sockets'
      BY <1>2, <2>2, <2>7, <2>8, <2>9, <2>10, <3>2 DEF SlotsUsed
    <3>3. \A j, k \in Slots :
            connection_queue'[j] = connection_queue'[k] /\ connection_queue'[j] # None => j = k
      BY <2>2, <2>7, <2>10 DEF SlotsUsed
    <3>4. \A a \in Acceptors : acc'[a] \notin {"scan", "join"}
      BY <2>1 DEF Locked
    <3>5. ASSUME queueAlive', NEW c \in Attempts, tr'[c] # "none"
          PROVE  c \in Occupants' \cup Returned'
      <4>1. CASE c = cur
        BY <2>2, <2>7, <2>10, <4>1 DEF Occupants
      <4>2. CASE c # cur /\ c \notin Returned
        <5>1. PICK k \in Slots : connection_queue[k] = c
          BY <2>1, <2>10, <3>5, <4>2 DEF SlotsUsed, Occupants
        <5>2. connection_queue'[k] = c /\ c # None
          BY <2>2, <2>10, <5>1, NamesDiffer
        <5> QED  BY <5>2 DEF Occupants
      <4> QED  BY <2>9, <4>1, <4>2
    <3>6. queueAlive'
      BY <2>1 DEF SlotsUsed
    <3> QED  BY <1>2, <3>1, <3>2, <3>3, <3>4, <3>5, <3>6 DEF SlotsUsed
  <2> QED  BY <2>3, <2>4, <2>5, <2>6, <2>11, <2>12, <2>13
<1> QED  BY <1>1, <1>2 DEF ListenNew

\* The SYN goes to a connection that is there.
LEMMA ListenSynPreserves ==
  ASSUME DemuxInv, ListenSyn
  PROVE  DemuxInv'
<1> USE DEF DemuxInv
<1>1. /\ UNCHANGED <<transport, link, tcp_backlog, cur, lslot, tr, stcp_errno, acc, aslot, writer>>
      /\ UNCHANGED <<connection_queue, completed_queue, queueAlive, sockets, accepted, failure>>
      /\ lis = "syn" /\ lis' = "poll" /\ readers' = readers \ {"listener"}
      /\ recvq' = [recvq EXCEPT ![cur] = Append(@, "syn")]
  BY DEF ListenSyn, RdUnlock, peerVars, accVars, queueVars, sockVars, NoFailure
<1>2. cur \in sockets /\ cur \in Attempts
  BY <1>1 DEF SynPending, TypeOK
<1>3. TypeOK'
  <2>1. Append(recvq[cur], "syn") \in Seq({"syn", "err"})
    BY <1>2, AppendProperties DEF TypeOK
  <2> QED  BY <1>1, <1>2, <2>1 DEF TypeOK, ListenStates
<1>4. Locked' /\ NoBadPointer'
  BY <1>1, NamesDiffer DEF Locked, NoBadPointer
<1>5. tr[cur] # "none"
  BY <1>1 DEF SynPending
<1>6. Fresh' /\ SynPending'
  BY <1>1, <1>2, <1>5 DEF Fresh, SynPending, TypeOK
<1>7. SlotsUsed' /\ Queued' /\ ReturnedOnce'
  <2>1. QueueSame /\ (\A d \in Attempts : SameStage(d)) /\ \A a \in Acceptors : SameScan(a)
    BY <1>1 DEF QueueSame, SameStage, SameScan, Completed
  <2> QED  BY <1>1, <2>1, QueueFrame DEF TypeOK, SlotsUsed
<1> QED  BY <1>3, <1>4, <1>6, <1>7

-----------------------------------------------------------------------------
(* The threads of a connection *)

\* A step of the transport thread of connection c that leaves the queue alone.
ConnSame ==
  /\ UNCHANGED <<transport, tcp_backlog, lis, cur, lslot, acc, aslot, writer, failure>>
  /\ UNCHANGED <<connection_queue, completed_queue, queueAlive, sockets, accepted>>

\* Its own receive thread does not run its handshake.
LEMMA RecvErrorPreserves ==
  ASSUME DemuxInv, NEW c \in Attempts, RecvError(c)
  PROVE  DemuxInv'
<1> USE DEF DemuxInv
<1>1. /\ ConnSame /\ UNCHANGED <<tr, stcp_errno, readers>> /\ tr[c] # "none"
      /\ link' = [link EXCEPT ![c] = "read0"] /\ link[c] = "hungup"
      /\ recvq' = [recvq EXCEPT ![c] = Append(@, "err")]
  BY DEF RecvError, ConnSame, lisVars, accVars, lockVars, queueVars, sockVars, NoFailure
<1>2. recvq[c] \in Seq({"syn", "err"})
  BY DEF TypeOK
<1>3. /\ Append(recvq[c], "err") \in Seq({"syn", "err"})
      /\ Range(Append(recvq[c], "err")) = Range(recvq[c]) \cup {"err"}
  BY <1>2, AppendRange
<1>4. TypeOK'
  BY <1>1, <1>3 DEF TypeOK, ConnSame
<1>5. Locked' /\ NoBadPointer'
  BY <1>1 DEF Locked, NoBadPointer, ConnSame
<1>6. Fresh'
  BY <1>1 DEF Fresh, TypeOK, ConnSame
<1>7. SynPending'
  <2>1. \A d \in Attempts : "syn" \notin Range(recvq[d]) => "syn" \notin Range(recvq'[d])
    BY <1>1, <1>3 DEF TypeOK
  <2>2. cur \in sockets => cur \in Attempts
    BY DEF TypeOK
  <2> QED  BY <1>1, <2>1, <2>2 DEF SynPending, ConnSame
<1>8. SlotsUsed' /\ Queued' /\ ReturnedOnce'
  <2>1. QueueSame /\ (\A d \in Attempts : SameStage(d)) /\ \A a \in Acceptors : SameScan(a)
    BY <1>1 DEF QueueSame, SameStage, SameScan, Completed, ConnSame
  <2> QED  BY <1>1, <2>1, QueueFrame DEF TypeOK, SlotsUsed, ConnSame
<1> QED  BY <1>4, <1>5, <1>6, <1>7, <1>8

\* The thread of c goes on without completing the connection.
LEMMA ConnFrame ==
  ASSUME DemuxInv, NEW c \in Attempts, ConnSame, UNCHANGED link,
         NEW where \in ConnStates \ {"none"}, tr' = [tr EXCEPT ![c] = where],
         tr[c] # "none", (tr[c] \in {"signal", "run", "exited"}) = (where \in {"signal", "run", "exited"}),
         tr[c] # "exited",
         where \in {"find", "signal"} => c \in readers',
         readers' \cup {c} = readers \cup {c}, readers' # {} => writer = None,
         stcp_errno' \in [Attempts -> {0, 1}], recvq' \in [Attempts -> Seq({"syn", "err"})],
         \A d \in Attempts \ {c} : recvq'[d] = recvq[d],
         SynPending'
  PROVE  DemuxInv'
<1> USE DEF DemuxInv, ConnSame
<1>1. TypeOK'
  BY DEF TypeOK
<1>2. Locked'
  <2>1. \A d \in Attempts \ {c} : d \in readers => d \in readers'
    OBVIOUS
  <2>2. /\ \A a \in Acceptors : a \in readers => a \in readers'
        /\ "listener" \in readers => "listener" \in readers'
    BY NamesDiffer
  <2> QED  BY <2>1, <2>2 DEF Locked, TypeOK
<1>3. Fresh'
  BY DEF Fresh, TypeOK
<1>4. NoBadPointer'
  BY DEF NoBadPointer
<1>5. SlotsUsed' /\ Queued' /\ ReturnedOnce'
  <2>1. QueueSame /\ (\A d \in Attempts : SameStage(d)) /\ \A a \in Acceptors : SameScan(a)
    BY DEF QueueSame, SameStage, SameScan, Completed, TypeOK
  <2> QED  BY <1>1, <2>1, QueueFrame DEF TypeOK, SlotsUsed
<1> QED  BY <1>1, <1>2, <1>3, <1>4, <1>5

\* An STCP's handshake: only a SYN that has been passed on makes it go through.
LEMMA HandshakePreserves ==
  ASSUME DemuxInv, NEW c \in Attempts, Handshake(c)
  PROVE  DemuxInv'
<1> USE DEF DemuxInv
<1>1. ConnSame /\ UNCHANGED <<link, readers>> /\ transport = "stcp"
  BY DEF Handshake, ConnSame, peerVars, lisVars, accVars, lockVars, queueVars, sockVars, NoFailure
<1>2. readers # {} => writer = None
  BY DEF Locked
<1>3. cur \in sockets => cur \in Attempts
  BY DEF TypeOK
<1>4. ASSUME tr[c] = "handshake", recvq[c] # <<>>, recvq' = [recvq EXCEPT ![c] = Tail(@)],
             \/ /\ Head(recvq[c]) = "syn"
                /\ tr' = [tr EXCEPT ![c] = "synrcvd"] /\ UNCHANGED stcp_errno
             \/ /\ Head(recvq[c]) # "syn" /\ tr' = [tr EXCEPT ![c] = "unblock"]
                /\ stcp_errno' = [stcp_errno EXCEPT ![c] = 1]
      PROVE  DemuxInv'
  <2>1. /\ Tail(recvq[c]) \in Seq({"syn", "err"}) /\ Head(recvq[c]) \in Range(recvq[c])
        /\ Range(recvq[c]) = Range(Tail(recvq[c])) \cup {Head(recvq[c])}
    BY <1>4, HeadFacts DEF TypeOK
  <2>2. /\ recvq' \in [Attempts -> Seq({"syn", "err"})] /\ recvq'[c] = Tail(recvq[c])
        /\ \A d \in Attempts \ {c} : recvq'[d] = recvq[d]
        /\ stcp_errno' \in [Attempts -> {0, 1}]
    BY <1>4, <2>1 DEF TypeOK
  <2>3. SynPending'
    BY <1>1, <1>3, <1>4, <2>1, <2>2 DEF SynPending, ConnSame, TypeOK
  <2>4. PICK where \in {"synrcvd", "unblock"} : tr' = [tr EXCEPT ![c] = where]
    BY <1>4
  <2>5. /\ tr[c] # "none" /\ tr[c] # "exited" /\ where \in ConnStates \ {"none"}
        /\ (tr[c] \in {"signal", "run", "exited"}) = (where \in {"signal", "run", "exited"})
        /\ where \notin {"find", "signal"} /\ readers' \cup {c} = readers \cup {c}
    BY <1>1, <1>4 DEF ConnStates
  <2> QED  BY <1>1, <1>2, <2>2, <2>3, <2>4, <2>5, ConnFrame
<1>5. ASSUME tr[c] \in {"handshake", "synrcvd"}, tr' = [tr EXCEPT ![c] = "unblock"], UNCHANGED recvq,
             NEW e \in {0, 1}, stcp_errno' = [stcp_errno EXCEPT ![c] = e],
             tr[c] = "handshake" => e = 1
      PROVE  DemuxInv'
  <2>1. stcp_errno' \in [Attempts -> {0, 1}] /\ recvq' \in [Attempts -> Seq({"syn", "err"})]
    BY <1>5 DEF TypeOK
  <2>2. SynPending'
    BY <1>1, <1>3, <1>5 DEF SynPending, ConnSame, TypeOK
  <2>3. /\ tr[c] # "none" /\ tr[c] # "exited" /\ "unblock" \in ConnStates \ {"none"}
        /\ (tr[c] \in {"signal", "run", "exited"}) = ("unblock" \in {"signal", "run", "exited"})
        /\ "unblock" \notin {"find", "signal"} /\ readers' \cup {c} = readers \cup {c}
    BY <1>1, <1>5 DEF ConnStates
  <2> QED  BY <1>1, <1>2, <1>5, <2>1, <2>2, <2>3, ConnFrame
<1> QED  BY <1>4, <1>5 DEF Handshake

\* Steps of the transport thread that leave the error and the packets alone.
LEMMA ConnMovesPreserve ==
  ASSUME DemuxInv, NEW c \in Attempts,
         SkeletonUnblock(c) \/ CompleteLock(c) \/ CompleteSignal(c) \/ Finish(c)
  PROVE  DemuxInv'
<1> USE DEF DemuxInv
<1>1. ConnSame /\ UNCHANGED <<link, recvq, stcp_errno>>
  BY DEF SkeletonUnblock, CompleteLock, CompleteSignal, Finish, RdLock, ConnSame, peerVars, lisVars,
         accVars, lockVars, queueVars, sockVars, NoFailure
<1>2. cur \in sockets => cur \in Attempts
  BY DEF TypeOK
<1>3. PICK where \in ConnStates \ {"none"} :
        /\ tr' = [tr EXCEPT ![c] = where]
        /\ \/ transport = "skeleton" /\ tr[c] = "handshake" /\ where = "unblock" /\ UNCHANGED readers
           \/ tr[c] = "unblock" /\ where = "find" /\ readers' = readers \cup {c} /\ writer = None
           \/ /\ tr[c] = "signal" /\ readers' = readers \ {c}
              /\ where = IF stcp_errno[c] = 0 THEN "run" ELSE "exited"
           \/ transport = "stcp" /\ tr[c] = "run" /\ where = "exited" /\ UNCHANGED readers
  BY DEF SkeletonUnblock, CompleteLock, CompleteSignal, Finish, RdLock, ConnStates, lockVars
<1>4. SynPending'
  BY <1>1, <1>2, <1>3 DEF SynPending, ConnSame, TypeOK
<1>5. readers' # {} => writer = None
  BY <1>3 DEF Locked
<1>6. /\ stcp_errno' \in [Attempts -> {0, 1}] /\ recvq' \in [Attempts -> Seq({"syn", "err"})]
      /\ \A d \in Attempts \ {c} : recvq'[d] = recvq[d]
  BY <1>1 DEF TypeOK
<1>7. /\ tr[c] # "none" /\ tr[c] # "exited"
      /\ (tr[c] \in {"signal", "run", "exited"}) = (where \in {"signal", "run", "exited"})
      /\ where \in {"find", "signal"} => c \in readers'
      /\ readers' \cup {c} = readers \cup {c}
  BY <1>3
<1> QED  BY <1>1, <1>3, <1>4, <1>5, <1>6, <1>7, ConnFrame

\* The connection's slot is found and becomes the last completed entry.
LEMMA CompleteAppendPreserves ==
  ASSUME DemuxInv, NEW c \in Attempts, CompleteAppend(c)
  PROVE  DemuxInv'
<1> USE DEF DemuxInv
<1>1. tr[c] = "find" /\ queueAlive /\ c \notin Returned
  BY DEF CompleteAppend, SlotsUsed, ReturnedOnce, Completed
<1>2. SlotsOf(c) # {}
  BY <1>1 DEF SlotsUsed, Occupants, SlotsOf
<1>3. /\ completed_queue' = Append(completed_queue, FirstOf(SlotsOf(c)))
      /\ tr' = [tr EXCEPT ![c] = "signal"]
      /\ UNCHANGED <<transport, link, tcp_backlog, lis, cur, lslot, stcp_errno, recvq, acc, aslot>>
      /\ UNCHANGED <<readers, writer, connection_queue, queueAlive, sockets, accepted, failure>>
  BY <1>1, <1>2 DEF CompleteAppend, Enqueue, peerVars, lisVars, accVars, lockVars, sockVars, NoFailure
<1>4. PICK k \in Slots : connection_queue[k] = c /\ completed_queue' = Append(completed_queue, k)
  <2>1. FirstOf(SlotsOf(c)) \in SlotsOf(c)
    BY <1>2, FirstOfSlots DEF SlotsOf
  <2> QED  BY <1>3, <2>1 DEF SlotsOf
<1>5. c # None /\ completed_queue \in Seq(Slots) /\ k \notin Range(completed_queue)
  BY <1>1, <1>4, NamesDiffer DEF TypeOK, Queued, Completed
<1>6. /\ completed_queue' \in Seq(Slots) /\ Range(completed_queue') = Range(completed_queue) \cup {k}
      /\ IsInjective(completed_queue')
  BY <1>4, <1>5, AppendRange DEF Queued
<1>7. TypeOK'
  BY <1>3, <1>6 DEF TypeOK, ConnStates
<1>8. Locked' /\ Fresh' /\ NoBadPointer'
  BY <1>1, <1>3 DEF Locked, Fresh, NoBadPointer, TypeOK
<1>9. SynPending'
  <2>1. cur \in sockets => cur \in Attempts
    BY DEF TypeOK
  <2> QED  BY <1>1, <1>3, <2>1 DEF SynPending, TypeOK
<1>10. /\ tr'[c] = "signal" /\ (\A d \in Attempts \ {c} : tr'[d] = tr[d])
       /\ Returned' = Returned /\ Returned \subseteq Attempts /\ Range(completed_queue) \subseteq Slots
       /\ \A j \in Slots : connection_queue[j] # None => connection_queue[j] \in Attempts
  BY <1>3 DEF TypeOK, Returned, Range
<1>11. ReturnedOnce'
  BY <1>3, <1>10 DEF ReturnedOnce, Completed
<1>12. Queued'
  <2>1. ASSUME NEW j \in Range(completed_queue')
        PROVE  connection_queue'[j] # None /\ Completed(connection_queue[j])'
    <3>1. CASE j = k
      BY <1>3, <1>4, <1>5, <1>10, <3>1 DEF Completed
    <3>2. CASE j \in Range(completed_queue)
      BY <1>3, <1>10, <3>2 DEF Queued, Completed
    <3> QED  BY <1>6, <2>1, <3>1, <3>2
  <2>2. ASSUME NEW j \in Slots, connection_queue'[j] # None, Completed(connection_queue[j])'
        PROVE  j \in Range(completed_queue')
    <3>1. CASE connection_queue[j] = c
      BY <1>4, <1>5, <1>6, <3>1 DEF SlotsUsed
    <3>2. CASE connection_queue[j] # c
      BY <1>3, <1>6, <1>10, <2>2, <3>2 DEF Queued, Completed
    <3> QED  BY <3>1, <3>2
  <2> QED  BY <1>6, <2>1, <2>2 DEF Queued
<1>13. SlotsUsed'
  <2>1. Occupants' = Occupants /\ \A j \in Slots : Scanned(j)' = Scanned(j)
    BY <1>3 DEF Scanned, Occupants
  <2>2. ASSUME NEW j \in Slots, connection_queue'[j] # None
        PROVE  /\ tr'[connection_queue'[j]] # "none"
               /\ connection_queue'[j] \notin Returned'
               /\ IF Scanned(j)' THEN tr'[connection_queue'[j]] = "exited"
                                 ELSE connection_queue'[j] \in sockets'
    BY <1>1, <1>3, <1>10, <2>1, <2>2 DEF SlotsUsed
  <2>3. queueAlive' /\ \A d \in Attempts : tr'[d] # "none" => d \in Occupants' \cup Returned'
    BY <1>1, <1>3, <1>10, <2>1 DEF SlotsUsed
  <2> QED  BY <1>3, <2>2, <2>3 DEF SlotsUsed
<1> QED  BY <1>7, <1>8, <1>9, <1>11, <1>12, <1>13

LEMMA ConnStepPreserves ==
  ASSUME DemuxInv, NEW c \in Attempts, ConnStep(c)
  PROVE  DemuxInv'
BY RecvErrorPreserves, HandshakePreserves, ConnMovesPreserve, CompleteAppendPreserves DEF ConnStep

-----------------------------------------------------------------------------
(* Application threads *)

\* A step of myaccept, or the start of myclose, that leaves the queue alone.
LEMMA AppFrame ==
  ASSUME DemuxInv, NEW a \in Acceptors, NEW where \in AppStates \ {"scan", "join"},
         acc[a] \notin {"scan", "join"},
         acc' = [acc EXCEPT ![a] = where],
         UNCHANGED <<transport, link, tcp_backlog, lis, cur, lslot, tr, stcp_errno, recvq, aslot>>,
         UNCHANGED <<writer, connection_queue, completed_queue, queueAlive, sockets, accepted>>,
         UNCHANGED failure,
         where \in {"lock", "check", "dec"} => a \in readers',
         readers' \cup {a} = readers \cup {a}, readers' # {} => writer = None
  PROVE  DemuxInv'
<1> USE DEF DemuxInv
<1>1. TypeOK'
  BY DEF TypeOK
<1>2. Locked'
  <2>1. /\ \A b \in Acceptors \ {a} : b \in readers => b \in readers'
        /\ \A c \in Attempts : c \in readers => c \in readers'
        /\ "listener" \in readers => "listener" \in readers'
    BY NamesDiffer
  <2> QED  BY <2>1 DEF Locked, TypeOK
<1>3. Fresh' /\ SynPending' /\ NoBadPointer'
  BY DEF Fresh, SynPending, NoBadPointer
<1>4. SlotsUsed' /\ Queued' /\ ReturnedOnce'
  <2>1. QueueSame /\ (\A d \in Attempts : SameStage(d)) /\ \A b \in Acceptors : SameScan(b)
    BY DEF QueueSame, SameStage, SameScan, Completed, TypeOK
  <2> QED  BY <2>1, QueueFrame DEF TypeOK, SlotsUsed
<1> QED  BY <1>1, <1>2, <1>3, <1>4

LEMMA AcceptMovesPreserve ==
  ASSUME DemuxInv, NEW a \in Acceptors,
         \/ Accept(a) \/ AcceptRdLock(a) \/ AcceptLock(a) \/ AcceptWait(a) \/ AcceptDecrement(a)
         \/ CloseListen(a)
  PROVE  DemuxInv'
<1>1. /\ UNCHANGED <<transport, link, tcp_backlog, lis, cur, lslot, tr, stcp_errno, recvq, aslot>>
      /\ UNCHANGED <<writer, connection_queue, completed_queue, queueAlive, sockets, accepted>>
      /\ UNCHANGED failure
  BY DEF Accept, AcceptRdLock, AcceptLock, AcceptWait, AcceptDecrement, CloseListen, RdLock,
         peerVars, lisVars, trVars, lockVars, queueVars, sockVars, NoFailure
<1>2. PICK where \in AppStates \ {"scan", "join"} :
        /\ acc' = [acc EXCEPT ![a] = where]
        /\ \/ where \in {"rdlock", "joinlis"} /\ UNCHANGED readers /\ acc[a] = "idle"
           \/ acc[a] = "rdlock" /\ readers' = readers \cup {a} /\ writer = None
           \/ where \in {"lock", "check"} /\ UNCHANGED readers /\ acc[a] \in {"lock", "check"}
           \/ where = "idle" /\ readers' = readers \ {a} /\ acc[a] = "dec"
  BY DEF Accept, AcceptRdLock, AcceptLock, AcceptWait, AcceptDecrement, CloseListen, RdLock, At,
         lockVars, AppStates
<1>3. /\ acc[a] \notin {"scan", "join"}
      /\ where \in {"lock", "check", "dec"} => a \in readers'
      /\ readers' \cup {a} = readers \cup {a} /\ (readers' # {} => writer = None)
  BY <1>2 DEF DemuxInv, Locked
<1> QED  BY <1>1, <1>2, <1>3, AppFrame

\* myaccept takes the first completed entry: its context is there, and the
\* entries left lead to other connections.
LEMMA AcceptPopPreserves ==
  ASSUME DemuxInv, NEW a \in Acceptors, AcceptPop(a)
  PROVE  DemuxInv'
<1> USE DEF DemuxInv
<1>1. acc[a] = "check" /\ completed_queue # <<>> /\ completed_queue \in Seq(Slots)
  BY DEF AcceptPop, TypeOK
<1>2. /\ \A b \in Acceptors : acc[b] \notin {"scan", "join"}
      /\ \A j \in Slots : ~Scanned(j)
  <2>1. writer = None
    BY <1>1 DEF Locked
  <2> QED  BY <2>1, NamesDiffer DEF Locked, Scanned
<1>3. PICK k \in Slots : k = Head(completed_queue) /\ k \in Range(completed_queue)
  BY <1>1, HeadFacts
<1>4. PICK c \in Attempts : c = connection_queue[k]
  <2>1. connection_queue[k] # None
    BY <1>3 DEF Queued
  <2>2. connection_queue[k] \in Attempts \cup {None}
    BY DEF TypeOK
  <2> QED  BY <2>1, <2>2
<1>5. c \in sockets /\ c \notin Returned /\ Completed(c) /\ c # None
  BY <1>2, <1>3, <1>4 DEF SlotsUsed, Queued
<1>6. CASE Fail("cur_len")
  BY <1>6, FailPreserves
<1>7. CASE ~Fail("cur_len")
  <2>1. /\ completed_queue' = Tail(completed_queue)
        /\ connection_queue' = [connection_queue EXCEPT ![k] = None]
        /\ accepted' = Append(accepted, c) /\ acc' = [acc EXCEPT ![a] = "dec"]
        /\ UNCHANGED <<transport, link, tcp_backlog, lis, cur, lslot, tr, stcp_errno, recvq, aslot>>
        /\ UNCHANGED <<readers, writer, queueAlive, sockets, failure>>
    BY <1>3, <1>4, <1>5, <1>7 DEF AcceptPop, At, peerVars, lisVars, trVars, lockVars, NoFailure
  <2>2. /\ completed_queue' \in Seq(Slots) /\ IsInjective(completed_queue')
        /\ Range(completed_queue') = Range(completed_queue) \ {k}
    BY <1>1, <1>3, <2>1, HeadFacts, TailFacts DEF Queued
  <2>3. /\ accepted \in Seq(Attempts) /\ accepted' \in Seq(Attempts)
        /\ Returned' = Returned \cup {c} /\ Len(accepted') = Len(accepted) + 1
    <3>1. accepted \in Seq(Attempts)
      BY DEF TypeOK
    <3>2. Range(accepted') = Range(accepted) \cup {c} /\ accepted' \in Seq(Attempts)
      BY <2>1, <3>1, AppendRange
    <3>3. Returned = Range(accepted) /\ Returned' = Range(accepted')
      BY DEF Returned, Range
    <3>4. Len(accepted') = Len(accepted) + 1
      BY <2>1, <3>1, AppendProperties
    <3> QED  BY <3>1, <3>2, <3>3, <3>4
  <2>4. TypeOK'
    BY <2>1, <2>2, <2>3 DEF TypeOK, AppStates
  <2>5. Locked' /\ Fresh' /\ SynPending' /\ NoBadPointer'
    BY <1>1, <2>1 DEF Locked, Fresh, SynPending, NoBadPointer, TypeOK
  <2>6. ReturnedOnce'
    <3>1. IsFiniteSet(Returned') /\ Cardinality(Returned') = Cardinality(Returned) + 1
      BY <1>5, <2>3, FS_AddElement DEF ReturnedOnce
    <3>2. \A d \in Returned' : Completed(d)'
      BY <1>5, <2>1, <2>3 DEF ReturnedOnce, Completed
    <3> QED  BY <2>3, <3>1, <3>2 DEF ReturnedOnce
  <2>7. /\ connection_queue'[k] = None
        /\ \A j \in Slots \ {k} : connection_queue'[j] = connection_queue[j]
                                  /\ (connection_queue[j] # None => connection_queue[j] # c)
    BY <1>4, <1>5, <2>1 DEF TypeOK, SlotsUsed
  <2>8. Queued'
    <3>1. Range(completed_queue) \subseteq Slots
      BY DEF TypeOK, Range
    <3> QED  BY <2>1, <2>2, <2>7, <3>1 DEF Queued, Completed
  <2>9. SlotsUsed'
    <3>1. \A j \in Slots : ~Scanned(j)'
      BY <1>1, <1>2, <2>1 DEF Scanned, TypeOK
    <3>2. ASSUME NEW j \in Slots, connection_queue'[j] # None
          PROVE  /\ tr'[connection_queue'[j]] # "none" /\ connection_queue'[j] \notin Returned'
                 /\ connection_queue'[j] \in sockets'
      BY <1>2, <2>1, <2>3, <2>7, <3>2 DEF SlotsUsed
    <3>3. \A i, j \in Slots :
            connection_queue'[i] = connection_queue'[j] /\ connection_queue'[i] # None => i = j
      BY <2>7 DEF SlotsUsed
    <3>4. \A b \in Acceptors : acc'[b] \notin {"scan", "join"}
      BY <1>2, <2>1 DEF TypeOK
    <3>5. queueAlive
      BY <1>1 DEF SlotsUsed
    <3>6. ASSUME NEW d \in Attempts, tr'[d] # "none"
          PROVE  d \in Occupants' \cup Returned'
      <4>1. d \in Returned \/ \E j \in Slots : connection_queue[j] = d
        BY <2>1, <3>5, <3>6 DEF SlotsUsed, Occupants
      <4>2. CASE d \in Returned \/ d = c
        BY <2>3, <4>2
      <4>3. CASE d \notin Returned /\ d # c
        <5>1. PICK j \in Slots : connection_queue[j] = d
          BY <4>1, <4>3
        <5>2. connection_queue'[j] = d /\ d # None
          BY <1>4, <2>7, <4>3, <5>1, NamesDiffer
        <5> QED  BY <5>2 DEF Occupants
      <4> QED  BY <4>2, <4>3
    <3>7. lis' \in {"inc", "new", "undo"} => lslot' \in Slots /\ connection_queue'[lslot'] = None
      BY <2>1, <2>7 DEF SlotsUsed
    <3> QED  BY <2>1, <3>1, <3>2, <3>3, <3>4, <3>5, <3>6, <3>7 DEF SlotsUsed
  <2> QED  BY <2>4, <2>5, <2>6, <2>8, <2>9
<1> QED  BY <1>6, <1>7

\* The application closes a connection it has: its slot has been invalidated.
LEMMA CloseAcceptedPreserves ==
  ASSUME DemuxInv, NEW c \in Attempts, CloseAccepted(c)
  PROVE  DemuxInv'
<1> USE DEF DemuxInv
<1>1. /\ UNCHANGED <<transport, link, tcp_backlog, lis, cur, lslot, tr, stcp_errno, recvq, acc>>
      /\ UNCHANGED <<aslot, readers, writer, connection_queue, completed_queue, queueAlive>>
      /\ UNCHANGED <<accepted, failure>>
      /\ c \in Returned /\ stcp_errno[c] = 0
      /\ sockets' = sockets \/ (sockets' = sockets \ {c} /\ tr[c] = "exited")
  BY DEF CloseAccepted, peerVars, lisVars, accVars, lockVars, queueVars, NoFailure
<1>2. TypeOK' /\ Locked' /\ Fresh' /\ NoBadPointer'
  BY <1>1 DEF TypeOK, Locked, Fresh, NoBadPointer
<1>3. SynPending'
  <2>1. lis = "syn" => cur \in sockets'
    BY <1>1 DEF SynPending, TypeOK
  <2> QED  BY <1>1, <2>1 DEF SynPending
<1>4. Returned' = Returned /\ Occupants' = Occupants /\ \A k \in Slots : Scanned(k)' = Scanned(k)
  BY <1>1 DEF Returned, Occupants, Scanned
<1>5. Queued' /\ ReturnedOnce'
  BY <1>1, <1>4 DEF Queued, ReturnedOnce, Completed
<1>6. SlotsUsed'
  BY <1>1, <1>4 DEF SlotsUsed
<1> QED  BY <1>2, <1>3, <1>5, <1>6

-----------------------------------------------------------------------------
(* myclose of the listening mysocket *)

\* What the scan leaves alone.
CloseSame ==
  /\ UNCHANGED <<transport, link, tcp_backlog, lis, cur, lslot, tr, stcp_errno, recvq, readers>>
  /\ UNCHANGED <<accepted, failure>>

LEMMA CloseWrLockPreserves ==
  ASSUME DemuxInv, NEW a \in Acceptors, CloseWrLock(a)
  PROVE  DemuxInv'
<1> USE DEF DemuxInv
<1>1. /\ CloseSame /\ UNCHANGED <<connection_queue, completed_queue, queueAlive, sockets>>
      /\ lis = "done" /\ readers = {} /\ writer = None /\ writer' = a
      /\ acc' = [acc EXCEPT ![a] = "scan"] /\ aslot' = [aslot EXCEPT ![a] = 1]
  BY DEF CloseWrLock, At, CloseSame, peerVars, lisVars, trVars, queueVars, sockVars, NoFailure
<1>2. TypeOK' /\ Fresh' /\ SynPending' /\ NoBadPointer'
  BY <1>1 DEF TypeOK, Fresh, SynPending, NoBadPointer, CloseSame, AppStates
<1>3. \A b \in Acceptors : acc[b] \notin {"scan", "join"}
  BY <1>1, NamesDiffer DEF Locked
<1>4. /\ acc'[a] = "scan" /\ aslot'[a] = 1
      /\ \A b \in Acceptors \ {a} : acc'[b] = acc[b] /\ aslot'[b] = aslot[b]
  BY <1>1 DEF TypeOK
<1>5. Locked'
  BY <1>1, <1>3, <1>4 DEF Locked, CloseSame
<1>6. \A k \in Slots : ~Scanned(k) /\ ~Scanned(k)'
  BY <1>3, <1>4, NamesDiffer DEF Scanned
<1>7. Returned' = Returned /\ Occupants' = Occupants
  BY <1>1 DEF Returned, Occupants, CloseSame
<1>8. Queued' /\ ReturnedOnce'
  BY <1>1, <1>7 DEF Queued, ReturnedOnce, Completed, CloseSame
<1>9. SlotsUsed'
  BY <1>1, <1>3, <1>4, <1>6, <1>7 DEF SlotsUsed, CloseSame
<1> QED  BY <1>2, <1>5, <1>8, <1>9

\* The scan of thread a goes on: it is the only one, and no other thread uses
\* the queue meanwhile.
LEMMA ScanFrame ==
  ASSUME DemuxInv, NEW a \in Acceptors, acc[a] \in {"scan", "join"}, CloseSame,
         UNCHANGED <<connection_queue, completed_queue, queueAlive, writer>>,
         NEW where \in {"scan", "join"}, acc' = [acc EXCEPT ![a] = where],
         where = "join" => aslot[a] \in Slots /\ connection_queue[aslot[a]] # None,
         \/ UNCHANGED <<aslot, sockets>>
         \/ /\ where = "scan" /\ aslot' = [aslot EXCEPT ![a] = @ + 1] /\ aslot[a] \in Slots
            /\ \/ connection_queue[aslot[a]] = None /\ UNCHANGED sockets
               \/ /\ connection_queue[aslot[a]] # None
                  /\ tr[connection_queue[aslot[a]]] = "exited"
                  /\ sockets' = sockets \ {connection_queue[aslot[a]]}
  PROVE  DemuxInv'
<1> USE DEF DemuxInv
<1>1. /\ lis = "done" /\ writer = a /\ aslot[a] \in Nat /\ aslot[a] # 0 /\ aslot'[a] \in Nat
      /\ aslot[a] <= aslot'[a]
      /\ \A b \in Acceptors : acc[b] \in {"scan", "join"} => b = a
      /\ acc'[a] = where /\ \A b \in Acceptors \ {a} : acc'[b] = acc[b] /\ aslot'[b] = aslot[b]
  BY DEF Locked, TypeOK, SlotsUsed
<1>2. TypeOK'
  <2>1. aslot' \in [Acceptors -> Nat] /\ sockets' \subseteq Attempts
    BY <1>1 DEF TypeOK
  <2> QED  BY <2>1 DEF TypeOK, CloseSame, AppStates
<1>3. Locked' /\ Fresh' /\ SynPending' /\ NoBadPointer'
  BY <1>1 DEF Locked, Fresh, SynPending, NoBadPointer, CloseSame
<1>4. Returned' = Returned /\ Occupants' = Occupants
  BY DEF Returned, Occupants, CloseSame
<1>5. Queued' /\ ReturnedOnce'
  BY <1>4 DEF Queued, ReturnedOnce, Completed, CloseSame
<1>6. ASSUME NEW k \in Slots
      PROVE  (Scanned(k) <=> k < aslot[a]) /\ (Scanned(k)' <=> k < aslot'[a])
  <2>1. Scanned(k) <=> k < aslot[a]
    BY <1>1 DEF Scanned
  <2>2. Scanned(k)' <=> k < aslot'[a]
    BY <1>1 DEF Scanned
  <2> QED  BY <2>1, <2>2
<1>7. ASSUME NEW k \in Slots, connection_queue[k] # None
      PROVE  IF Scanned(k)' THEN tr[connection_queue[k]] = "exited"
                            ELSE connection_queue[k] \in sockets'
  <2>1. CASE UNCHANGED <<aslot, sockets>>
    BY <1>6, <1>7, <2>1 DEF SlotsUsed
  <2>2. CASE aslot' = [aslot EXCEPT ![a] = @ + 1] /\ aslot[a] \in Slots
    <3>1. k \in Nat /\ aslot'[a] = aslot[a] + 1
      BY <2>2, NamesDiffer DEF TypeOK
    <3>2. CASE k = aslot[a]
      <4>1. Scanned(k)' /\ tr[connection_queue[k]] = "exited"
        BY <1>1, <1>6, <1>7, <2>2, <3>1, <3>2
      <4> QED  BY <4>1
    <3>3. CASE k < aslot[a]
      BY <1>1, <1>6, <1>7, <3>1, <3>3 DEF SlotsUsed
    <3>4. CASE k > aslot[a]
      <4>1. ~Scanned(k) /\ ~Scanned(k)'
        BY <1>1, <1>6, <3>1, <3>4
      <4>2. connection_queue[k] \in sockets
        BY <1>7, <4>1 DEF SlotsUsed
      <4>3. connection_queue[k] # connection_queue[aslot[a]]
        BY <1>1, <1>7, <2>2, <3>1, <3>4 DEF SlotsUsed
      <4> QED  BY <4>1, <4>2, <4>3
    <3> QED  BY <1>1, <3>1, <3>2, <3>3, <3>4
  <2> QED  BY <2>1, <2>2
<1>8. SlotsUsed'
  <2>1. \A k \in Slots : connection_queue'[k] # None =>
          /\ tr'[connection_queue'[k]] # "none"
          /\ connection_queue'[k] \notin Returned'
          /\ IF Scanned(k)' THEN tr'[connection_queue'[k]] = "exited"
                            ELSE connection_queue'[k] \in sockets'
    BY <1>4, <1>7 DEF SlotsUsed, CloseSame
  <2>2. \A b \in Acceptors :
          /\ acc'[b] \in {"scan", "join"} => aslot'[b] # 0
          /\ acc'[b] = "join" => aslot'[b] \in Slots /\ connection_queue'[aslot'[b]] # None
    BY <1>1
  <2> QED  BY <1>1, <1>4, <2>1, <2>2 DEF SlotsUsed, CloseSame
<1> QED  BY <1>2, <1>3, <1>5, <1>8

LEMMA CloseScanPreserves ==
  ASSUME DemuxInv, NEW a \in Acceptors, CloseScan(a) \/ CloseJoin(a)
  PROVE  DemuxInv'
<1>1. CloseSame /\ UNCHANGED <<connection_queue, completed_queue, queueAlive, writer>>
  BY DEF CloseScan, CloseJoin, CloseSame, peerVars, lisVars, trVars, lockVars, queueVars, sockVars,
         NoFailure
<1>2. CASE CloseScan(a)
  <2>1. acc[a] = "scan" /\ aslot[a] \in Slots /\ UNCHANGED sockets
    BY <1>2 DEF CloseScan, sockVars
  <2>2. CASE /\ connection_queue[aslot[a]] = None /\ UNCHANGED acc
             /\ aslot' = [aslot EXCEPT ![a] = @ + 1]
    <3>1. acc' = [acc EXCEPT ![a] = "scan"]
      BY <2>1, <2>2 DEF DemuxInv, TypeOK
    <3> QED  BY <1>1, <2>1, <2>2, <3>1, ScanFrame
  <2>3. CASE /\ connection_queue[aslot[a]] # None /\ UNCHANGED aslot
             /\ acc' = [acc EXCEPT ![a] = "join"]
    BY <1>1, <2>1, <2>3, ScanFrame
  <2> QED  BY <1>2, <2>2, <2>3 DEF CloseScan, At
<1>3. CASE CloseJoin(a)
  <2>1. /\ acc[a] = "join" /\ acc' = [acc EXCEPT ![a] = "scan"]
        /\ tr[connection_queue[aslot[a]]] = "exited"
        /\ sockets' = sockets \ {connection_queue[aslot[a]]}
        /\ aslot' = [aslot EXCEPT ![a] = @ + 1]
    BY <1>3 DEF CloseJoin, At
  <2>2. aslot[a] \in Slots /\ connection_queue[aslot[a]] # None
    BY <2>1 DEF DemuxInv, SlotsUsed
  <2> QED  BY <1>1, <2>1, <2>2, ScanFrame
<1> QED  BY <1>2, <1>3

\* The queue is deleted: every connection it held has been joined.
LEMMA CloseDonePreserves ==
  ASSUME DemuxInv, NEW a \in Acceptors, CloseDone(a)
  PROVE  DemuxInv'
<1> USE DEF DemuxInv
<1>1. /\ CloseSame /\ UNCHANGED sockets /\ writer' = None
      /\ acc[a] = "scan" /\ aslot[a] \notin Slots /\ acc' = [acc EXCEPT ![a] = "closed"]
      /\ aslot' = [aslot EXCEPT ![a] = 0] /\ queueAlive' = FALSE /\ completed_queue' = <<>>
      /\ connection_queue' = [k \in Slots |-> None]
  BY DEF CloseDone, At, CloseSame, peerVars, lisVars, trVars, NoFailure
<1>2. /\ lis = "done" /\ writer = a
      /\ \A b \in Acceptors : acc[b] \in {"scan", "join"} => b = a
      /\ \A b \in Acceptors : acc'[b] \notin {"scan", "join"}
      /\ readers = {}
  BY <1>1, NamesDiffer DEF Locked, TypeOK
<1>3. TypeOK'
  BY <1>1, EmptySeq DEF TypeOK, CloseSame, AppStates
<1>4. Locked'
  BY <1>1, <1>2 DEF Locked, TypeOK, CloseSame
<1>5. Fresh' /\ SynPending' /\ NoBadPointer'
  BY <1>1, <1>2 DEF Fresh, SynPending, NoBadPointer, CloseSame
<1>6. Returned' = Returned
  BY <1>1 DEF Returned, CloseSame
<1>7. ReturnedOnce'
  BY <1>1, <1>6 DEF ReturnedOnce, Completed, CloseSame
<1>8. Queued'
  BY <1>1 DEF Queued, IsInjective, Range
<1>9. \A k \in Slots : Scanned(k)
  <2>1. aslot[a] \in Nat /\ aslot[a] # 0
    BY <1>1 DEF TypeOK, SlotsUsed
  <2>2. \A k \in Slots : k < aslot[a]
    BY <1>1, <2>1, NamesDiffer
  <2> QED  BY <1>1, <2>2 DEF Scanned
<1>10. ASSUME NEW c \in Attempts PROVE tr[c] \in {"none", "signal", "run", "exited"}
  <2>1. CASE ~queueAlive
    BY <2>1 DEF SlotsUsed
  <2>2. CASE c \in Returned
    BY <2>2 DEF ReturnedOnce, Completed
  <2>3. CASE c \in Occupants
    BY <1>9, <2>3 DEF SlotsUsed, Occupants
  <2>4. CASE tr[c] = "none"
    BY <2>4
  <2> QED  BY <2>1, <2>2, <2>3, <2>4 DEF SlotsUsed
<1>11. SlotsUsed'
  BY <1>1, <1>2, <1>10 DEF SlotsUsed, CloseSame
<1> QED  BY <1>3, <1>4, <1>5, <1>7, <1>8, <1>11

\* A condition wait may return by itself, and nothing may happen.
LEMMA IdlePreserves ==
  ASSUME DemuxInv, (\E a \in Acceptors : SpuriousWakeup(a)) \/ UNCHANGED vars
  PROVE  DemuxInv'
<1>1. /\ UNCHANGED <<transport, link, tcp_backlog, lis, cur, lslot, tr, stcp_errno, recvq, acc, aslot>>
      /\ UNCHANGED <<readers, writer, connection_queue, completed_queue, queueAlive, sockets, accepted>>
      /\ UNCHANGED failure
  BY DEF SpuriousWakeup, vars, peerVars, lisVars, trVars, accVars, lockVars, queueVars, sockVars,
         NoFailure
<1>2. TypeOK' /\ Locked' /\ Fresh' /\ SynPending' /\ NoBadPointer'
  BY <1>1 DEF DemuxInv, TypeOK, Locked, Fresh, SynPending, NoBadPointer
<1>3. SlotsUsed' /\ Queued' /\ ReturnedOnce'
  <2>1. QueueSame /\ (\A d \in Attempts : SameStage(d)) /\ \A a \in Acceptors : SameScan(a)
    BY <1>1 DEF QueueSame, SameStage, SameScan, Completed
  <2> QED  BY <1>1, <2>1, QueueFrame DEF DemuxInv, TypeOK, SlotsUsed
<1> QED  BY <1>2, <1>3 DEF DemuxInv

-----------------------------------------------------------------------------
(* The theorems *)

LEMMA DemuxStep == DemuxInv /\ [Next]_vars => DemuxInv'
<1> SUFFICES ASSUME DemuxInv, [Next]_vars PROVE DemuxInv'
  OBVIOUS
<1>1. CASE Peers
  BY <1>1, PeersPreserve
<1>2. CASE AppCall
  BY <1>2, AcceptMovesPreserve, CloseAcceptedPreserves DEF AppCall
<1>3. CASE ListenStep
  BY <1>3, ListenPollPreserves, ListenReadPreserves, ListenLockPreserves, ListenDropPreserves,
     ListenSlotPreserves, ListenIncrementPreserves, ListenNewPreserves, ListenSynPreserves
     DEF ListenStep
<1>4. ASSUME NEW c \in Attempts, ConnStep(c) PROVE DemuxInv'
  BY <1>4, ConnStepPreserves
<1>5. ASSUME NEW a \in Acceptors, AcceptStep(a) PROVE DemuxInv'
  BY <1>5, AcceptMovesPreserve, AcceptPopPreserves DEF AcceptStep
<1>6. ASSUME NEW a \in Acceptors, CloseStep(a) PROVE DemuxInv'
  BY <1>6, CloseWrLockPreserves, CloseScanPreserves, CloseDonePreserves DEF CloseStep
<1>7. CASE (\E a \in Acceptors : SpuriousWakeup(a)) \/ UNCHANGED vars
  BY <1>7, IdlePreserves
<1> QED  BY <1>1, <1>2, <1>3, <1>4, <1>5, <1>6, <1>7 DEF Next

LEMMA DemuxInvariant == Spec => []DemuxInv
BY DemuxInit, DemuxStep, PTL DEF Spec

\* Between _mysock_passive_connection_complete and myaccept a connection has
\* exactly one entry in completed_queue, and no entry leads to a slot that was
\* invalidated or reused; myaccept returns completed connections, each once.
THEOREM CompletionsQueuedOnce == Spec => []EachCompletionQueuedOnce
<1>1. DemuxInv => EachCompletionQueuedOnce
  <2> SUFFICES ASSUME DemuxInv, queueAlive PROVE EachCompletionQueuedOnce
    BY DEF EachCompletionQueuedOnce
  <2>1. \A i \in DOMAIN completed_queue : completed_queue[i] \in Range(completed_queue)
    BY DEF Range
  <2>2. ASSUME NEW c \in Attempts, Completed(c), c \notin Returned
        PROVE  Cardinality(PointedTo(c)) = 1
    <3>1. PICK k \in Slots : connection_queue[k] = c
      BY <2>2 DEF DemuxInv, SlotsUsed, Occupants, Completed
    <3>2. c # None
      BY NamesDiffer
    <3>3. PICK i \in DOMAIN completed_queue : completed_queue[i] = k
      BY <2>2, <3>1, <3>2 DEF DemuxInv, Queued, Range
    <3>4. ASSUME NEW j \in DOMAIN completed_queue, connection_queue[completed_queue[j]] = c
          PROVE  j = i
      <4>1. completed_queue[j] \in Slots
        BY DEF DemuxInv, TypeOK
      <4>2. completed_queue[j] = k
        BY <3>1, <3>2, <3>4, <4>1 DEF DemuxInv, SlotsUsed
      <4> QED  BY <3>3, <4>2 DEF DemuxInv, Queued, IsInjective
    <3>5. PointedTo(c) = {i}
      BY <3>1, <3>3, <3>4 DEF PointedTo
    <3> QED  BY <3>5, FS_Singleton
  <2> QED  BY <2>1, <2>2 DEF EachCompletionQueuedOnce, DemuxInv, Queued, ReturnedOnce
<1> QED  BY <1>1, DemuxInvariant, PTL

\* The assertions on the connection's slot, its context and the listening
\* context never fail, and the context to which _mysock_enqueue_connection
\* passes the SYN, after its threads have started, has not been freed.
THEOREM PointersStayValid == Spec => []PointersValid
<1>1. DemuxInv => PointersValid
  BY DEF DemuxInv, NoBadPointer, SynPending, PointersValid
<1> QED  BY <1>1, DemuxInvariant, PTL
=============================================================================
