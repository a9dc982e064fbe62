-------------------------- MODULE MysockConnProofs --------------------------
(***************************************************************************)
(* Proofs about MysockConn for every value of its constants: the threads   *)
(* and what wakes them first, then the two byte streams, which the queues  *)
(* hold in order and each of which is a BytePipe.                          *)
(***************************************************************************)
EXTENDS MysockConn, SequenceTheorems, TLAPS

-----------------------------------------------------------------------------
(* Sequences *)

\* Appending to a queue keeps its type and its head: what an enqueue does to
\* the node a partial dequeue is working on.
LEMMA AppendFacts ==
  ASSUME NEW S, NEW s \in Seq(S), NEW e \in S
  PROVE  /\ Append(s, e) \in Seq(S)
         /\ Append(s, e) # <<>>
         /\ s # <<>> => Head(Append(s, e)) = Head(s)
<1>1. /\ Append(s, e) \in Seq(S) /\ Len(Append(s, e)) = Len(s) + 1
      /\ \A i \in 1..Len(s) : Append(s, e)[i] = s[i]
  BY AppendProperties
<1>2. Len(s) \in Nat /\ (s # <<>> => Len(s) # 0)
  BY EmptySeq, LenProperties
<1>3. Append(s, e) # <<>>
  BY <1>1, <1>2, EmptySeq
<1>4. ASSUME s # <<>> PROVE Head(Append(s, e)) = Head(s)
  <2>1. Head(s) = s[1] /\ Head(Append(s, e)) = Append(s, e)[1]
    BY <1>1, <1>3, <1>4
  <2> QED  BY <2>1, <1>1, <1>2, <1>4
<1> QED  BY <1>1, <1>3, <1>4

\* Removing the head of a non-empty queue.
LEMMA TailFacts ==
  ASSUME NEW S, NEW s \in Seq(S), s # <<>>
  PROVE  Head(s) \in S /\ Tail(s) \in Seq(S)
BY HeadTailProperties

\* Replacing the head of a non-empty queue, as a partial dequeue does.
LEMMA ReplaceHeadFacts ==
  ASSUME NEW S, NEW s \in Seq(S), s # <<>>, NEW e \in S
  PROVE  /\ ReplaceHead(s, e) \in Seq(S)
         /\ ReplaceHead(s, e) # <<>>
         /\ Head(ReplaceHead(s, e)) = e
BY DEF ReplaceHead

-----------------------------------------------------------------------------
(* The inductive invariant: who may be where *)

\* A transport that was told of data finds it, and a partial dequeue finds its
\* node longer than the buffer when it resumes after the unlock.
QueuesReady ==
  /\ app = "rdcopy" => /\ app_send_queue # <<>>
                       /\ rdmax < DataLen(Head(app_send_queue))
  /\ tr = "trcopy" => /\ app_recv_queue # <<>>
                      /\ trmax < DataLen(Head(app_recv_queue))
  /\ APP_DATA \in ev => tr = "handle" /\ app_recv_queue # <<>>
  /\ NETWORK_DATA \in ev =>
       tr \in {"handle", "trcopy"} /\ network_recv_queue # <<>>

\* The threads exist between myconnect and the joins of myclose.
Joined ==
  /\ app = "new" => tr = "none" /\ rx = "none"
  /\ app \in {"stoprx", "joinrx", "free", "closed"} => tr \in {"none", "exited"}
  /\ app \in {"free", "closed"} => rx \in {"none", "done"}
  /\ freed => app = "closed"

ControlInv == TypeOK /\ QueuesReady /\ Joined

\* A new node of a stream is a node, and so is what a partial dequeue leaves.
LEMMA NodeType ==
  ASSUME NEW from \in Nat, NEW n \in Nat, NEW good \in BOOLEAN
  PROVE  Node(from, n, good) \in Nodes
BY DEF Node, Nodes

LEMMA ShrinkType ==
  ASSUME NEW node \in Nodes, NEW max \in Nat, NEW good \in BOOLEAN
  PROVE  Shrink(node, max, good) \in Nodes
<1> DEFINE l == node.lo + max
           o == node.ok /\ good
<1>1. l \in Nat /\ node.hi \in Nat
  BY DEF Nodes
<1>2. o \in BOOLEAN
  BY Zenon
<1>3. Shrink(node, max, good) = [node EXCEPT !.lo = l, !.ok = o]
  BY Zenon DEF Shrink
<1> HIDE DEF l, o
<1>4. [node EXCEPT !.lo = l, !.ok = o] \in Nodes
  BY <1>1, <1>2 DEF Nodes
<1> QED  BY <1>3, <1>4

LEMMA CopyType ==
  ASSUME NEW node, NEW max, NEW good \in CopyOutcomes(node, max)
  PROVE  good \in BOOLEAN
<1>1. CASE DataLen(node) - max > max /\ ~OverlapSafe
  BY <1>1, Zenon DEF CopyOutcomes
<1>2. CASE ~(DataLen(node) - max > max /\ ~OverlapSafe)
  BY <1>2, Zenon DEF CopyOutcomes
<1> QED  BY <1>1, <1>2

\* Initially nothing is queued and no thread runs.
LEMMA ControlInit == Init => ControlInv
<1> SUFFICES ASSUME Init PROVE ControlInv
  OBVIOUS
<1>1. TypeOK
  BY EmptySeq, FlagsAssumption DEF Init, TypeOK, ThreadTypes, QueueTypes, FlagTypes,
     HistoryTypes, AppStates, TrStates, RxStates
<1>2. QueuesReady
  BY DEF Init, QueuesReady
<1>3. Joined
  BY DEF Init, Joined
<1> QED  BY <1>1, <1>2, <1>3 DEF ControlInv

\* Every step of the application thread preserves the control invariant.
LEMMA ControlApp == ControlInv /\ (AppCall \/ AppStep) => ControlInv'
<1> SUFFICES ASSUME ControlInv, AppCall \/ AppStep PROVE ControlInv'
  OBVIOUS
<1> USE DEF ControlInv, TypeOK, appVars, trVars, queueVars, flagVars, waitVars,
            netVars, streamVars, histVars
<1> USE DEF ThreadTypes, AppStates, TrStates, RxStates
<1>1. CASE Connect
  BY <1>1 DEF Connect, QueueTypes, FlagTypes, HistoryTypes, QueuesReady, Joined
<1>2. CASE WaitForConnection
  <2>1. ThreadTypes'
    BY <1>2 DEF WaitForConnection
  <2>2. QueueTypes' /\ FlagTypes' /\ HistoryTypes'
    BY <1>2 DEF WaitForConnection, QueueTypes, FlagTypes, HistoryTypes
  <2>3. QueuesReady' /\ Joined'
    BY <1>2 DEF WaitForConnection, QueuesReady, Joined
  <2> QED  BY <2>1, <2>2, <2>3
<1>3. ASSUME NEW n \in WriteLens, Write(n) PROVE ControlInv'
  <2>1. /\ n \in Nat /\ Node(written, n, TRUE) \in Nodes
        /\ app_recv_queue' = Append(app_recv_queue, Node(written, n, TRUE))
    BY <1>3, LensAssumption, NodeType DEF Write, HistoryTypes
  <2>2. /\ app_recv_queue' \in Seq(Nodes) /\ app_recv_queue' # <<>>
        /\ app_recv_queue # <<>> => Head(app_recv_queue') = Head(app_recv_queue)
    BY <2>1, AppendFacts DEF QueueTypes
  <2>3. ThreadTypes' /\ Joined'
    BY <1>3 DEF Write, Joined
  <2>4. QueueTypes' /\ FlagTypes'
    BY <1>3, <2>2 DEF Write, QueueTypes, FlagTypes
  <2>5. HistoryTypes'
    BY <1>3, <2>1 DEF Write, HistoryTypes
  <2>6. QueuesReady'
    BY <1>3, <2>2 DEF Write, QueuesReady
  <2> QED  BY <2>3, <2>4, <2>5, <2>6
<1>4. CASE WriteBroadcast
  BY <1>4 DEF WriteBroadcast, Broadcast, QueueTypes, FlagTypes, HistoryTypes,
              QueuesReady, Joined
<1>5. ASSUME NEW m \in ReadMaxes, Read(m) PROVE ControlInv'
  BY <1>5, LensAssumption
     DEF Read, QueueTypes, FlagTypes, HistoryTypes, QueuesReady, Joined
<1>6. CASE ReadWait
  <2>1. ThreadTypes'
    BY <1>6 DEF ReadWait, ThreadTypes, AppStates, TrStates, RxStates
  <2>2. QueuesReady' /\ Joined'
    BY <1>6 DEF ReadWait, ThreadTypes, QueuesReady, Joined
  <2>3. QueueTypes' /\ FlagTypes' /\ HistoryTypes'
    BY <1>6 DEF ReadWait, QueueTypes, FlagTypes, HistoryTypes
  <2> QED  BY <2>1, <2>2, <2>3
<1>15. CASE ReadPartial
  <2>1. ThreadTypes'
    BY <1>15 DEF ReadPartial, ThreadTypes, AppStates, TrStates, RxStates
  <2>2. QueuesReady' /\ Joined'
    BY <1>15 DEF ReadPartial, ThreadTypes, QueuesReady, Joined
  <2>3. QueueTypes' /\ FlagTypes' /\ HistoryTypes'
    BY <1>15 DEF ReadPartial, QueueTypes, FlagTypes, HistoryTypes
  <2> QED  BY <2>1, <2>2, <2>3
<1>14. CASE ReadWhole
  <2>1. Head(app_send_queue) \in Nodes /\ Tail(app_send_queue) \in Seq(Nodes)
    BY <1>14, TailFacts DEF ReadWhole, QueueTypes
  <2>2. readUp' \in Nat
    BY <1>14, <2>1 DEF ReadWhole, Nodes
  <2>3. clean' \in BOOLEAN /\ eof' \in BOOLEAN
    BY <1>14, Zenon DEF ReadWhole, EofAfter
  <2>4. ThreadTypes' /\ Joined' /\ QueuesReady'
    BY <1>14 DEF ReadWhole, Joined, QueuesReady
  <2>5. QueueTypes' /\ FlagTypes' /\ HistoryTypes'
    BY <1>14, <2>1, <2>2, <2>3 DEF ReadWhole, QueueTypes, FlagTypes, HistoryTypes
  <2> QED  BY <2>4, <2>5
<1>7. CASE ReadCopy
  <2>1. app_send_queue # <<>> /\ Head(app_send_queue) \in Nodes
    BY <1>7, TailFacts DEF ReadCopy, QueueTypes, QueuesReady
  <2>2. PICK good \in CopyOutcomes(Head(app_send_queue), rdmax) :
          app_send_queue' = ReplaceHead(app_send_queue,
                              Shrink(Head(app_send_queue), rdmax, good))
    BY <1>7 DEF ReadCopy
  <2>3. app_send_queue' \in Seq(Nodes)
    <3>1. Shrink(Head(app_send_queue), rdmax, good) \in Nodes
      BY <2>1, CopyType, ShrinkType
    <3> QED  BY <2>1, <2>2, <3>1, ReplaceHeadFacts DEF QueueTypes
  <2>4. readUp' \in Nat
    BY <1>7, <2>1 DEF ReadCopy, Nodes
  <2>7. clean' \in BOOLEAN /\ eof' \in BOOLEAN
    BY <1>7, Zenon DEF ReadCopy, EofAfter
  <2>5. ThreadTypes' /\ Joined' /\ QueuesReady'
    BY <1>7 DEF ReadCopy, Joined, QueuesReady
  <2>6. QueueTypes' /\ FlagTypes' /\ HistoryTypes'
    BY <1>7, <2>3, <2>4, <2>7 DEF ReadCopy, QueueTypes, FlagTypes, HistoryTypes
  <2> QED  BY <2>5, <2>6
<1> USE DEF QueueTypes, FlagTypes, HistoryTypes, QueuesReady, Joined
<1>8. CASE Close
  BY <1>8 DEF Close
<1>9. CASE CloseBroadcast
  BY <1>9 DEF CloseBroadcast, Broadcast
<1>10. CASE JoinTransport
  BY <1>10 DEF JoinTransport
<1>11. CASE StopRecvThread
  BY <1>11 DEF StopRecvThread
<1>12. CASE JoinRecv
  BY <1>12 DEF JoinRecv
<1>13. CASE FreeContext
  BY <1>13, EmptySeq DEF FreeContext
<1> QED
  BY <1>1, <1>2, <1>3, <1>4, <1>5, <1>6, <1>7, <1>8, <1>9, <1>10, <1>11,
     <1>12, <1>13, <1>14, <1>15 DEF AppCall, AppStep

\* Every step of the transport thread preserves the control invariant.
LEMMA ControlTr == ControlInv /\ (TrStep \/ WaitTimeout) => ControlInv'
<1> SUFFICES ASSUME ControlInv, TrStep \/ WaitTimeout PROVE ControlInv'
  OBVIOUS
<1> USE DEF ControlInv, TypeOK, appVars, trVars, queueVars, flagVars, waitVars,
            netVars, streamVars, histVars
<1> USE DEF ThreadTypes, AppStates, TrStates, RxStates
<1>1. CASE SkeletonInit
  <2>1. ThreadTypes'
    BY <1>1 DEF SkeletonInit, Unblock, EINTR, ThreadTypes, AppStates,
       TrStates, RxStates
  <2>2. QueuesReady' /\ Joined'
    BY <1>1 DEF SkeletonInit, Unblock, EINTR, ThreadTypes, QueuesReady, Joined
  <2>3. QueueTypes' /\ FlagTypes' /\ HistoryTypes'
    BY <1>1 DEF SkeletonInit, Unblock, EINTR, QueueTypes, FlagTypes,
       HistoryTypes
  <2> QED  BY <2>1, <2>2, <2>3
<1>2. CASE SendSyn
  <2>1. ThreadTypes'
    BY <1>2 DEF SendSyn, ThreadTypes, AppStates, TrStates, RxStates
  <2>2. QueuesReady' /\ Joined'
    BY <1>2 DEF SendSyn, ThreadTypes, QueuesReady, Joined
  <2>3. QueueTypes' /\ HistoryTypes'
    BY <1>2 DEF SendSyn, QueueTypes, HistoryTypes
  <2>4. FlagTypes'
    BY <1>2 DEF SendSyn, FlagTypes
  <2> QED  BY <2>1, <2>2, <2>3, <2>4
<1>3. CASE Handshake
  <2>1. ThreadTypes'
    BY <1>3 DEF Handshake
  <2>6. HistoryTypes'
    BY <1>3 DEF Handshake, HistoryTypes
  <2>5. Joined' /\ QueuesReady'
    BY <1>3 DEF Handshake, Unblock, Joined, QueuesReady
  <2>2. FlagTypes'
    BY <1>3 DEF Handshake, FlagTypes, Unblock
  <2>3. network_recv_queue' \in Seq(Packet)
    BY <1>3, TailFacts DEF Handshake, QueueTypes
  <2>4. QueueTypes'
    BY <1>3, <2>3 DEF Handshake, QueueTypes
  <2> QED  BY <2>1, <2>2, <2>4, <2>5, <2>6
<1>4. CASE SignalConnected
  <2>1. blocking_waiters' \subseteq {"app"} /\ UNCHANGED data_ready_waiters
    BY <1>4 DEF SignalConnected, Signal
  <2>2. wflags' \subseteq ANY_EVENT /\ tr = "signal" /\ tr' = "wait"
    BY <1>4, FlagsAssumption DEF SignalConnected, EnterWait
  <2>3. ThreadTypes' /\ Joined' /\ QueuesReady'
    BY <1>4, <2>1, <2>2 DEF SignalConnected, Joined, QueuesReady
  <2>4. QueueTypes' /\ FlagTypes' /\ HistoryTypes'
    BY <1>4 DEF SignalConnected, QueueTypes, FlagTypes, HistoryTypes
  <2> QED  BY <2>3, <2>4
<1>5. CASE stcp_wait_for_event
  <2>1. /\ ReadyEvents \subseteq ANY_EVENT
        /\ APP_DATA \in ReadyEvents => app_recv_queue # <<>>
        /\ NETWORK_DATA \in ReadyEvents => network_recv_queue # <<>>
    BY DEF ReadyEvents, ANY_EVENT, APP_DATA, NETWORK_DATA, APP_CLOSE_REQUESTED
  <2>2. ThreadTypes' /\ Joined' /\ QueuesReady'
    BY <1>5, <2>1 DEF stcp_wait_for_event, Joined, QueuesReady
  <2>3. close_requested' \in BOOLEAN
    BY <1>5, Zenon DEF stcp_wait_for_event
  <2>4. QueueTypes' /\ FlagTypes' /\ HistoryTypes'
    BY <1>5, <2>3 DEF stcp_wait_for_event, QueueTypes, FlagTypes, HistoryTypes
  <2> QED  BY <2>2, <2>4
<1>6. CASE WaitSleep
  <2>1. ThreadTypes'
    BY <1>6 DEF WaitSleep, ThreadTypes, AppStates, TrStates, RxStates
  <2>2. QueuesReady' /\ Joined'
    BY <1>6 DEF WaitSleep, ThreadTypes, QueuesReady, Joined
  <2>3. QueueTypes' /\ FlagTypes' /\ HistoryTypes'
    BY <1>6 DEF WaitSleep, QueueTypes, FlagTypes, HistoryTypes
  <2> QED  BY <2>1, <2>2, <2>3
<1>18. CASE WaitTimeout
  <2>1. ThreadTypes'
    BY <1>18 DEF WaitTimeout, ThreadTypes, AppStates, TrStates, RxStates
  <2>2. QueuesReady' /\ Joined'
    BY <1>18 DEF WaitTimeout, ThreadTypes, QueuesReady, Joined
  <2>3. QueueTypes' /\ FlagTypes' /\ HistoryTypes'
    BY <1>18 DEF WaitTimeout, QueueTypes, FlagTypes, HistoryTypes
  <2> QED  BY <2>1, <2>2, <2>3
<1>7. CASE SkeletonLoop
  BY <1>7 DEF SkeletonLoop, EnterWait, QueueTypes, FlagTypes, HistoryTypes,
              QueuesReady, Joined
<1>8. ASSUME NEW m \in RecvMaxes, AppRecvPartial(m) PROVE ControlInv'
  <2>1. ThreadTypes' /\ Joined' /\ QueuesReady'
    BY <1>8, LensAssumption DEF AppRecvPartial, Joined, QueuesReady
  <2>2. QueueTypes' /\ FlagTypes' /\ HistoryTypes'
    BY <1>8 DEF AppRecvPartial, QueueTypes, FlagTypes, HistoryTypes
  <2> QED  BY <2>1, <2>2
<1>9. ASSUME NEW m \in RecvMaxes, AppRecvWhole(m) PROVE ControlInv'
  <2>1. Head(app_recv_queue) \in Nodes /\ Tail(app_recv_queue) \in Seq(Nodes)
    BY <1>9, TailFacts DEF AppRecvWhole, QueueTypes, QueuesReady
  <2>2. taken' \in Nat
    BY <1>9, <2>1 DEF AppRecvWhole, Nodes
  <2>3. clean' \in BOOLEAN
    BY <1>9, Zenon DEF AppRecvWhole
  <2>4. ThreadTypes' /\ Joined' /\ QueuesReady'
    BY <1>9 DEF AppRecvWhole, Joined, QueuesReady
  <2>5. QueueTypes' /\ FlagTypes' /\ HistoryTypes'
    BY <1>9, <2>1, <2>2, <2>3
       DEF AppRecvWhole, QueueTypes, FlagTypes, HistoryTypes
  <2> QED  BY <2>4, <2>5
<1>10. CASE AppRecvCopy
  <2>1. app_recv_queue # <<>> /\ Head(app_recv_queue) \in Nodes
    BY <1>10, TailFacts DEF AppRecvCopy, QueueTypes, QueuesReady
  <2>2. PICK good \in CopyOutcomes(Head(app_recv_queue), trmax) :
          app_recv_queue' = ReplaceHead(app_recv_queue,
                              Shrink(Head(app_recv_queue), trmax, good))
    BY <1>10 DEF AppRecvCopy
  <2>3. app_recv_queue' \in Seq(Nodes)
    <3>1. Shrink(Head(app_recv_queue), trmax, good) \in Nodes
      BY <2>1, CopyType, ShrinkType
    <3> QED  BY <2>1, <2>2, <3>1, ReplaceHeadFacts DEF QueueTypes
  <2>4. taken' \in Nat
    BY <1>10, <2>1 DEF AppRecvCopy, Nodes
  <2>5. clean' \in BOOLEAN
    BY <1>10, Zenon DEF AppRecvCopy
  <2>6. ThreadTypes' /\ Joined' /\ QueuesReady'
    BY <1>10 DEF AppRecvCopy, Joined, QueuesReady
  <2>7. QueueTypes' /\ FlagTypes' /\ HistoryTypes'
    BY <1>10, <2>3, <2>4, <2>5
       DEF AppRecvCopy, QueueTypes, FlagTypes, HistoryTypes
  <2> QED  BY <2>6, <2>7
<1>11. ASSUME NEW m \in NetRecvMaxes, NetworkRecv(m) PROVE ControlInv'
  <2> DEFINE p == Head(network_recv_queue)
  <2>1. p \in Packet /\ Tail(network_recv_queue) \in Seq(Packet)
    BY <1>11, TailFacts DEF NetworkRecv, QueueTypes, QueuesReady
  <2>2. p.len \in Nat
    BY <2>1 DEF Packet
  <2>3. /\ app_send_queue' \in Seq(Nodes)
        /\ app_send_queue # <<>> =>
             app_send_queue' # <<>> /\ Head(app_send_queue') = Head(app_send_queue)
    <3>1. \A n \in Nat, good \in BOOLEAN : Node(sentUp, n, good) \in Nodes
      BY NodeType DEF HistoryTypes
    <3>2. \/ UNCHANGED app_send_queue
          \/ \E n \in Nat, good \in BOOLEAN :
               app_send_queue' = Append(app_send_queue, Node(sentUp, n, good))
      BY <1>11, <2>2, Zenon DEF NetworkRecv
    <3>3. CASE UNCHANGED app_send_queue
      BY <3>3 DEF QueueTypes
    <3>4. ASSUME NEW n \in Nat, NEW good \in BOOLEAN,
                 app_send_queue' = Append(app_send_queue, Node(sentUp, n, good))
          PROVE  <2>3!1 /\ <2>3!2
      BY <3>1, <3>4, AppendFacts DEF QueueTypes
    <3> QED  BY <3>2, <3>3, <3>4
  <2>4. sentUp' \in {sentUp, sentUp + p.len} /\ finSeen' \in {finSeen, TRUE}
    BY <1>11, Zenon DEF NetworkRecv
  <2>6. /\ tr = "handle" /\ tr' \in {"upbcast", "unwind", "handle"}
        /\ ev' = ev \ {NETWORK_DATA} /\ APP_DATA \notin ev
    BY <1>11 DEF NetworkRecv
  <2>7. /\ network_recv_queue' = Tail(network_recv_queue)
        /\ UNCHANGED <<transport, appVars, trmax, wflags, rx, app_recv_queue, flagVars,
                       waitVars, netVars, written, taken, readUp, established,
                       clean, closeEvents>>
    BY <1>11 DEF NetworkRecv
  <2> HIDE DEF p
  <2>8. ThreadTypes' /\ Joined'
    BY <2>6, <2>7 DEF Joined
  <2>9. QueuesReady'
    BY <2>3, <2>6, <2>7 DEF QueuesReady
  <2>10. QueueTypes' /\ FlagTypes'
    BY <2>1, <2>3, <2>7 DEF QueueTypes, FlagTypes
  <2>11. sentUp' \in Nat
    BY <2>2, <2>4 DEF HistoryTypes
  <2>12. HistoryTypes'
    BY <2>4, <2>7, <2>11 DEF HistoryTypes
  <2> QED  BY <2>8, <2>9, <2>10, <2>12
<1>12. CASE UpBroadcast
  BY <1>12 DEF UpBroadcast, Broadcast, QueueTypes, FlagTypes, HistoryTypes,
               QueuesReady, Joined
<1>13. CASE LoopEnd
  <2>1. wflags' \subseteq ANY_EVENT /\ tr' \in {"unwind", "wait"}
    BY <1>13, FlagsAssumption DEF LoopEnd, EnterWait
  <2>2. ThreadTypes' /\ Joined' /\ QueuesReady'
    BY <1>13, <2>1 DEF LoopEnd, Joined, QueuesReady
  <2>3. QueueTypes' /\ FlagTypes' /\ HistoryTypes'
    BY <1>13 DEF LoopEnd, QueueTypes, FlagTypes, HistoryTypes
  <2> QED  BY <2>2, <2>3
<1>14. CASE Unwind
  <2>1. ThreadTypes' /\ Joined' /\ QueuesReady'
    BY <1>14 DEF Unwind, Unblock, Joined, QueuesReady
  <2>2. QueueTypes' /\ HistoryTypes'
    BY <1>14 DEF Unwind, QueueTypes, HistoryTypes
  <2>4. \A e \in {0, EINTR, ETIMEDOUT} :
          FailureErrno(e) \in {ETIMEDOUT, ECONNREFUSED} /\ FailureErrno(e) # EINTR
    BY DEF FailureErrno, EINTR, ETIMEDOUT, ECONNREFUSED
  <2>3. FlagTypes'
    BY <1>14, <2>4 DEF Unwind, Unblock, FlagTypes
  <2> QED  BY <2>1, <2>2, <2>3
<1>15. CASE SignalFailed
  <2>1. ThreadTypes'
    BY <1>15 DEF SignalFailed, Signal, ThreadTypes, AppStates, TrStates,
       RxStates
  <2>2. QueuesReady' /\ Joined'
    BY <1>15 DEF SignalFailed, Signal, ThreadTypes, QueuesReady, Joined
  <2>3. QueueTypes' /\ FlagTypes' /\ HistoryTypes'
    BY <1>15 DEF SignalFailed, Signal, QueueTypes, FlagTypes, HistoryTypes
  <2> QED  BY <2>1, <2>2, <2>3
<1>16. CASE EnqueueEof
  <2>1. Node(sentUp, 0, TRUE) \in Nodes
    BY NodeType DEF HistoryTypes
  <2>2. /\ app_send_queue' \in Seq(Nodes)
        /\ app_send_queue # <<>> =>
             app_send_queue' # <<>> /\ Head(app_send_queue') = Head(app_send_queue)
    BY <1>16, <2>1, AppendFacts DEF EnqueueEof, QueueTypes
  <2>3. ThreadTypes' /\ Joined' /\ QueuesReady'
    BY <1>16, <2>2 DEF EnqueueEof, Joined, QueuesReady
  <2>4. QueueTypes'
    BY <1>16, <2>2 DEF EnqueueEof, QueueTypes
  <2>5. FlagTypes' /\ HistoryTypes'
    BY <1>16 DEF EnqueueEof, FlagTypes, HistoryTypes
  <2> QED  BY <2>3, <2>4, <2>5
<1>17. CASE ExitBroadcast
  BY <1>17 DEF ExitBroadcast, Broadcast, QueueTypes, FlagTypes, HistoryTypes,
               QueuesReady, Joined
<1> QED
  BY <1>1, <1>2, <1>3, <1>4, <1>5, <1>6, <1>7, <1>8, <1>9, <1>10, <1>11,
     <1>12, <1>13, <1>14, <1>15, <1>16, <1>17, <1>18 DEF TrStep

\* Every step of the receive thread, of the peer and of the threads library
\* preserves the control invariant.
LEMMA ControlRx == ControlInv /\ (RxStep \/ Peer \/ SpuriousWakeup) => ControlInv'
<1> SUFFICES ASSUME ControlInv, RxStep \/ Peer \/ SpuriousWakeup
             PROVE  ControlInv'
  OBVIOUS
<1> USE DEF ControlInv, TypeOK, appVars, trVars, queueVars, flagVars, waitVars,
            netVars, streamVars, histVars
<1>1. CASE Poll
  <2>1. ThreadTypes'
    BY <1>1 DEF Poll, ThreadTypes, AppStates, TrStates, RxStates
  <2>2. QueuesReady' /\ Joined'
    BY <1>1 DEF Poll, ThreadTypes, QueuesReady, Joined
  <2>3. QueueTypes' /\ FlagTypes' /\ HistoryTypes'
    BY <1>1 DEF Poll, QueueTypes, FlagTypes, HistoryTypes
  <2> QED  BY <2>1, <2>2, <2>3
<1>2. CASE TcpConnect
  <2>1. ThreadTypes'
    BY <1>2 DEF TcpConnect, ThreadTypes, AppStates, TrStates, RxStates
  <2>2. QueuesReady' /\ Joined'
    BY <1>2 DEF TcpConnect, ThreadTypes, QueuesReady, Joined
  <2>3. QueueTypes' /\ HistoryTypes'
    BY <1>2 DEF TcpConnect, QueueTypes, HistoryTypes
  <2>4. FlagTypes'
    BY <1>2 DEF TcpConnect, FlagTypes
  <2> QED  BY <2>1, <2>2, <2>3, <2>4
<1>3. CASE RecvPacket \/ RecvError
  <2>1. /\ network_recv_queue' \in Seq(Packet) /\ net' \in Seq(Packet)
        /\ network_recv_queue # <<>> => network_recv_queue' # <<>>
    <3>1. ErrorPacket \in Packet
      BY DEF ErrorPacket, Packet
    <3>2. CASE RecvError
      BY <3>1, <3>2, AppendFacts DEF RecvError, QueueTypes
    <3>3. CASE RecvPacket /\ net # <<>>
      <4>1. Head(net) \in Packet /\ Tail(net) \in Seq(Packet)
        BY <3>3, TailFacts DEF QueueTypes
      <4>2. net' = Tail(net) /\ network_recv_queue' = Append(network_recv_queue, Head(net))
        BY <3>3 DEF RecvPacket
      <4> QED  BY <4>1, <4>2, AppendFacts DEF QueueTypes
    <3>4. CASE RecvPacket /\ net = <<>>
      BY <3>4 DEF RecvPacket, QueueTypes
    <3> QED  BY <1>3, <3>2, <3>3, <3>4
  <2>2. QueueTypes' /\ QueuesReady'
    BY <1>3, <2>1 DEF RecvPacket, RecvError, QueueTypes, QueuesReady
  <2>5. rx \in {"reading", "err"} /\ rx' \in {"nbcast", "err", "errbcast"}
    BY <1>3 DEF RecvPacket, RecvError
  <2>6. UNCHANGED <<transport, appVars, trVars, flagVars, waitVars>>
    BY <1>3 DEF RecvPacket, RecvError
  <2>3. ThreadTypes' /\ Joined'
    BY <2>5, <2>6 DEF ThreadTypes, RxStates, Joined
  <2>4. FlagTypes' /\ HistoryTypes'
    BY <1>3 DEF RecvPacket, RecvError, FlagTypes, HistoryTypes
  <2> QED  BY <2>2, <2>3, <2>4
<1>4. CASE RecvBroadcast
  <2>1. ThreadTypes'
    BY <1>4 DEF RecvBroadcast, Broadcast, ThreadTypes, AppStates, TrStates,
       RxStates
  <2>2. QueuesReady' /\ Joined'
    BY <1>4 DEF RecvBroadcast, Broadcast, ThreadTypes, QueuesReady, Joined
  <2>3. QueueTypes' /\ FlagTypes' /\ HistoryTypes'
    BY <1>4 DEF RecvBroadcast, Broadcast, QueueTypes, FlagTypes, HistoryTypes
  <2> QED  BY <2>1, <2>2, <2>3
<1>5. CASE PeerStart
  <2>1. ThreadTypes'
    BY <1>5 DEF PeerStart, ThreadTypes, AppStates, TrStates, RxStates
  <2>2. QueuesReady' /\ Joined'
    BY <1>5 DEF PeerStart, ThreadTypes, QueuesReady, Joined
  <2>3. QueueTypes' /\ FlagTypes' /\ HistoryTypes'
    BY <1>5 DEF PeerStart, QueueTypes, FlagTypes, HistoryTypes
  <2> QED  BY <2>1, <2>2, <2>3
<1>8. CASE PeerClose
  <2>1. ThreadTypes'
    BY <1>8 DEF PeerClose, ThreadTypes, AppStates, TrStates, RxStates
  <2>2. QueuesReady' /\ Joined'
    BY <1>8 DEF PeerClose, ThreadTypes, QueuesReady, Joined
  <2>3. QueueTypes' /\ FlagTypes' /\ HistoryTypes'
    BY <1>8 DEF PeerClose, QueueTypes, FlagTypes, HistoryTypes
  <2> QED  BY <2>1, <2>2, <2>3
<1>6. ASSUME NEW q \in PeerPackets, PeerSend(q) PROVE ControlInv'
  <2>1. q \in Packet
    BY <1>6, LensAssumption DEF PeerPackets, Packet
  <2>2. net' \in Seq(Packet)
    BY <1>6, <2>1, AppendFacts DEF PeerSend, QueueTypes
  <2>3. QueueTypes' /\ QueuesReady'
    BY <1>6, <2>2 DEF PeerSend, QueueTypes, QueuesReady
  <2>4. ThreadTypes' /\ Joined'
    BY <1>6 DEF PeerSend, ThreadTypes, Joined
  <2>5. HistoryTypes'
    BY <1>6 DEF PeerSend, HistoryTypes
  <2>6. peerSent' \in Nat /\ partial' = FALSE
    BY <1>6 DEF PeerSend, FlagTypes
  <2>7. FlagTypes'
    BY <1>6, <2>6 DEF PeerSend, FlagTypes
  <2> QED  BY <2>3, <2>4, <2>5, <2>7
<1>7. CASE SpuriousWakeup
  <2>4. /\ data_ready_waiters' \subseteq data_ready_waiters
        /\ blocking_waiters' \subseteq blocking_waiters
        /\ UNCHANGED <<transport, appVars, trVars, rx>>
    BY <1>7 DEF SpuriousWakeup
  <2>1. ThreadTypes'
    BY <2>4 DEF ThreadTypes
  <2>2. QueuesReady' /\ Joined'
    BY <1>7 DEF SpuriousWakeup, ThreadTypes, QueuesReady, Joined
  <2>3. QueueTypes' /\ FlagTypes' /\ HistoryTypes'
    BY <1>7 DEF SpuriousWakeup, QueueTypes, FlagTypes, HistoryTypes
  <2> QED  BY <2>1, <2>2, <2>3
<1> QED
  BY <1>1, <1>2, <1>3, <1>4, <1>5, <1>6, <1>7, <1>8 DEF RxStep, Peer

\* The control invariant is inductive.
LEMMA ControlStep == ControlInv /\ [Next]_vars => ControlInv'
<1> SUFFICES ASSUME ControlInv, [Next]_vars PROVE ControlInv'
  OBVIOUS
<1>1. CASE Next
  BY <1>1, ControlApp, ControlTr, ControlRx DEF Next
<1>2. CASE UNCHANGED vars
  <2>1. TypeOK'
    BY <1>2 DEF vars, appVars, trVars, queueVars, flagVars, waitVars, netVars,
       streamVars, histVars, ControlInv, TypeOK, ThreadTypes, QueueTypes,
       FlagTypes, HistoryTypes
  <2>2. QueuesReady' /\ Joined'
    BY <1>2 DEF vars, appVars, trVars, queueVars, flagVars, ControlInv,
       QueuesReady, Joined
  <2> QED  BY <2>1, <2>2 DEF ControlInv
<1> QED  BY <1>1, <1>2

\* The threads, the queues and the fields of the context keep their types,
\* whatever the lengths and the bounds are.
THEOREM TypeCorrect == Spec => []TypeOK
<1>1. ControlInv => TypeOK
  BY DEF ControlInv
<1> QED  BY ControlInit, ControlStep, <1>1, PTL DEF Spec

-----------------------------------------------------------------------------
(* No use after free *)

\* Only a thread at its wait loop is a waiter of that loop's condition.
Waiting ==
  /\ "tr" \in data_ready_waiters => tr = "wait"
  /\ "app" \in data_ready_waiters => app = "read"
  /\ "app" \in blocking_waiters => app = "connecting"

LEMMA WaitingStep == ControlInv /\ Waiting /\ [Next]_vars => Waiting'
<1> SUFFICES ASSUME Joined, Waiting, [Next]_vars PROVE Waiting'
  BY DEF ControlInv
<1> USE DEF Joined, Waiting, appVars, trVars, flagVars, waitVars, Broadcast,
            Signal
<1>1. CASE AppCall
  BY <1>1 DEF AppCall, Connect, Write, Read, Close
<1>2. CASE AppStep
  BY <1>2 DEF AppStep, WaitForConnection, WriteBroadcast, ReadWait, ReadPartial,
     ReadWhole, ReadCopy, CloseBroadcast, JoinTransport, StopRecvThread,
     JoinRecv, FreeContext
<1>3. CASE TrStep \/ WaitTimeout
  BY <1>3 DEF TrStep, WaitTimeout, SkeletonInit, SendSyn, Handshake,
     SignalConnected, EnterWait, stcp_wait_for_event, WaitSleep, SkeletonLoop,
     AppRecvPartial, AppRecvWhole, AppRecvCopy, NetworkRecv, UpBroadcast,
     LoopEnd, Unwind, SignalFailed, EnqueueEof, ExitBroadcast
<1>4. CASE RxStep
  BY <1>4 DEF RxStep, Poll, TcpConnect, RecvPacket, RecvError, RecvBroadcast
<1>5. CASE Peer \/ SpuriousWakeup
  BY <1>5 DEF Peer, PeerStart, PeerSend, PeerClose, SpuriousWakeup
<1>6. CASE UNCHANGED vars
  BY <1>6 DEF vars
<1> QED  BY <1>1, <1>2, <1>3, <1>4, <1>5, <1>6 DEF Next

\* myclose frees the context only after both threads have left it and nobody
\* sleeps on its conditions, in every execution of every instance.
THEOREM ContextFreedLast == Spec => []NoUseAfterFree
<1>1. Init => ControlInv /\ Waiting
  BY ControlInit DEF Init, Waiting
<1>2. ControlInv /\ Waiting /\ [Next]_vars => ControlInv' /\ Waiting'
  BY ControlStep, WaitingStep
<1>3. ControlInv /\ Waiting => NoUseAfterFree
  BY DEF ControlInv, TypeOK, ThreadTypes, Joined, Waiting, NoUseAfterFree
<1> QED  BY <1>1, <1>2, <1>3, PTL DEF Spec

-----------------------------------------------------------------------------
(* No lost wake-up *)

\* The events a waiting transport could be given depend on its flags, on the
\* two queues and on close_requested only.
LEMMA ReadySame ==
  UNCHANGED <<wflags, app_recv_queue, network_recv_queue, close_requested>>
    => ReadyEvents' = ReadyEvents
BY DEF ReadyEvents, CloseReady

LEMMA TransportWokenStep ==
  ControlInv /\ Waiting /\ TransportWoken /\ [Next]_vars => TransportWoken'
<1> SUFFICES ASSUME Joined, Waiting, TransportWoken, [Next]_vars
             PROVE  TransportWoken'
  BY DEF ControlInv
<1> USE DEF Joined, Waiting, TransportWoken, appVars, trVars, queueVars,
            flagVars, waitVars, Broadcast, Signal
<1>1. CASE AppCall
  BY <1>1, ReadySame DEF AppCall, Connect, Write, Read, Close
<1>2. CASE AppStep
  BY <1>2, ReadySame DEF AppStep, WaitForConnection, WriteBroadcast, ReadWait, ReadPartial,
     ReadWhole, ReadCopy, CloseBroadcast, JoinTransport, StopRecvThread,
     JoinRecv, FreeContext
<1>3. CASE TrStep \/ WaitTimeout
  BY <1>3, ReadySame DEF TrStep, WaitTimeout, SkeletonInit, SendSyn, Handshake,
     SignalConnected, EnterWait, stcp_wait_for_event, WaitSleep, SkeletonLoop,
     AppRecvPartial, AppRecvWhole, AppRecvCopy, NetworkRecv, UpBroadcast,
     LoopEnd, Unwind, SignalFailed, EnqueueEof, ExitBroadcast
<1>4. CASE RxStep
  BY <1>4, ReadySame DEF RxStep, Poll, TcpConnect, RecvPacket, RecvError, RecvBroadcast
<1>5. CASE Peer \/ SpuriousWakeup
  BY <1>5, ReadySame DEF Peer, PeerStart, PeerSend, PeerClose, SpuriousWakeup
<1>6. CASE UNCHANGED vars
  BY <1>6, ReadySame DEF vars
<1> QED  BY <1>1, <1>2, <1>3, <1>4, <1>5, <1>6 DEF Next

LEMMA ReaderWokenStep ==
  ControlInv /\ Waiting /\ ReaderWoken /\ [Next]_vars => ReaderWoken'
<1> SUFFICES ASSUME Joined, Waiting, ReaderWoken, [Next]_vars
             PROVE  ReaderWoken'
  BY DEF ControlInv
<1> USE DEF Joined, Waiting, ReaderWoken, appVars, trVars, queueVars, waitVars,
            Broadcast, Signal
<1>1. CASE AppCall
  BY <1>1 DEF AppCall, Connect, Write, Read, Close
<1>2. CASE AppStep
  BY <1>2 DEF AppStep, WaitForConnection, WriteBroadcast, ReadWait, ReadPartial,
     ReadWhole, ReadCopy, CloseBroadcast, JoinTransport, StopRecvThread,
     JoinRecv, FreeContext
<1>3. CASE SkeletonInit \/ SendSyn \/ Handshake
             \/ stcp_wait_for_event \/ WaitSleep \/ WaitTimeout
  BY <1>3 DEF SkeletonInit, SendSyn, Handshake, EnterWait,
     stcp_wait_for_event, WaitSleep, WaitTimeout
<1>7. CASE \/ \E m \in RecvMaxes : AppRecvPartial(m) \/ AppRecvWhole(m)
           \/ AppRecvCopy
  BY <1>7 DEF AppRecvPartial, AppRecvWhole, AppRecvCopy
<1>8. CASE \E m \in NetRecvMaxes : NetworkRecv(m)
  BY <1>8 DEF NetworkRecv
<1>9. CASE SkeletonLoop \/ UpBroadcast \/ LoopEnd \/ Unwind
             \/ EnqueueEof \/ ExitBroadcast
  BY <1>9 DEF SkeletonLoop, UpBroadcast, LoopEnd, EnterWait, Unwind,
     EnqueueEof, ExitBroadcast
<1>10. CASE SignalConnected \/ SignalFailed
  BY <1>10 DEF SignalConnected, SignalFailed, EnterWait
<1>4. CASE RxStep
  BY <1>4 DEF RxStep, Poll, TcpConnect, RecvPacket, RecvError, RecvBroadcast
<1>5. CASE Peer \/ SpuriousWakeup
  BY <1>5 DEF Peer, PeerStart, PeerSend, PeerClose, SpuriousWakeup
<1>6. CASE UNCHANGED vars
  BY <1>6 DEF vars
<1> QED
  BY <1>1, <1>2, <1>3, <1>4, <1>5, <1>6, <1>7, <1>8, <1>9, <1>10
  DEF Next, TrStep

LEMMA ConnectorWokenStep ==
  ControlInv /\ Waiting /\ ConnectorWoken /\ [Next]_vars => ConnectorWoken'
<1> SUFFICES ASSUME Joined, Waiting, ConnectorWoken, [Next]_vars,
                    blocking_waiters \subseteq {"app"}
             PROVE  ConnectorWoken'
  BY DEF ControlInv, TypeOK, ThreadTypes
<1> USE DEF Joined, Waiting, ConnectorWoken, appVars, trVars, flagVars,
            waitVars, Broadcast, Unblock
<1>1. CASE AppCall
  BY <1>1 DEF AppCall, Connect, Write, Read, Close
<1>2. CASE AppStep
  BY <1>2 DEF AppStep, WaitForConnection, WriteBroadcast, ReadWait, ReadPartial,
     ReadWhole, ReadCopy, CloseBroadcast, JoinTransport, StopRecvThread,
     JoinRecv, FreeContext
<1>3. CASE SkeletonInit \/ SendSyn \/ Handshake
             \/ stcp_wait_for_event \/ WaitSleep \/ WaitTimeout
  BY <1>3 DEF SkeletonInit, SendSyn, Handshake, EnterWait,
     stcp_wait_for_event, WaitSleep, WaitTimeout
<1>7. CASE \/ \E m \in RecvMaxes : AppRecvPartial(m) \/ AppRecvWhole(m)
           \/ AppRecvCopy
  BY <1>7 DEF AppRecvPartial, AppRecvWhole, AppRecvCopy
<1>8. CASE \E m \in NetRecvMaxes : NetworkRecv(m)
  BY <1>8 DEF NetworkRecv
<1>9. CASE SkeletonLoop \/ UpBroadcast \/ LoopEnd \/ Unwind
             \/ EnqueueEof \/ ExitBroadcast
  BY <1>9 DEF SkeletonLoop, UpBroadcast, LoopEnd, EnterWait, Unwind,
     EnqueueEof, ExitBroadcast
<1>10. CASE SignalConnected \/ SignalFailed
  <2>1. blocking_waiters' = {}
    BY <1>10 DEF SignalConnected, SignalFailed, Signal
  <2> QED  BY <2>1
<1>4. CASE RxStep
  BY <1>4 DEF RxStep, Poll, TcpConnect, RecvPacket, RecvError, RecvBroadcast
<1>5. CASE Peer \/ SpuriousWakeup
  BY <1>5 DEF Peer, PeerStart, PeerSend, PeerClose, SpuriousWakeup
<1>6. CASE UNCHANGED vars
  BY <1>6 DEF vars
<1> QED
  BY <1>1, <1>2, <1>3, <1>4, <1>5, <1>6, <1>7, <1>8, <1>9, <1>10
  DEF Next, TrStep

\* None of the three wait loops sleeps through what it waits for: the broadcast
\* that follows each unlock is still to come.
THEOREM WakeupsNotLost == Spec => []NoLostWakeup
<1> DEFINE WakeInv == ControlInv /\ Waiting /\ NoLostWakeup
<1>1. Init => WakeInv
  BY ControlInit DEF Init, Waiting, NoLostWakeup, TransportWoken, ReaderWoken,
     ConnectorWoken
<1>2. WakeInv /\ [Next]_vars => WakeInv'
  BY ControlStep, WaitingStep, TransportWokenStep, ReaderWokenStep,
     ConnectorWokenStep DEF NoLostWakeup
<1>3. WakeInv => NoLostWakeup
  OBVIOUS
<1> QED  BY <1>1, <1>2, <1>3, PTL DEF Spec

-----------------------------------------------------------------------------
(* myconnect reports success only for an established connection *)

\* What transport_thread_func reports for a transport that gave up is an error.
LEMMA FailureReported ==
  \A e \in {0, EINTR, ETIMEDOUT} :
    FailureErrno(e) \in {ETIMEDOUT, ECONNREFUSED} /\ FailureErrno(e) # EINTR
BY DEF FailureErrno, EINTR, ETIMEDOUT, ECONNREFUSED

Reported == ~blocking /\ stcp_errno = 0 => established

LEMMA ReportedStep ==
  Reported /\ SuccessMeansEstablished /\ [Next]_vars
    => Reported' /\ SuccessMeansEstablished'
<1> SUFFICES ASSUME Reported, SuccessMeansEstablished, [Next]_vars
             PROVE  Reported' /\ SuccessMeansEstablished'
  OBVIOUS
<1> USE DEF Reported, SuccessMeansEstablished, appVars, flagVars, histVars
<1>1. CASE AppCall
  BY <1>1 DEF AppCall, Connect, Write, Read, Close
<1>2. CASE AppStep
  BY <1>2 DEF AppStep, WaitForConnection, WriteBroadcast, ReadWait, ReadPartial,
     ReadWhole, ReadCopy, CloseBroadcast, JoinTransport, StopRecvThread,
     JoinRecv, FreeContext
<1>3. CASE SkeletonInit \/ Handshake
  BY <1>3 DEF SkeletonInit, Handshake, Unblock
<1>4. CASE Unwind
  BY <1>4, FailureReported DEF Unwind, Unblock, ETIMEDOUT, ECONNREFUSED
<1>5. CASE SendSyn \/ SignalConnected \/ stcp_wait_for_event \/ WaitSleep
             \/ SkeletonLoop \/ AppRecvCopy \/ UpBroadcast \/ LoopEnd
             \/ SignalFailed \/ EnqueueEof \/ ExitBroadcast \/ WaitTimeout
  BY <1>5 DEF SendSyn, SignalConnected, stcp_wait_for_event, WaitSleep,
     SkeletonLoop, AppRecvCopy, UpBroadcast, LoopEnd, SignalFailed, EnqueueEof,
     ExitBroadcast, WaitTimeout
<1>6. CASE \/ \E m \in RecvMaxes : AppRecvPartial(m) \/ AppRecvWhole(m)
           \/ \E m \in NetRecvMaxes : NetworkRecv(m)
  BY <1>6 DEF AppRecvPartial, AppRecvWhole, NetworkRecv
<1>7. CASE RxStep
  BY <1>7 DEF RxStep, Poll, TcpConnect, RecvPacket, RecvError, RecvBroadcast
<1>8. CASE Peer \/ SpuriousWakeup
  BY <1>8 DEF Peer, PeerStart, PeerSend, PeerClose, SpuriousWakeup
<1>9. CASE UNCHANGED vars
  BY <1>9 DEF vars
<1> QED
  BY <1>1, <1>2, <1>3, <1>4, <1>5, <1>6, <1>7, <1>8, <1>9 DEF Next, TrStep

\* myconnect returns 0 only when the transport layer has established the
\* connection, whatever errno it left behind.
THEOREM ConnectSuccess == Spec => []SuccessMeansEstablished
<1>1. Init => Reported /\ SuccessMeansEstablished
  BY DEF Init, Reported, SuccessMeansEstablished
<1> QED  BY <1>1, ReportedStep, PTL DEF Spec

-----------------------------------------------------------------------------
(* Streams in order *)

\* An enqueue extends the stream a queue holds.
LEMMA HoldsAppend ==
  ASSUME NEW q \in Seq(Nodes), NEW from \in Nat, NEW to \in Nat, NEW n \in Nat,
         NEW good \in BOOLEAN, Holds(q, from, to)
  PROVE  Holds(Append(q, Node(to, n, good)), from, to + n)
<1> DEFINE e == Node(to, n, good)
           r == Append(q, e)
<1>1. e \in Nodes /\ e.lo = to /\ e.hi = to + n
  BY NodeType DEF Node
<1> HIDE DEF e
<1>2. /\ r \in Seq(Nodes) /\ Len(r) = Len(q) + 1 /\ r[Len(q) + 1] = e
      /\ \A i \in 1..Len(q) : r[i] = q[i]
  BY <1>1, AppendProperties
<1>3. Len(q) \in Nat /\ DOMAIN q = 1..Len(q) /\ DOMAIN r = 1..(Len(q) + 1)
  BY <1>2, LenProperties
<1>4. r # <<>> /\ (q = <<>> => Len(q) = 0) /\ (q # <<>> => Len(q) > 0)
  BY <1>1, <1>3, AppendFacts, EmptySeq
<1>5. r[1].lo = from
  BY <1>1, <1>2, <1>3, <1>4 DEF Holds
<1>6. r[Len(r)].hi = to + n
  BY <1>1, <1>2
<1>7. ASSUME NEW i \in DOMAIN r PROVE r[i].lo <= r[i].hi
  BY <1>1, <1>2, <1>3 DEF Holds
<1>8. ASSUME NEW i \in DOMAIN r, i + 1 \in DOMAIN r PROVE r[i].hi = r[i + 1].lo
  <2>1. CASE i = Len(q)
    BY <1>1, <1>2, <1>3, <1>4, <1>8, <2>1 DEF Holds
  <2>2. CASE i < Len(q)
    BY <1>2, <1>3, <1>8, <2>2 DEF Holds
  <2> QED  BY <1>3, <1>8, <2>1, <2>2
<1> QED  BY <1>4, <1>5, <1>6, <1>7, <1>8 DEF Holds, e

\* Removing the first node advances the stream to that node's end.
LEMMA HoldsTail ==
  ASSUME NEW q \in Seq(Nodes), q # <<>>, NEW from \in Nat, NEW to \in Nat,
         Holds(q, from, to)
  PROVE  /\ Holds(Tail(q), Head(q).hi, to)
         /\ Head(q).lo = from /\ Head(q).lo <= Head(q).hi
<1> DEFINE r == Tail(q)
<1>1. /\ Head(q) = q[1] /\ Len(q) \in Nat /\ Len(q) > 0
      /\ DOMAIN q = 1..Len(q)
  BY EmptySeq, LenProperties
<1>2. /\ r \in Seq(Nodes) /\ Len(r) = Len(q) - 1
      /\ \A i \in 1..Len(r) : r[i] = q[i + 1]
  BY HeadTailProperties
<1> HIDE DEF r
<1>3. DOMAIN r = 1..(Len(q) - 1) /\ (r = <<>> <=> Len(q) = 1)
  <2>1. DOMAIN r = 1..Len(r) /\ (r = <<>> <=> Len(r) = 0)
    BY <1>2, LenProperties, EmptySeq
  <2> QED  BY <1>1, <1>2, <2>1
<1>4. Head(q).lo = from /\ Head(q).lo <= Head(q).hi
  BY <1>1 DEF Holds
<1>5. r = <<>> => Head(q).hi = to
  BY <1>1, <1>3 DEF Holds
<1>6. r # <<>> => r[1].lo = Head(q).hi /\ r[Len(r)].hi = to
  <2> SUFFICES ASSUME r # <<>> PROVE r[1].lo = Head(q).hi /\ r[Len(r)].hi = to
    OBVIOUS
  <2>1. Len(q) > 1 /\ Len(r) \in 1..Len(r) /\ 1 \in 1..Len(r)
    BY <1>1, <1>2, <1>3
  <2>2. r[1] = q[2] /\ r[Len(r)] = q[Len(q)]
    BY <1>1, <1>2, <2>1
  <2>3. q[1].hi = q[1 + 1].lo
    BY <1>1, <2>1 DEF Holds
  <2> QED  BY <1>1, <2>2, <2>3 DEF Holds
<1>7. ASSUME NEW i \in DOMAIN r PROVE r[i].lo <= r[i].hi
  <2>1. i + 1 \in DOMAIN q /\ r[i] = q[i + 1]
    BY <1>1, <1>2, <1>3, <1>7
  <2> QED  BY <2>1 DEF Holds
<1>8. ASSUME NEW i \in DOMAIN r, i + 1 \in DOMAIN r PROVE r[i].hi = r[i + 1].lo
  <2>1. i + 1 \in DOMAIN q /\ (i + 1) + 1 \in DOMAIN q
    BY <1>1, <1>3, <1>8
  <2>2. r[i] = q[i + 1] /\ r[i + 1] = q[(i + 1) + 1]
    BY <1>1, <1>2, <1>3, <1>8
  <2> QED  BY <2>1, <2>2 DEF Holds
<1> QED  BY <1>4, <1>5, <1>6, <1>7, <1>8 DEF Holds, r

\* What a partial dequeue leaves behind: only lo moves.
LEMMA ShrinkFields ==
  ASSUME NEW node \in Nodes, NEW max \in Nat, NEW good \in BOOLEAN
  PROVE  /\ Shrink(node, max, good).lo = node.lo + max
         /\ Shrink(node, max, good).hi = node.hi
         /\ Shrink(node, max, good).ok = (node.ok /\ good)
<1> DEFINE l == node.lo + max
           o == node.ok /\ good
<1>1. Shrink(node, max, good) = [node EXCEPT !.lo = l, !.ok = o]
  BY Zenon DEF Shrink
<1> HIDE DEF l, o
<1>2. /\ [node EXCEPT !.lo = l, !.ok = o].lo = l
      /\ [node EXCEPT !.lo = l, !.ok = o].hi = node.hi
      /\ [node EXCEPT !.lo = l, !.ok = o].ok = o
  BY DEF Nodes
<1> QED  BY <1>1, <1>2, Zenon DEF l, o

\* Taking max bytes of a longer first node advances the stream by max.
LEMMA HoldsShrink ==
  ASSUME NEW q \in Seq(Nodes), q # <<>>, NEW from \in Nat, NEW to \in Nat,
         Holds(q, from, to), NEW max \in Nat, NEW good \in BOOLEAN,
         max < DataLen(Head(q))
  PROVE  Holds(ReplaceHead(q, Shrink(Head(q), max, good)),
               Head(q).lo + max, to)
<1> DEFINE e == Shrink(Head(q), max, good)
           r == ReplaceHead(q, e)
<1>1. Head(q) = q[1] /\ Head(q) \in Nodes /\ Len(q) \in Nat /\ Len(q) > 0
  BY EmptySeq, LenProperties, TailFacts
<1>2. e \in Nodes /\ e.lo = Head(q).lo + max /\ e.hi = Head(q).hi
  BY <1>1, ShrinkType, ShrinkFields
<1> HIDE DEF e
<1>3. /\ DOMAIN q = 1..Len(q) /\ DOMAIN r = DOMAIN q /\ r # <<>>
      /\ Len(r) = Len(q) /\ r[1] = e
      /\ \A i \in DOMAIN q : i # 1 => r[i] = q[i]
  <2>1. r \in Seq(Nodes) /\ r # <<>>
    BY <1>2, ReplaceHeadFacts
  <2>2. DOMAIN r = DOMAIN q /\ r[1] = e /\ \A i \in DOMAIN q : i # 1 => r[i] = q[i]
    BY <1>1, LenProperties DEF ReplaceHead
  <2> QED  BY <1>1, <2>1, <2>2, LenProperties
<1> HIDE DEF r
<1>4. e.lo <= e.hi
  BY <1>1, <1>2 DEF DataLen, Nodes
<1>5. r[Len(r)].hi = to
  BY <1>1, <1>2, <1>3 DEF Holds
<1>6. ASSUME NEW i \in DOMAIN r PROVE r[i].lo <= r[i].hi
  BY <1>3, <1>4 DEF Holds
<1>7. ASSUME NEW i \in DOMAIN r, i + 1 \in DOMAIN r PROVE r[i].hi = r[i + 1].lo
  BY <1>1, <1>2, <1>3, <1>7 DEF Holds
<1> QED  BY <1>1, <1>2, <1>3, <1>5, <1>6, <1>7 DEF Holds, r, e

\* The streams survive every step; only the steps that touch a queue or a
\* stream position need one of the three facts above.
LEMMA StreamsStep ==
  ControlInv /\ StreamsInOrder /\ [Next]_vars => StreamsInOrder'
<1> SUFFICES ASSUME ControlInv, StreamsInOrder, [Next]_vars
             PROVE  StreamsInOrder'
  OBVIOUS
<1> USE DEF StreamsInOrder
<1>t. /\ app_recv_queue \in Seq(Nodes) /\ app_send_queue \in Seq(Nodes)
      /\ written \in Nat /\ taken \in Nat /\ sentUp \in Nat /\ readUp \in Nat
      /\ rdmax \in Nat /\ trmax \in Nat
      /\ network_recv_queue \in Seq(Packet)
  BY DEF ControlInv, TypeOK, ThreadTypes, QueueTypes, HistoryTypes
<1>f. freed => app = "closed" /\ tr \in {"none", "exited"}
  BY DEF ControlInv, Joined
<1>1. CASE UNCHANGED <<app_recv_queue, app_send_queue, streamVars, freed>>
  BY <1>1 DEF streamVars
<1>2. ASSUME NEW n \in WriteLens, Write(n) PROVE StreamsInOrder'
  <2>1. n \in Nat
    BY LensAssumption
  <2>2. Holds(app_recv_queue, taken, written)
    BY <1>2, <1>f DEF Write
  <2>3. Holds(app_recv_queue', taken, written + n)
    BY <1>2, <1>t, <2>1, <2>2, HoldsAppend DEF Write
  <2> QED  BY <1>2, <2>3 DEF Write, flagVars
<1>3. CASE ReadWhole
  <2>1. app_send_queue # <<>> /\ Holds(app_send_queue, readUp, sentUp)
    BY <1>3, <1>f DEF ReadWhole
  <2>2. Holds(app_send_queue', readUp', sentUp)
    BY <1>3, <1>t, <2>1, HoldsTail DEF ReadWhole
  <2> QED  BY <1>3, <2>2 DEF ReadWhole
<1>4. CASE ReadCopy
  <2>1. /\ app_send_queue # <<>> /\ Holds(app_send_queue, readUp, sentUp)
        /\ rdmax < DataLen(Head(app_send_queue))
    BY <1>4, <1>f DEF ReadCopy, ControlInv, QueuesReady
  <2>2. PICK good \in CopyOutcomes(Head(app_send_queue), rdmax) :
          app_send_queue' = ReplaceHead(app_send_queue,
                              Shrink(Head(app_send_queue), rdmax, good))
    BY <1>4 DEF ReadCopy
  <2>3. good \in BOOLEAN
    BY CopyType
  <2>4. Holds(app_send_queue', Head(app_send_queue).lo + rdmax, sentUp)
    BY <1>t, <2>1, <2>2, <2>3, HoldsShrink
  <2> QED  BY <1>4, <2>4 DEF ReadCopy
<1>5. CASE FreeContext
  BY <1>5 DEF FreeContext
<1>6. ASSUME NEW m \in RecvMaxes, AppRecvWhole(m) PROVE StreamsInOrder'
  <2>1. app_recv_queue # <<>> /\ Holds(app_recv_queue, taken, written)
    BY <1>6, <1>f DEF AppRecvWhole, ControlInv, QueuesReady
  <2>2. Holds(app_recv_queue', taken', written)
    BY <1>6, <1>t, <2>1, HoldsTail DEF AppRecvWhole
  <2> QED  BY <1>6, <2>2 DEF AppRecvWhole, flagVars
<1>7. CASE AppRecvCopy
  <2>1. /\ app_recv_queue # <<>> /\ Holds(app_recv_queue, taken, written)
        /\ trmax < DataLen(Head(app_recv_queue))
    BY <1>7, <1>f DEF AppRecvCopy, ControlInv, QueuesReady
  <2>2. PICK good \in CopyOutcomes(Head(app_recv_queue), trmax) :
          app_recv_queue' = ReplaceHead(app_recv_queue,
                              Shrink(Head(app_recv_queue), trmax, good))
    BY <1>7 DEF AppRecvCopy
  <2>3. good \in BOOLEAN
    BY CopyType
  <2>4. Holds(app_recv_queue', Head(app_recv_queue).lo + trmax, written)
    BY <1>t, <2>1, <2>2, <2>3, HoldsShrink
  <2> QED  BY <1>7, <2>4 DEF AppRecvCopy, flagVars
<1>8. ASSUME NEW m \in NetRecvMaxes, NetworkRecv(m) PROVE StreamsInOrder'
  <2>1. /\ Holds(app_send_queue, readUp, sentUp)
        /\ Head(network_recv_queue).len \in Nat
    <3>1. network_recv_queue # <<>> /\ ~freed
      BY <1>8, <1>f DEF NetworkRecv, ControlInv, QueuesReady
    <3>2. Head(network_recv_queue) \in Packet
      BY <1>t, <3>1, TailFacts
    <3> QED  BY <3>1, <3>2 DEF Packet
  <2>2. Holds(app_send_queue', readUp, sentUp')
    <3> DEFINE p == Head(network_recv_queue)
               good == p.len = IF p.len < m THEN p.len ELSE m
    <3>1. good \in BOOLEAN
      OBVIOUS
    <3>2. Holds(Append(app_send_queue, Node(sentUp, p.len, good)), readUp,
                sentUp + p.len)
      BY <1>t, <2>1, <3>1, HoldsAppend
    <3>3. Holds(Append(app_send_queue, Node(sentUp, 0, TRUE)), readUp, sentUp + 0)
      BY <1>t, <2>1, HoldsAppend
    <3>4. sentUp + 0 = sentUp
      BY <1>t
    <3> QED  BY <1>8, <2>1, <3>2, <3>3, <3>4 DEF NetworkRecv
  <2> QED  BY <1>8, <2>2 DEF NetworkRecv, flagVars
<1>9. CASE EnqueueEof
  <2>1. Holds(app_send_queue, readUp, sentUp)
    BY <1>9, <1>f DEF EnqueueEof
  <2>2. Holds(app_send_queue', readUp, sentUp + 0)
    BY <1>9, <1>t, <2>1, HoldsAppend DEF EnqueueEof
  <2>3. sentUp + 0 = sentUp
    BY <1>t
  <2> QED  BY <1>9, <2>2, <2>3 DEF EnqueueEof, flagVars, streamVars
<1> USE DEF queueVars, flagVars
<1>10. CASE Connect \/ (\E m \in ReadMaxes : Read(m)) \/ Close
  BY <1>1, <1>10 DEF Connect, Read, Close
<1>11. CASE WaitForConnection \/ WriteBroadcast \/ ReadWait \/ ReadPartial
              \/ CloseBroadcast \/ JoinTransport \/ StopRecvThread \/ JoinRecv
  BY <1>1, <1>11 DEF WaitForConnection, WriteBroadcast, ReadWait, ReadPartial,
     CloseBroadcast, JoinTransport, StopRecvThread, JoinRecv
<1>12. CASE SkeletonInit \/ SendSyn \/ Handshake \/ SignalConnected
              \/ stcp_wait_for_event \/ WaitSleep \/ SkeletonLoop
  BY <1>1, <1>12 DEF SkeletonInit, SendSyn, Handshake, SignalConnected, Unblock,
     stcp_wait_for_event, WaitSleep, SkeletonLoop
<1>13. CASE \/ \E m \in RecvMaxes : AppRecvPartial(m)
            \/ UpBroadcast \/ LoopEnd \/ Unwind \/ SignalFailed
            \/ ExitBroadcast \/ WaitTimeout
  BY <1>1, <1>13 DEF AppRecvPartial, UpBroadcast, LoopEnd, Unwind, Unblock,
     SignalFailed, ExitBroadcast, WaitTimeout
<1>14. CASE RxStep
  BY <1>1, <1>14 DEF RxStep, Poll, TcpConnect, RecvPacket, RecvError,
     RecvBroadcast
<1>15. CASE Peer \/ SpuriousWakeup
  BY <1>1, <1>15 DEF Peer, PeerStart, PeerSend, PeerClose, SpuriousWakeup
<1>16. CASE UNCHANGED vars
  BY <1>1, <1>16 DEF vars
<1> QED
  BY <1>2, <1>3, <1>4, <1>5, <1>6, <1>7, <1>8, <1>9, <1>10, <1>11, <1>12,
     <1>13, <1>14, <1>15, <1>16 DEF Next, AppCall, AppStep, TrStep

\* Nothing is lost, duplicated or reordered between mywrite and stcp_app_recv,
\* or between stcp_app_send and myread, whatever the buffer sizes and the
\* interleaving of the copies that run outside the lock.
THEOREM BytesInOrder == Spec => []StreamsInOrder
<1> DEFINE StreamInv == ControlInv /\ StreamsInOrder
<1>1. Init => StreamInv
  BY ControlInit DEF Init, StreamsInOrder, Holds
<1>2. StreamInv /\ [Next]_vars => StreamInv'
  BY ControlStep, StreamsStep
<1>3. StreamInv => StreamsInOrder
  OBVIOUS
<1> QED  BY <1>1, <1>2, <1>3, PTL DEF Spec

-----------------------------------------------------------------------------
(* Each direction is a byte pipe *)

\* What the refinement needs of the build and of the callers: memcpy moves
\* overlapping bytes correctly, the transport layer passes stcp_network_recv a
\* buffer that holds any packet, and the application never asks for 0 bytes.
CopiesWhole ==
  /\ OverlapSafe = TRUE
  /\ \A n \in PacketLens, m \in NetRecvMaxes : n <= m
  /\ 0 \notin ReadMaxes

\* a buffer whose bytes are intact and among the first ones of the stream
GoodNodes(to) == {node \in Nodes : node.ok = TRUE /\ node.hi <= to}

\* a buffer for myread: an empty one is the end-of-stream mark, queued last
UpNodes ==
  {node \in GoodNodes(sentUp) : node.lo = node.hi => UpShut /\ node.hi = sentUp}

\* a packet whose data is not empty
DataPackets == {p \in Packet : p.kind = "data" => p.len \in PacketLens}

\* Only myclose sets close_requested, and stcp_wait_for_event clears it when it
\* gives the event, at which time nothing is left to take.
CloseOnce ==
  /\ close_requested => Closing /\ closeEvents = 0
  /\ closeEvents > 0 => Closing /\ app_recv_queue = <<>> /\ taken = written

\* A myread in progress found eof unset and has room for a byte.
ReadOpen == app \in {"read", "rdcopy"} => eof = FALSE /\ rdmax # 0

GoodQueues ==
  /\ app_recv_queue \in Seq(GoodNodes(written)) /\ app_send_queue \in Seq(UpNodes)
  /\ network_recv_queue \in Seq(DataPackets) /\ net \in Seq(DataPackets)
  /\ clean = TRUE

PipeInv == /\ CopiesWhole /\ ControlInv /\ StreamsInOrder
           /\ CloseOnce /\ ReadOpen /\ GoodQueues

LEMMA CloseOnceStep ==
  ControlInv /\ StreamsInOrder /\ CloseOnce /\ [Next]_vars => CloseOnce'
<1> SUFFICES ASSUME ControlInv, StreamsInOrder, CloseOnce, [Next]_vars
             PROVE  CloseOnce'
  OBVIOUS
<1> USE DEF CloseOnce, Closing, appVars, queueVars, flagVars, streamVars,
            histVars
<1>1. closeEvents \in Nat
  BY DEF ControlInv, TypeOK, HistoryTypes
<1>2. CASE AppCall
  <2>1. CASE Close
    BY <1>1, <2>1 DEF Close
  <2>2. ASSUME NEW n \in WriteLens, Write(n) PROVE CloseOnce'
    BY <2>2 DEF Write
  <2>3. CASE Connect \/ \E m \in ReadMaxes : Read(m)
    BY <2>3 DEF Connect, Read
  <2> QED  BY <1>2, <2>1, <2>2, <2>3 DEF AppCall
<1>3. CASE AppStep
  <2>1. CASE WaitForConnection \/ WriteBroadcast \/ ReadWait \/ ReadPartial
               \/ ReadWhole \/ ReadCopy
    BY <2>1 DEF WaitForConnection, WriteBroadcast, ReadWait, ReadPartial,
       ReadWhole, ReadCopy
  <2>2. CASE CloseBroadcast \/ JoinTransport \/ StopRecvThread \/ JoinRecv
               \/ FreeContext
    BY <2>2 DEF CloseBroadcast, JoinTransport, StopRecvThread, JoinRecv,
       FreeContext
  <2> QED  BY <1>3, <2>1, <2>2 DEF AppStep
<1>4. CASE stcp_wait_for_event
  <2>1. ~freed
    BY <1>4 DEF stcp_wait_for_event, ControlInv, Joined
  <2>2. app_recv_queue = <<>> => taken = written
    BY <2>1 DEF StreamsInOrder, Holds
  <2>3. CASE CloseReady
    BY <1>4, <2>2, <2>3, <1>1 DEF stcp_wait_for_event, CloseReady
  <2>4. CASE ~CloseReady
    BY <1>4, <2>4 DEF stcp_wait_for_event
  <2> QED  BY <2>3, <2>4
<1>5. CASE \/ \E m \in RecvMaxes : AppRecvPartial(m) \/ AppRecvWhole(m)
           \/ AppRecvCopy
  BY <1>5 DEF AppRecvPartial, AppRecvWhole, AppRecvCopy, ControlInv, QueuesReady
<1>6. CASE \E m \in NetRecvMaxes : NetworkRecv(m)
  BY <1>6 DEF NetworkRecv
<1>7. CASE SkeletonInit \/ SendSyn \/ Handshake \/ SignalConnected
             \/ WaitSleep \/ SkeletonLoop \/ WaitTimeout
  BY <1>7 DEF SkeletonInit, SendSyn, Handshake, Unblock, SignalConnected,
     WaitSleep, SkeletonLoop, WaitTimeout
<1>8. CASE UpBroadcast \/ SignalFailed \/ ExitBroadcast
  BY <1>8 DEF UpBroadcast, SignalFailed, ExitBroadcast
<1>14. CASE EnqueueEof
  BY <1>14 DEF EnqueueEof
<1>12. CASE LoopEnd
  BY <1>12 DEF LoopEnd
<1>13. CASE Unwind
  BY <1>13 DEF Unwind, Unblock
<1>9. CASE RxStep
  BY <1>9 DEF RxStep, Poll, TcpConnect, RecvPacket, RecvError, RecvBroadcast
<1>10. CASE Peer \/ SpuriousWakeup
  BY <1>10 DEF Peer, PeerStart, PeerSend, PeerClose, SpuriousWakeup
<1>11. CASE UNCHANGED vars
  BY <1>11 DEF vars
<1> QED
  BY <1>2, <1>3, <1>4, <1>5, <1>6, <1>7, <1>8, <1>9, <1>10, <1>11, <1>12,
     <1>13, <1>14
  DEF Next, TrStep

LEMMA ReadOpenStep ==
  CopiesWhole /\ ControlInv /\ ReadOpen /\ [Next]_vars => ReadOpen'
<1> SUFFICES ASSUME CopiesWhole, ControlInv, ReadOpen, [Next]_vars
             PROVE  ReadOpen'
  OBVIOUS
<1> USE DEF ReadOpen, appVars, flagVars
<1>1. CASE AppCall
  <2>1. eof \in BOOLEAN
    BY DEF ControlInv, TypeOK, FlagTypes
  <2> QED  BY <1>1, <2>1 DEF AppCall, Connect, Write, Read, Close, CopiesWhole
<1>2. CASE AppStep
  BY <1>2 DEF AppStep, WaitForConnection, WriteBroadcast, ReadWait, ReadPartial,
     ReadWhole, ReadCopy, CloseBroadcast, JoinTransport, StopRecvThread,
     JoinRecv, FreeContext
<1>3. CASE SkeletonInit \/ SendSyn \/ Handshake \/ SignalConnected
             \/ WaitSleep \/ SkeletonLoop \/ WaitTimeout \/ stcp_wait_for_event
  BY <1>3 DEF SkeletonInit, SendSyn, Handshake, Unblock, SignalConnected,
     WaitSleep, SkeletonLoop, WaitTimeout, stcp_wait_for_event
<1>4. CASE \/ \E m \in RecvMaxes : AppRecvPartial(m) \/ AppRecvWhole(m)
           \/ AppRecvCopy
  BY <1>4 DEF AppRecvPartial, AppRecvWhole, AppRecvCopy
<1>5. CASE \E m \in NetRecvMaxes : NetworkRecv(m)
  BY <1>5 DEF NetworkRecv
<1>6. CASE UpBroadcast \/ LoopEnd \/ Unwind \/ SignalFailed \/ EnqueueEof
             \/ ExitBroadcast
  BY <1>6 DEF UpBroadcast, LoopEnd, Unwind, Unblock, SignalFailed, EnqueueEof,
     ExitBroadcast
<1>7. CASE RxStep
  BY <1>7 DEF RxStep, Poll, TcpConnect, RecvPacket, RecvError, RecvBroadcast
<1>8. CASE Peer \/ SpuriousWakeup
  BY <1>8 DEF Peer, PeerStart, PeerSend, PeerClose, SpuriousWakeup
<1>9. CASE UNCHANGED vars
  BY <1>9 DEF vars
<1> QED
  BY <1>1, <1>2, <1>3, <1>4, <1>5, <1>6, <1>7, <1>8, <1>9 DEF Next, TrStep

\* The transport's announcement that no more data will come is final.
LEMMA UpShutStays == ControlInv /\ UpShut /\ [Next]_vars => UpShut'
<1> SUFFICES ASSUME Joined, UpShut, [Next]_vars PROVE UpShut'
  BY DEF ControlInv
<1> USE DEF Joined, UpShut, trVars, histVars
<1>1. CASE AppCall
  BY <1>1 DEF AppCall, Connect, Write, Read, Close
<1>2. CASE AppStep
  BY <1>2 DEF AppStep, WaitForConnection, WriteBroadcast, ReadWait, ReadPartial,
     ReadWhole, ReadCopy, CloseBroadcast, JoinTransport, StopRecvThread,
     JoinRecv, FreeContext
<1>3. CASE SkeletonInit \/ SendSyn \/ Handshake \/ SignalConnected
             \/ WaitSleep \/ SkeletonLoop \/ WaitTimeout \/ stcp_wait_for_event
  BY <1>3 DEF SkeletonInit, SendSyn, Handshake, SignalConnected, WaitSleep,
     SkeletonLoop, WaitTimeout, stcp_wait_for_event
<1>4. CASE \/ \E m \in RecvMaxes : AppRecvPartial(m) \/ AppRecvWhole(m)
           \/ AppRecvCopy
  BY <1>4 DEF AppRecvPartial, AppRecvWhole, AppRecvCopy
<1>5. ASSUME NEW m \in NetRecvMaxes, NetworkRecv(m) PROVE UpShut'
  <2>1. finSeen
    BY <1>5 DEF NetworkRecv
  <2>2. finSeen' = TRUE \/ finSeen' = finSeen
    BY <1>5 DEF NetworkRecv
  <2> QED  BY <2>1, <2>2
<1>6. CASE UpBroadcast \/ LoopEnd \/ Unwind \/ SignalFailed \/ EnqueueEof
             \/ ExitBroadcast
  BY <1>6 DEF UpBroadcast, LoopEnd, Unwind, SignalFailed, EnqueueEof,
     ExitBroadcast
<1>7. CASE RxStep
  BY <1>7 DEF RxStep, Poll, TcpConnect, RecvPacket, RecvError, RecvBroadcast
<1>8. CASE Peer \/ SpuriousWakeup
  BY <1>8 DEF Peer, PeerStart, PeerSend, PeerClose, SpuriousWakeup
<1>9. CASE UNCHANGED vars
  BY <1>9 DEF vars
<1> QED
  BY <1>1, <1>2, <1>3, <1>4, <1>5, <1>6, <1>7, <1>8, <1>9 DEF Next, TrStep

\* A newly queued buffer.
LEMMA NewNode ==
  ASSUME NEW from \in Nat, NEW n \in Nat, NEW to \in Nat, from + n <= to,
         NEW e, e = Node(from, n, TRUE)
  PROVE  e \in GoodNodes(to) /\ e.lo = from /\ e.hi = from + n
<1>1. e \in Nodes
  BY NodeType
<1>2. e.lo = from /\ e.hi = from + n /\ e.ok = TRUE
  BY DEF Node
<1> QED  BY <1>1, <1>2 DEF GoodNodes

\* A sequence over a set is one over any larger set.
LEMMA SeqWiden ==
  ASSUME NEW S, NEW T, S \subseteq T, NEW s \in Seq(S)
  PROVE  s \in Seq(T)
OBVIOUS

\* While nothing is passed up, the buffers for myread stay what they are.
LEMMA UpNodesStay ==
  ASSUME ControlInv, [Next]_vars, sentUp' = sentUp
  PROVE  UpNodes \subseteq UpNodes'
<1>1. UpShut => UpShut'
  BY UpShutStays
<1> QED  BY <1>1 DEF UpNodes

\* The buffers in the queues stay intact, and those for myread keep the empty
\* one last.
LEMMA GoodQueuesStep == PipeInv /\ [Next]_vars => GoodQueues'
<1> SUFFICES ASSUME PipeInv, [Next]_vars PROVE GoodQueues'
  OBVIOUS
<1>p. CopiesWhole /\ ControlInv /\ StreamsInOrder /\ ReadOpen /\ GoodQueues
  BY DEF PipeInv
<1>g. /\ app_recv_queue \in Seq(GoodNodes(written)) /\ app_send_queue \in Seq(UpNodes)
      /\ network_recv_queue \in Seq(DataPackets) /\ net \in Seq(DataPackets)
      /\ clean = TRUE
  BY <1>p DEF GoodQueues
<1>t. written \in Nat /\ sentUp \in Nat /\ rdmax \in Nat /\ trmax \in Nat
  BY <1>p DEF ControlInv, TypeOK, ThreadTypes, HistoryTypes
<1>q. QueuesReady
  BY <1>p DEF ControlInv
<1>w. ASSUME sentUp' = sentUp PROVE app_send_queue \in Seq(UpNodes')
  <2>1. UpNodes \subseteq UpNodes'
    BY <1>p, <1>w, UpNodesStay
  <2> QED  BY <2>1, <1>g, SeqWiden
<1>1. CASE UNCHANGED <<queueVars, net, written, sentUp, clean>>
  BY <1>1, <1>g, <1>w DEF GoodQueues, queueVars
<1>2. ASSUME NEW n \in WriteLens, Write(n) PROVE GoodQueues'
  <2>1. n \in Nat
    BY LensAssumption
  <2>2. Node(written, n, TRUE) \in GoodNodes(written + n)
    <3>1. written + n \in Nat /\ written + n <= written + n
      BY <1>t, <2>1
    <3> QED  BY <1>t, <2>1, <3>1, NewNode
  <2>4. GoodNodes(written) \subseteq GoodNodes(written + n)
    BY <1>t, <2>1 DEF GoodNodes, Nodes
  <2>5. app_recv_queue \in Seq(GoodNodes(written + n))
    BY <1>g, <2>4, SeqWiden
  <2>3. app_recv_queue' \in Seq(GoodNodes(written'))
    BY <1>2, <2>2, <2>5, AppendFacts DEF Write
  <2> QED  BY <1>2, <1>g, <1>w, <2>3 DEF Write, GoodQueues, netVars, histVars
<1>3. CASE ReadWhole
  <2>1. Head(app_send_queue) \in UpNodes /\ Tail(app_send_queue) \in Seq(UpNodes)
    BY <1>3, <1>g, TailFacts DEF ReadWhole
  <2>2. Head(app_send_queue).ok = TRUE
    BY <2>1 DEF UpNodes, GoodNodes
  <2>3. clean' = TRUE
    BY <1>3, <1>g, <2>2, Zenon DEF ReadWhole
  <2>4. sentUp' = sentUp /\ UpNodes \subseteq UpNodes'
    BY <1>3, <1>p, UpNodesStay DEF ReadWhole
  <2>5. app_send_queue' \in Seq(UpNodes')
    BY <1>3, <2>1, <2>4, SeqWiden DEF ReadWhole
  <2> QED  BY <1>3, <1>g, <2>3, <2>5 DEF ReadWhole, GoodQueues, netVars
<1>4. CASE ReadCopy
  <2>1. /\ app_send_queue # <<>> /\ Head(app_send_queue) \in UpNodes
        /\ rdmax < DataLen(Head(app_send_queue))
    BY <1>4, <1>g, <1>q, TailFacts DEF ReadCopy, QueuesReady
  <2>2. PICK good \in CopyOutcomes(Head(app_send_queue), rdmax) :
          app_send_queue' = ReplaceHead(app_send_queue,
                              Shrink(Head(app_send_queue), rdmax, good))
    BY <1>4 DEF ReadCopy
  <2>3. good = TRUE
    BY <1>p DEF CopyOutcomes, CopiesWhole
  <2> DEFINE e == Shrink(Head(app_send_queue), rdmax, good)
  <2>4. Head(app_send_queue) \in Nodes /\ Head(app_send_queue).ok = TRUE
    BY <2>1 DEF UpNodes, GoodNodes
  <2>5. /\ e \in Nodes /\ e.ok = TRUE
        /\ e.lo = Head(app_send_queue).lo + rdmax
        /\ e.hi = Head(app_send_queue).hi
    BY <1>t, <2>3, <2>4, ShrinkType, ShrinkFields
  <2> HIDE DEF e
  <2>6. e.lo < e.hi
    BY <1>t, <2>1, <2>4, <2>5 DEF DataLen, Nodes
  <2>7. e \in UpNodes
    BY <2>1, <2>5, <2>6 DEF UpNodes, GoodNodes, Nodes
  <2>8. app_send_queue' \in Seq(UpNodes)
    BY <1>g, <2>1, <2>2, <2>7, ReplaceHeadFacts DEF e
  <2>9. sentUp' = sentUp /\ UpNodes \subseteq UpNodes'
    BY <1>4, <1>p, UpNodesStay DEF ReadCopy
  <2>10. app_send_queue' \in Seq(UpNodes')
    BY <2>8, <2>9, SeqWiden
  <2>11. clean' = TRUE
    BY <1>4, <1>g, <2>4, Zenon DEF ReadCopy
  <2> QED  BY <1>4, <1>g, <2>10, <2>11 DEF ReadCopy, GoodQueues, netVars
<1>5. CASE FreeContext
  BY <1>5, <1>g, EmptySeq DEF FreeContext, GoodQueues, netVars, histVars
<1>6. ASSUME NEW m \in RecvMaxes, AppRecvWhole(m) PROVE GoodQueues'
  <2>1. /\ Head(app_recv_queue) \in GoodNodes(written)
        /\ Tail(app_recv_queue) \in Seq(GoodNodes(written))
    BY <1>6, <1>g, <1>q, TailFacts DEF AppRecvWhole, QueuesReady
  <2>2. Head(app_recv_queue).ok = TRUE
    BY <2>1 DEF GoodNodes
  <2>3. clean' = TRUE
    BY <1>6, <1>g, <2>2, Zenon DEF AppRecvWhole
  <2> QED  BY <1>6, <1>g, <1>w, <2>1, <2>3
           DEF AppRecvWhole, GoodQueues, netVars
<1>7. CASE AppRecvCopy
  <2>1. app_recv_queue # <<>> /\ Head(app_recv_queue) \in GoodNodes(written)
    BY <1>7, <1>g, <1>q, TailFacts DEF AppRecvCopy, QueuesReady
  <2>2. PICK good \in CopyOutcomes(Head(app_recv_queue), trmax) :
          app_recv_queue' = ReplaceHead(app_recv_queue,
                              Shrink(Head(app_recv_queue), trmax, good))
    BY <1>7 DEF AppRecvCopy
  <2>3. good = TRUE
    BY <1>p DEF CopyOutcomes, CopiesWhole
  <2>4. Head(app_recv_queue) \in Nodes /\ Head(app_recv_queue).ok = TRUE
    BY <2>1 DEF GoodNodes
  <2>5. Shrink(Head(app_recv_queue), trmax, good) \in GoodNodes(written)
    BY <1>t, <2>1, <2>3, <2>4, ShrinkType, ShrinkFields DEF GoodNodes
  <2>6. app_recv_queue' \in Seq(GoodNodes(written))
    BY <1>g, <2>1, <2>2, <2>5, ReplaceHeadFacts
  <2>7. clean' = TRUE
    BY <1>7, <1>g, <2>4, Zenon DEF AppRecvCopy
  <2> QED  BY <1>7, <1>g, <1>w, <2>6, <2>7
           DEF AppRecvCopy, GoodQueues, netVars
<1>8. ASSUME NEW m \in NetRecvMaxes, NetworkRecv(m) PROVE GoodQueues'
  <2> DEFINE p == Head(network_recv_queue)
             good == p.len = IF p.len < m THEN p.len ELSE m
  <2>1. /\ p \in DataPackets /\ Tail(network_recv_queue) \in Seq(DataPackets)
    BY <1>8, <1>g, <1>q, TailFacts DEF NetworkRecv, QueuesReady
  <2>2. network_recv_queue' \in Seq(DataPackets) /\ UNCHANGED clean
        /\ UNCHANGED <<app_recv_queue, written, net>> /\ tr = "handle"
    BY <1>8, <2>1 DEF NetworkRecv, netVars
  <2>3. app_send_queue' \in Seq(UpNodes')
    <3>1. CASE p.kind = "data" /\ ~finSeen
      <4>1. p.len \in PacketLens /\ p.len \in Nat /\ p.len # 0 /\ m \in Nat
        BY <2>1, <3>1, LensAssumption DEF DataPackets
      <4>2. good = TRUE
        BY <4>1, <1>p DEF CopiesWhole
      <4>3. app_send_queue' = Append(app_send_queue, Node(sentUp, p.len, good))
        BY <1>8, <3>1 DEF NetworkRecv
      <4>8. sentUp' = sentUp + p.len
        BY <1>8, <3>1 DEF NetworkRecv
      <4>4. Node(sentUp, p.len, TRUE) \in UpNodes'
        <5>1. sentUp' \in Nat /\ sentUp + p.len <= sentUp' /\ p.len \in Nat
          BY <1>t, <4>1, <4>8
        <5> DEFINE e == Node(sentUp, p.len, TRUE)
        <5>2. e \in GoodNodes(sentUp') /\ e.lo = sentUp /\ e.hi = sentUp + p.len
          BY <1>t, <5>1, NewNode
        <5> HIDE DEF e
        <5>3. e.lo # e.hi
          BY <1>t, <4>1, <4>8, <5>2
        <5>4. e \in UpNodes'
          BY <5>2, <5>3 DEF UpNodes
        <5> QED  BY <5>4 DEF e
      <4>5. ~UpShut
        BY <2>2, <3>1 DEF UpShut
      <4>6. UpNodes \subseteq UpNodes'
        BY <1>t, <4>1, <4>5, <4>8 DEF UpNodes, GoodNodes, Nodes
      <4>7. app_send_queue \in Seq(UpNodes')
        BY <1>g, <4>6, SeqWiden
      <4> QED  BY <4>2, <4>3, <4>4, <4>7, AppendFacts
    <3>2. CASE p.kind = "fin"
      <4>1. /\ app_send_queue' = Append(app_send_queue, Node(sentUp, 0, TRUE))
            /\ sentUp' = sentUp /\ UpShut'
        BY <1>8, <3>2 DEF NetworkRecv, UpShut
      <4>2. Node(sentUp, 0, TRUE) \in UpNodes'
        <5>1. sentUp' \in Nat /\ sentUp + 0 <= sentUp' /\ 0 \in Nat
          BY <1>t, <4>1
        <5> DEFINE e == Node(sentUp, 0, TRUE)
        <5>2. e \in GoodNodes(sentUp') /\ e.lo = sentUp /\ e.hi = sentUp + 0
          BY <1>t, <5>1, NewNode
        <5> HIDE DEF e
        <5>3. UpShut' /\ e.hi = sentUp'
          BY <1>t, <4>1, <5>2
        <5>4. e \in UpNodes'
          BY <5>2, <5>3 DEF UpNodes
        <5> QED  BY <5>4 DEF e
      <4> QED  BY <4>1, <4>2, <1>w, AppendFacts
    <3>3. CASE ~(p.kind = "data" /\ ~finSeen) /\ p.kind # "fin"
      BY <1>8, <1>w, <3>3 DEF NetworkRecv
    <3> QED  BY <3>1, <3>2, <3>3
  <2> QED  BY <1>g, <2>2, <2>3 DEF GoodQueues
<1>9. CASE EnqueueEof
  <2>1. /\ app_send_queue' = Append(app_send_queue, Node(sentUp, 0, TRUE))
        /\ sentUp' = sentUp /\ UpShut'
    BY <1>9 DEF EnqueueEof, UpShut, streamVars
  <2>2. Node(sentUp, 0, TRUE) \in UpNodes'
    <3>1. sentUp' \in Nat /\ sentUp + 0 <= sentUp' /\ 0 \in Nat
      BY <1>t, <2>1
    <3> DEFINE e == Node(sentUp, 0, TRUE)
    <3>2. e \in GoodNodes(sentUp') /\ e.lo = sentUp /\ e.hi = sentUp + 0
      BY <1>t, <3>1, NewNode
    <3> HIDE DEF e
    <3>3. UpShut' /\ e.hi = sentUp'
      BY <1>t, <2>1, <3>2
    <3>4. e \in UpNodes'
      BY <3>2, <3>3 DEF UpNodes
    <3> QED  BY <3>4 DEF e
  <2>3. app_send_queue' \in Seq(UpNodes')
    BY <2>1, <2>2, <1>w, AppendFacts
  <2> QED  BY <1>9, <1>g, <2>3
           DEF EnqueueEof, GoodQueues, netVars, streamVars, histVars
<1>17. CASE Handshake
  <2>1. network_recv_queue' \in Seq(DataPackets)
    BY <1>17, <1>g, TailFacts DEF Handshake
  <2> QED  BY <1>17, <1>g, <1>w, <2>1
           DEF Handshake, GoodQueues, netVars, streamVars
<1>18. CASE RecvPacket
  <2>1. network_recv_queue' \in Seq(DataPackets) /\ net' \in Seq(DataPackets)
    <3>1. CASE UNCHANGED <<net, network_recv_queue>>
      BY <1>g, <3>1
    <3>2. CASE /\ net # <<>> /\ net' = Tail(net)
               /\ network_recv_queue' = Append(network_recv_queue, Head(net))
      BY <1>g, <3>2, TailFacts, AppendFacts
    <3> QED  BY <1>18, <3>1, <3>2 DEF RecvPacket
  <2> QED  BY <1>18, <1>g, <1>w, <2>1
           DEF RecvPacket, GoodQueues, streamVars, histVars
<1>19. CASE RecvError
  <2>1. ErrorPacket \in DataPackets
    BY DEF ErrorPacket, DataPackets, Packet
  <2>2. network_recv_queue' \in Seq(DataPackets)
    BY <1>19, <1>g, <2>1, AppendFacts DEF RecvError
  <2> QED  BY <1>19, <1>g, <1>w, <2>2
           DEF RecvError, GoodQueues, netVars, streamVars, histVars
<1>20. ASSUME NEW p \in PeerPackets, PeerSend(p) PROVE GoodQueues'
  <2>1. p \in DataPackets
    BY LensAssumption DEF PeerPackets, DataPackets, Packet
  <2>2. net' \in Seq(DataPackets)
    BY <1>20, <1>g, <2>1, AppendFacts DEF PeerSend
  <2> QED  BY <1>20, <1>g, <1>w, <2>2
           DEF PeerSend, GoodQueues, queueVars, streamVars, histVars
<1> USE DEF netVars, streamVars, histVars
<1>10. CASE Connect \/ (\E m \in ReadMaxes : Read(m)) \/ Close
  BY <1>1, <1>10 DEF Connect, Read, Close
<1>11. CASE WaitForConnection \/ WriteBroadcast \/ ReadWait \/ ReadPartial
              \/ CloseBroadcast \/ JoinTransport \/ StopRecvThread \/ JoinRecv
  BY <1>1, <1>11 DEF WaitForConnection, WriteBroadcast, ReadWait, ReadPartial,
     CloseBroadcast, JoinTransport, StopRecvThread, JoinRecv
<1>12. CASE SkeletonInit \/ SendSyn \/ SignalConnected
              \/ stcp_wait_for_event \/ WaitSleep \/ SkeletonLoop
  BY <1>1, <1>12 DEF SkeletonInit, SendSyn, SignalConnected,
     stcp_wait_for_event, WaitSleep, SkeletonLoop
<1>13. CASE \/ \E m \in RecvMaxes : AppRecvPartial(m)
            \/ UpBroadcast \/ LoopEnd \/ Unwind \/ SignalFailed
            \/ ExitBroadcast \/ WaitTimeout
  BY <1>1, <1>13 DEF AppRecvPartial, UpBroadcast, LoopEnd, Unwind,
     SignalFailed, ExitBroadcast, WaitTimeout
<1>14. CASE Poll \/ TcpConnect \/ RecvBroadcast
  BY <1>1, <1>14 DEF Poll, TcpConnect, RecvBroadcast
<1>15. CASE PeerStart \/ PeerClose \/ SpuriousWakeup
  BY <1>1, <1>15 DEF PeerStart, PeerClose, SpuriousWakeup
<1>16. CASE UNCHANGED vars
  BY <1>1, <1>16 DEF vars
<1> QED
  BY <1>2, <1>3, <1>4, <1>5, <1>6, <1>7, <1>8, <1>9, <1>10, <1>11, <1>12,
     <1>13, <1>14, <1>15, <1>16, <1>17, <1>18, <1>19, <1>20
  DEF Next, AppCall, AppStep, TrStep, RxStep, Peer

LEMMA PipeStep == PipeInv /\ [Next]_vars => PipeInv'
<1> SUFFICES ASSUME PipeInv, [Next]_vars PROVE PipeInv'
  OBVIOUS
<1>1. CopiesWhole /\ ControlInv /\ StreamsInOrder /\ CloseOnce /\ ReadOpen
  BY DEF PipeInv
<1>2. CopiesWhole'
  BY <1>1 DEF CopiesWhole
<1>3. ControlInv' /\ StreamsInOrder' /\ CloseOnce' /\ ReadOpen' /\ GoodQueues'
  BY <1>1, ControlStep, StreamsStep, CloseOnceStep, ReadOpenStep, GoodQueuesStep
<1> QED  BY <1>2, <1>3 DEF PipeInv

LEMMA PipeInit == CopiesWhole /\ Init => PipeInv
<1> SUFFICES ASSUME CopiesWhole, Init PROVE PipeInv
  OBVIOUS
<1>1. ControlInv
  BY ControlInit
<1>2. StreamsInOrder /\ CloseOnce /\ ReadOpen
  BY DEF Init, StreamsInOrder, Holds, CloseOnce, ReadOpen
<1>3. GoodQueues
  BY EmptySeq DEF Init, GoodQueues
<1> QED  BY <1>1, <1>2, <1>3 DEF PipeInv

\* Every step of the program is a step of the pipe from mywrite to the
\* transport layer, or leaves it alone.
LEMMA DownStep == PipeInv /\ PipeInv' /\ [Next]_vars => [Down!Next]_(Down!pipeVars)
<1> SUFFICES ASSUME PipeInv, PipeInv', [Next]_vars
             PROVE  Down!Next \/ UNCHANGED Down!pipeVars
  OBVIOUS
<1>p. ControlInv /\ StreamsInOrder /\ CloseOnce /\ Joined /\ QueuesReady
  BY DEF PipeInv, ControlInv
<1>c. clean' = clean
  BY DEF PipeInv, GoodQueues
<1>t. /\ app_recv_queue \in Seq(Nodes) /\ trmax \in Nat
      /\ written \in Nat /\ taken \in Nat /\ closeEvents \in Nat
  BY <1>p DEF ControlInv, TypeOK, ThreadTypes, QueueTypes, HistoryTypes
<1>f. freed => app = "closed" /\ tr \in {"none", "exited"}
  BY <1>p DEF Joined
<1>1. CASE Closing' = Closing /\ UNCHANGED <<written, taken, closeEvents>>
  BY <1>1, <1>c DEF Down!pipeVars
<1>2. ASSUME NEW n \in WriteLens, Write(n) PROVE Down!Send
  <2>1. n \in Nat
    BY LensAssumption
  <2>2. ~Closing /\ Closing' = Closing
    BY <1>2 DEF Write, Closing
  <2>3. UNCHANGED <<taken, closeEvents>> /\ written' = written + n
    BY <1>2 DEF Write, histVars
  <2>4. written' \in Nat /\ written' >= written
    BY <1>t, <2>1, <2>3
  <2> QED  BY <1>c, <2>2, <2>3, <2>4 DEF Down!Send
<1>3. CASE Close
  <2>1. Closing' = TRUE /\ UNCHANGED <<written, taken, closeEvents>>
    BY <1>3 DEF Close, Closing, streamVars, histVars
  <2>2. Down!Shut
    BY <1>c, <2>1 DEF Down!Shut
  <2> QED  BY <2>2 DEF Down!Next
<1>4. CASE stcp_wait_for_event
  <2>1. Closing' = Closing /\ UNCHANGED <<written, taken>> /\ ~freed
    BY <1>4, <1>f DEF stcp_wait_for_event, Closing, appVars, streamVars
  <2>2. CASE CloseReady
    <3>1. Closing /\ closeEvents = 0 /\ taken = written
      BY <1>p, <2>1, <2>2 DEF CloseReady, CloseOnce, StreamsInOrder, Holds
    <3>2. closeEvents' > 0 /\ ~(closeEvents > 0)
      BY <1>4, <2>2, <3>1 DEF stcp_wait_for_event
    <3>3. Down!End
      BY <1>c, <2>1, <3>1, <3>2 DEF Down!End
    <3> QED  BY <3>3 DEF Down!Next
  <2>3. CASE ~CloseReady
    BY <1>1, <1>4, <2>1, <2>3 DEF stcp_wait_for_event
  <2> QED  BY <2>2, <2>3
<1>5. ASSUME NEW m \in RecvMaxes, AppRecvWhole(m) PROVE Down!Receive
  <2>1. app_recv_queue # <<>> /\ Holds(app_recv_queue, taken, written) /\ ~freed'
    BY <1>5, <1>f, <1>p DEF AppRecvWhole, QueuesReady, StreamsInOrder, flagVars
  <2>2. /\ Head(app_recv_queue).lo = taken
        /\ Head(app_recv_queue).lo <= Head(app_recv_queue).hi
    BY <1>t, <2>1, HoldsTail
  <2>3. taken' = Head(app_recv_queue).hi /\ taken' \in Nat
    BY <1>5 DEF AppRecvWhole, PipeInv, ControlInv, TypeOK, HistoryTypes
  <2>6. Head(app_recv_queue) \in GoodNodes(written)
    BY <2>1, TailFacts DEF PipeInv, GoodQueues
  <2>4. taken' <= written
    BY <2>3, <2>6 DEF GoodNodes
  <2>5. ~(closeEvents > 0)
    BY <1>p, <2>1 DEF CloseOnce
  <2> QED  BY <1>5, <1>c, <2>2, <2>3, <2>4, <2>5
           DEF AppRecvWhole, Down!Receive, Closing, appVars
<1>6. CASE AppRecvCopy
  <2>1. /\ app_recv_queue # <<>> /\ Holds(app_recv_queue, taken, written)
        /\ trmax < DataLen(Head(app_recv_queue))
    BY <1>6, <1>f, <1>p DEF AppRecvCopy, QueuesReady, StreamsInOrder
  <2>2. Head(app_recv_queue).lo = taken /\ Head(app_recv_queue) \in Nodes
    BY <1>t, <2>1, HoldsTail, TailFacts
  <2>3. taken' = taken + trmax
    BY <1>6, <2>2 DEF AppRecvCopy
  <2>6. Head(app_recv_queue) \in GoodNodes(written)
    BY <2>1, TailFacts DEF PipeInv, GoodQueues
  <2>4. taken' <= written
    BY <1>t, <2>1, <2>2, <2>3, <2>6 DEF GoodNodes, Nodes, DataLen
  <2>5. ~(closeEvents > 0)
    BY <1>p, <2>1 DEF CloseOnce
  <2>7. Closing' = Closing /\ UNCHANGED <<written, closeEvents>>
    BY <1>6 DEF AppRecvCopy, Closing, appVars
  <2>8. taken' \in Nat /\ taken' >= taken
    BY <1>t, <2>3
  <2> QED  BY <1>c, <2>4, <2>5, <2>7, <2>8 DEF Down!Receive, Down!Next
<1> USE DEF Closing, appVars, streamVars, histVars
<1>7. CASE Connect \/ \E m \in ReadMaxes : Read(m)
  BY <1>1, <1>7 DEF Connect, Read
<1>8. CASE WaitForConnection \/ WriteBroadcast \/ ReadWait \/ ReadPartial
             \/ ReadWhole \/ ReadCopy
  BY <1>1, <1>8 DEF WaitForConnection, WriteBroadcast, ReadWait, ReadPartial,
     ReadWhole, ReadCopy
<1>9. CASE CloseBroadcast \/ JoinTransport \/ StopRecvThread \/ JoinRecv
             \/ FreeContext
  BY <1>1, <1>9 DEF CloseBroadcast, JoinTransport, StopRecvThread, JoinRecv,
     FreeContext
<1>10. CASE SkeletonInit \/ SendSyn \/ Handshake \/ SignalConnected
              \/ WaitSleep \/ SkeletonLoop \/ WaitTimeout
  BY <1>1, <1>10 DEF SkeletonInit, SendSyn, Handshake, SignalConnected,
     WaitSleep, SkeletonLoop, WaitTimeout
<1>11. CASE \/ \E m \in RecvMaxes : AppRecvPartial(m)
            \/ \E m \in NetRecvMaxes : NetworkRecv(m)
  BY <1>1, <1>11 DEF AppRecvPartial, NetworkRecv
<1>12. CASE UpBroadcast \/ LoopEnd \/ Unwind \/ SignalFailed \/ EnqueueEof
              \/ ExitBroadcast
  BY <1>1, <1>12 DEF UpBroadcast, LoopEnd, Unwind, SignalFailed, EnqueueEof,
     ExitBroadcast
<1>13. CASE RxStep
  BY <1>1, <1>13 DEF RxStep, Poll, TcpConnect, RecvPacket, RecvError,
     RecvBroadcast
<1>14. CASE Peer \/ SpuriousWakeup
  BY <1>1, <1>14 DEF Peer, PeerStart, PeerSend, PeerClose, SpuriousWakeup
<1>15. CASE UNCHANGED vars
  BY <1>1, <1>15 DEF vars
<1> QED
  BY <1>2, <1>3, <1>4, <1>5, <1>6, <1>7, <1>8, <1>9, <1>10, <1>11, <1>12,
     <1>13, <1>14, <1>15 DEF Next, AppCall, AppStep, TrStep, Down!Next

\* What mywrite accepts reaches the transport layer as a byte pipe whose end,
\* the APP_CLOSE_REQUESTED event, comes once and after the last byte.
THEOREM DownIsPipe == Spec /\ CopiesWhole => DownPipe
<1>1. Init => Down!Init
  BY DEF Init, Down!Init, Closing
<1> QED  BY <1>1, PipeInit, PipeStep, DownStep, PTL DEF Spec, DownPipe, Down!Spec

\* Every step of the program is a step of the pipe from the transport layer to
\* myread, or leaves it alone.
LEMMA UpStep == PipeInv /\ PipeInv' /\ [Next]_vars => [Up!Next]_(Up!pipeVars)
<1> SUFFICES ASSUME PipeInv, PipeInv', [Next]_vars
             PROVE  Up!Next \/ UNCHANGED Up!pipeVars
  OBVIOUS
<1>p. ControlInv /\ StreamsInOrder /\ ReadOpen /\ Joined /\ QueuesReady
  BY DEF PipeInv, ControlInv
<1>g. app_send_queue \in Seq(UpNodes) /\ network_recv_queue \in Seq(Packet)
  BY <1>p DEF PipeInv, GoodQueues, ControlInv, TypeOK, QueueTypes
<1>c. clean' = clean
  BY DEF PipeInv, GoodQueues
<1>t. /\ app_send_queue \in Seq(Nodes) /\ rdmax \in Nat
      /\ sentUp \in Nat /\ readUp \in Nat
      /\ eof \in BOOLEAN /\ finSeen \in BOOLEAN
  BY <1>p DEF ControlInv, TypeOK, ThreadTypes, QueueTypes, FlagTypes,
     HistoryTypes
<1>f. freed => app = "closed" /\ tr \in {"none", "exited"}
  BY <1>p DEF Joined
<1>1. CASE UpShut' = UpShut /\ UNCHANGED <<sentUp, readUp, eof>>
  BY <1>1, <1>c DEF Up!pipeVars
<1>s. CASE UpShut' /\ UNCHANGED <<sentUp, readUp, eof>>
  <2>1. UpShut' = TRUE
    BY <1>s, Zenon DEF UpShut
  <2> QED  BY <1>s, <1>c, <2>1 DEF Up!Shut, Up!Next
<1>2. CASE ReadWhole
  <2> DEFINE e == Head(app_send_queue)
  <2>1. /\ app_send_queue # <<>> /\ Holds(app_send_queue, readUp, sentUp)
        /\ eof = FALSE
    BY <1>2, <1>f, <1>p DEF ReadWhole, StreamsInOrder, ReadOpen
  <2>2. e \in UpNodes /\ e.lo = readUp /\ e.lo <= e.hi
    BY <1>g, <1>t, <2>1, HoldsTail, TailFacts
  <2>3. /\ readUp' = e.hi /\ UpShut' = UpShut /\ sentUp' = sentUp
        /\ eof' = (DataLen(e) = 0)
    BY <1>2 DEF ReadWhole, UpShut, trVars, EofAfter
  <2> HIDE DEF e
  <2>4. e.lo \in Nat /\ e.hi \in Nat /\ e.hi <= sentUp
    BY <2>2 DEF UpNodes, GoodNodes, Nodes
  <2>5. CASE e.lo = e.hi
    <3>1. UpShut /\ readUp' = readUp /\ readUp = sentUp
      BY <2>2, <2>3, <2>4, <2>5 DEF UpNodes
    <3>2. DataLen(e) = 0
      BY <2>4, <2>5 DEF DataLen
    <3>3. eof' = TRUE
      BY <2>3, <3>2, Zenon
    <3> QED  BY <1>c, <2>1, <2>3, <3>1, <3>3 DEF Up!End, Up!Next
  <2>6. CASE e.lo # e.hi
    <3>2. DataLen(e) # 0
      BY <2>4, <2>6 DEF DataLen
    <3>1. eof' = FALSE
      BY <2>3, <3>2, Zenon
    <3> QED  BY <1>c, <2>1, <2>2, <2>3, <2>4, <3>1 DEF Up!Receive, Up!Next
  <2> QED  BY <2>5, <2>6
<1>3. CASE ReadCopy
  <2> DEFINE e == Head(app_send_queue)
  <2>1. /\ app_send_queue # <<>> /\ Holds(app_send_queue, readUp, sentUp)
        /\ rdmax < DataLen(e) /\ eof = FALSE /\ rdmax # 0
    BY <1>3, <1>f, <1>p DEF ReadCopy, QueuesReady, StreamsInOrder, ReadOpen
  <2>2. e \in UpNodes /\ e.lo = readUp
    BY <1>g, <1>t, <2>1, HoldsTail, TailFacts
  <2>3. /\ readUp' = e.lo + rdmax /\ UpShut' = UpShut /\ sentUp' = sentUp
        /\ eof' = (rdmax = 0)
    BY <1>3 DEF ReadCopy, UpShut, trVars, EofAfter
  <2> HIDE DEF e
  <2>4. e.lo \in Nat /\ e.hi \in Nat /\ e.hi <= sentUp
    BY <2>2 DEF UpNodes, GoodNodes, Nodes
  <2>5. eof' = FALSE
    BY <2>1, <2>3
  <2>6. readUp' \in Nat /\ readUp' >= readUp /\ readUp' <= sentUp
    BY <1>t, <2>1, <2>2, <2>3, <2>4 DEF DataLen
  <2> QED  BY <1>c, <2>1, <2>3, <2>5, <2>6 DEF Up!Receive, Up!Next
<1>4. ASSUME NEW m \in NetRecvMaxes, NetworkRecv(m)
      PROVE  Up!Next \/ UNCHANGED Up!pipeVars
  <2> DEFINE p == Head(network_recv_queue)
  <2>1. network_recv_queue # <<>> /\ tr = "handle" /\ UNCHANGED <<readUp, eof>>
    BY <1>4, <1>p DEF NetworkRecv, QueuesReady, flagVars
  <2>2. p \in Packet
    BY <1>g, <2>1, TailFacts
  <2>3. CASE p.kind = "data" /\ ~finSeen
    <3>1. /\ sentUp' = sentUp + p.len /\ p.len \in Nat /\ tr' = "upbcast"
          /\ finSeen' = finSeen
      BY <1>4, <2>2, <2>3 DEF NetworkRecv, Packet
    <3>2. UpShut = FALSE /\ UpShut' = FALSE
      BY <2>1, <2>3, <3>1 DEF UpShut
    <3>3. sentUp' \in Nat /\ sentUp' >= sentUp
      BY <1>t, <3>1
    <3> QED  BY <1>c, <2>1, <3>2, <3>3 DEF Up!Send, Up!Next
  <2>4. CASE p.kind = "fin"
    <3>1. finSeen' = TRUE /\ sentUp' = sentUp
      BY <1>4, <2>4 DEF NetworkRecv
    <3> QED  BY <1>s, <2>1, <3>1 DEF UpShut
  <2>5. CASE ~(p.kind = "data" /\ ~finSeen) /\ p.kind # "fin"
    <3>1. sentUp' = sentUp /\ finSeen' = finSeen /\ tr' \in {"handle", "unwind"}
      BY <1>4, <2>1, <2>5 DEF NetworkRecv
    <3> QED  BY <1>1, <2>1, <3>1 DEF UpShut
  <2> QED  BY <2>3, <2>4, <2>5
<1> USE DEF appVars, trVars, flagVars, streamVars, histVars
<1>5. CASE EnqueueEof
  BY <1>5, <1>s DEF EnqueueEof, UpShut
<1>6. CASE ExitBroadcast
  BY <1>6, <1>s DEF ExitBroadcast, UpShut
<1>7. CASE AppCall
  <2>1. UNCHANGED <<sentUp, readUp, eof, finSeen>>
    BY <1>7 DEF AppCall, Connect, Write, Read, Close
  <2>2. tr' = tr \/ (tr = "none" /\ tr' = "start")
    BY <1>7, <1>p DEF AppCall, Connect, Write, Read, Close, Joined
  <2> QED  BY <1>1, <2>1, <2>2 DEF UpShut
<1> USE DEF UpShut
<1>8. CASE WaitForConnection \/ WriteBroadcast \/ ReadWait \/ ReadPartial
  BY <1>1, <1>8 DEF WaitForConnection, WriteBroadcast, ReadWait, ReadPartial
<1>9. CASE CloseBroadcast \/ JoinTransport \/ StopRecvThread \/ JoinRecv
             \/ FreeContext
  BY <1>1, <1>9 DEF CloseBroadcast, JoinTransport, StopRecvThread, JoinRecv,
     FreeContext
<1>10. CASE SkeletonInit \/ SendSyn \/ Handshake \/ SignalConnected
              \/ WaitSleep
  BY <1>1, <1>10 DEF SkeletonInit, SendSyn, Handshake, SignalConnected,
     EnterWait, Unblock, WaitSleep
<1>11. CASE SkeletonLoop \/ WaitTimeout \/ stcp_wait_for_event
  BY <1>1, <1>11 DEF SkeletonLoop, EnterWait, WaitTimeout, stcp_wait_for_event
<1>12. CASE \/ \E m \in RecvMaxes : AppRecvPartial(m) \/ AppRecvWhole(m)
            \/ AppRecvCopy
  BY <1>1, <1>12 DEF AppRecvPartial, AppRecvWhole, AppRecvCopy
<1>13. CASE UpBroadcast \/ SignalFailed
  BY <1>1, <1>13 DEF UpBroadcast, SignalFailed
<1>14. CASE LoopEnd
  BY <1>1, <1>14 DEF LoopEnd, EnterWait
<1>15. CASE Unwind
  BY <1>1, <1>15 DEF Unwind, Unblock
<1>16. CASE RxStep
  BY <1>1, <1>16 DEF RxStep, Poll, TcpConnect, RecvPacket, RecvError,
     RecvBroadcast
<1>17. CASE Peer \/ SpuriousWakeup
  BY <1>1, <1>17 DEF Peer, PeerStart, PeerSend, PeerClose, SpuriousWakeup
<1>18. CASE UNCHANGED vars
  BY <1>1, <1>18 DEF vars
<1> QED
  BY <1>2, <1>3, <1>4, <1>5, <1>6, <1>7, <1>8, <1>9, <1>10, <1>11, <1>12,
     <1>13, <1>14, <1>15, <1>16, <1>17, <1>18 DEF Next, AppStep, TrStep

\* What the transport layer passes up reaches myread as a byte pipe that ends,
\* with myread returning 0, only after the last byte.
THEOREM UpIsPipe == Spec /\ CopiesWhole => UpPipe
<1>1. Init => Up!Init
  BY DEF Init, Up!Init, UpShut
<1> QED  BY <1>1, PipeInit, PipeStep, UpStep, PTL DEF Spec, UpPipe, Up!Spec
=============================================================================
