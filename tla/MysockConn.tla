----------------------------- MODULE MysockConn -----------------------------
(***************************************************************************)
(* One active STCP connection of Assignment3: a mysock_context_t shared by *)
(* the application thread (myconnect, mywrite, myread, myclose), the       *)
(* transport thread (transport_thread_func and the stcp_ calls it makes)   *)
(* and the network receive thread (network_recv_thread_func).              *)
(*                                                                         *)
(* A critical section of data_ready_lock or blocking_lock is one step;     *)
(* what the code does after the unlock (the broadcast, the copy out of a   *)
(* partially dequeued packet) is a step of its own.  A thread blocked in   *)
(* pthread_cond_wait is a member of the set of that condition's waiters.   *)
(*                                                                         *)
(* The bytes of a direction are numbered from 1; a queued buffer holds the *)
(* bytes lo+1..hi of its stream, and ok says that they are still intact.   *)
(***************************************************************************)
EXTENDS Naturals, Sequences

CONSTANTS
  WriteLens,     \* lengths the application passes to mywrite
  ReadMaxes,     \* buffer sizes it passes to myread
  RecvMaxes,     \* buffer sizes the transport passes to stcp_app_recv
  PacketLens,    \* payload lengths of the peer's data packets
  NetRecvMaxes,  \* buffer sizes the transport passes to stcp_network_recv
  WaitFlags,     \* flag sets it passes to stcp_wait_for_event
  MaxBytes,      \* bound on the bytes the application writes
  MaxQueue,      \* bound on the buffers waiting in app_recv_queue
  MaxPackets,    \* bound on the packets the peer sends
  Transports,    \* the transport layers to link: "skeleton" (transport.c) or "stcp"
  OverlapSafe    \* memcpy between overlapping buffers behaves like memmove

APP_DATA == "APP_DATA"
NETWORK_DATA == "NETWORK_DATA"
APP_CLOSE_REQUESTED == "APP_CLOSE_REQUESTED"
ANY_EVENT == {APP_DATA, NETWORK_DATA, APP_CLOSE_REQUESTED}

\* errno values
EINTR == 4
ETIMEDOUT == 110
ECONNREFUSED == 111

ASSUME LensAssumption ==
  /\ WriteLens \subseteq Nat
  /\ ReadMaxes \subseteq Nat
  /\ RecvMaxes \subseteq Nat
  /\ PacketLens \subseteq Nat \ {0}
  /\ NetRecvMaxes \subseteq Nat
  /\ MaxBytes \in Nat /\ MaxQueue \in Nat /\ MaxPackets \in Nat
ASSUME FlagsAssumption ==
  /\ WaitFlags \subseteq SUBSET ANY_EVENT
  /\ Transports \subseteq {"skeleton", "stcp"} /\ OverlapSafe \in BOOLEAN

VARIABLES
  transport,                   \* the transport layer the program was linked with
  app, rdmax,                  \* application thread: where it is, myread's buf_len
  tr, trmax, wflags, ev,       \* transport thread: where it is, its arguments, pending event bits
  rx,                          \* network receive thread
  app_recv_queue, app_send_queue, network_recv_queue,
  close_requested, eof, blocking, stcp_errno, freed,
  data_ready_waiters, blocking_waiters,
  exit_pipe, connected,
  net, peerSent, partial, peerClosed,       \* TCP socket to the peer
  written, taken, sentUp, readUp,           \* stream positions (history)
  established, finSeen,                     \* the transport's view of the peer
  clean, closeEvents                        \* history of what the calls returned

appVars == <<app, rdmax>>
trVars == <<tr, trmax, wflags, ev>>
queueVars == <<app_recv_queue, app_send_queue, network_recv_queue>>
flagVars == <<close_requested, eof, blocking, stcp_errno, freed>>
waitVars == <<data_ready_waiters, blocking_waiters>>
netVars == <<exit_pipe, connected, net, peerSent, partial, peerClosed>>
streamVars == <<written, taken, sentUp, readUp>>
histVars == <<established, finSeen, clean, closeEvents>>
vars == <<transport, appVars, trVars, rx, queueVars, flagVars, waitVars,
          netVars, streamVars, histVars>>

-----------------------------------------------------------------------------
(* Packet queues *)

Node(from, n, good) == [lo |-> from, hi |-> from + n, ok |-> good]

DataLen(node) == node.hi - node.lo

\* the packets of the network queue: a SYN, a FIN, n bytes of data, or the
\* empty buffer with which the receive thread signals an error
Packet == [kind : {"syn", "fin", "data", "err"}, len : Nat]
ErrorPacket == [kind |-> "err", len |-> 0]

\* pthread_cond_broadcast(&ctx->data_ready_cond)
BroadcastMissing == UNCHANGED <<data_ready_waiters, blocking_waiters>>
Broadcast == /\ data_ready_waiters' = {}
             /\ UNCHANGED blocking_waiters

\* what memcpy may leave when the rest of a node is moved to its front
CopyOutcomes(node, max) ==
  IF DataLen(node) - max > max /\ ~OverlapSafe THEN BOOLEAN ELSE {TRUE}

\* the node that stays at the head after max bytes were taken from it
ShrinkInPlace(node, max, good) == [node EXCEPT !.ok = @ /\ good]
Shrink(node, max, good) == [node EXCEPT !.lo = @ + max, !.ok = @ /\ good]
ReplaceHead(q, node) == [q EXCEPT ![1] = node]

-----------------------------------------------------------------------------
(* Initial state: mysocket() has returned *)

Init ==
  /\ transport \in Transports
  /\ app = "new" /\ rdmax = 0
  /\ tr = "none" /\ trmax = 0 /\ wflags = {} /\ ev = {}
  /\ rx = "none"
  /\ app_recv_queue = <<>> /\ app_send_queue = <<>> /\ network_recv_queue = <<>>
  /\ close_requested = FALSE /\ eof = FALSE /\ blocking = TRUE
  /\ stcp_errno = 0 /\ freed = FALSE
  /\ data_ready_waiters = {} /\ blocking_waiters = {}
  /\ exit_pipe = FALSE /\ connected = FALSE
  /\ net = <<>> /\ peerSent = 0 /\ partial = FALSE /\ peerClosed = FALSE
  /\ written = 0 /\ taken = 0 /\ sentUp = 0 /\ readUp = 0
  /\ established = FALSE /\ finSeen = FALSE
  /\ clean = TRUE /\ closeEvents = 0

-----------------------------------------------------------------------------
(* Application thread *)

\* myconnect: _mysock_transport_init starts the receive thread, then the
\* transport thread
Connect ==
  /\ app = "new"
  /\ app' = "connecting" /\ rx' = "poll" /\ tr' = "start"
  /\ UNCHANGED <<transport, rdmax, trmax, wflags, ev, queueVars, flagVars,
                 waitVars, netVars, streamVars, histVars>>

\* _mysock_wait_for_connection: one pass of the loop under blocking_lock
WaitForConnection ==
  /\ app = "connecting" /\ "app" \notin blocking_waiters
  /\ \/ /\ blocking
        /\ blocking_waiters' = blocking_waiters \cup {"app"}
        /\ UNCHANGED app
     \/ /\ ~blocking
        /\ app' = IF stcp_errno = 0 THEN "open" ELSE "failed"
        /\ UNCHANGED blocking_waiters
  /\ UNCHANGED <<transport, rdmax, trVars, rx, queueVars, flagVars,
                 data_ready_waiters, netVars, streamVars, histVars>>

\* mywrite(sd, buf, n): enqueue under the lock; the broadcast follows
Write(n) ==
  /\ app = "open" /\ written + n <= MaxBytes
  /\ Len(app_recv_queue) < MaxQueue
  /\ app_recv_queue' = Append(app_recv_queue, Node(written, n, TRUE))
  /\ written' = written + n
  /\ app' = "wbcast"
  /\ UNCHANGED <<transport, rdmax, trVars, rx, app_send_queue,
                 network_recv_queue, flagVars, waitVars, netVars, taken,
                 sentUp, readUp, histVars>>

WriteBroadcast ==
  /\ app = "wbcast" /\ app' = "open" /\ Broadcast
  /\ UNCHANGED <<transport, rdmax, trVars, rx, queueVars, flagVars, netVars,
                 streamVars, histVars>>

\* myread(sd, buf, m): returns 0 at once when eof is set
Read(m) ==
  /\ app = "open" /\ ~eof
  /\ app' = "read" /\ rdmax' = m
  /\ UNCHANGED <<transport, trVars, rx, queueVars, flagVars, waitVars,
                 netVars, streamVars, histVars>>

\* myread sets eof when it is about to return len = 0
EofOnShortRead(len) == len <= 1
EofAfter(len) == len = 0

\* _mysock_dequeue_buffer on app_send_queue, called by myread, under
\* data_ready_lock: sleep while the queue is empty, ...
ReadWait ==
  /\ app = "read" /\ "app" \notin data_ready_waiters
  /\ app_send_queue = <<>>
  /\ data_ready_waiters' = data_ready_waiters \cup {"app"}
  /\ UNCHANGED <<transport, appVars, trVars, rx, queueVars, flagVars,
                 blocking_waiters, netVars, streamVars, histVars>>

\* ... leave the lock to copy a part of the first node, ...
ReadPartial ==
  /\ app = "read" /\ "app" \notin data_ready_waiters
  /\ app_send_queue # <<>> /\ DataLen(Head(app_send_queue)) > rdmax
  /\ app' = "rdcopy"
  /\ UNCHANGED <<transport, rdmax, trVars, rx, queueVars, flagVars, waitVars,
                 netVars, streamVars, histVars>>

\* ... or remove the whole node and return its length
ReadWhole ==
  /\ app = "read" /\ "app" \notin data_ready_waiters
  /\ app_send_queue # <<>> /\ DataLen(Head(app_send_queue)) <= rdmax
  /\ app_send_queue' = Tail(app_send_queue)
  /\ readUp' = Head(app_send_queue).hi
  /\ eof' = EofAfter(DataLen(Head(app_send_queue)))
  /\ clean' = (clean /\ Head(app_send_queue).ok)
  /\ app' = "open" /\ rdmax' = 0
  /\ UNCHANGED <<transport, trVars, rx, app_recv_queue, network_recv_queue,
                 close_requested, blocking, stcp_errno, freed, waitVars,
                 netVars, written, taken, sentUp, established, finSeen,
                 closeEvents>>

\* the part of a partial dequeue that runs after the unlock
ReadCopy ==
  /\ app = "rdcopy"
  /\ \E good \in CopyOutcomes(Head(app_send_queue), rdmax) :
       app_send_queue' =
         ReplaceHead(app_send_queue, Shrink(Head(app_send_queue), rdmax, good))
  /\ readUp' = Head(app_send_queue).lo + rdmax
  /\ clean' = (clean /\ Head(app_send_queue).ok)
  /\ eof' = EofAfter(rdmax)
  /\ app' = "open" /\ rdmax' = 0
  /\ UNCHANGED <<transport, trVars, rx, app_recv_queue, network_recv_queue,
                 close_requested, blocking, stcp_errno, freed, waitVars,
                 netVars, written, taken, sentUp, established, finSeen,
                 closeEvents>>

\* myclose: set close_requested under the lock; the broadcast follows
CloseSilently ==
  /\ app \in {"new", "open", "failed"}
  /\ close_requested' = TRUE
  /\ app' = "jointr"
  /\ UNCHANGED <<transport, rdmax, trVars, rx, queueVars, eof, blocking,
                 stcp_errno, freed, waitVars, netVars, streamVars, histVars>>
Close ==
  /\ app \in {"new", "open", "failed"}
  /\ close_requested' = TRUE
  /\ app' = "clbcast"
  /\ UNCHANGED <<transport, rdmax, trVars, rx, queueVars, eof, blocking,
                 stcp_errno, freed, waitVars, netVars, streamVars, histVars>>

CloseBroadcast ==
  /\ app = "clbcast" /\ app' = "jointr" /\ Broadcast
  /\ UNCHANGED <<transport, rdmax, trVars, rx, queueVars, flagVars, netVars,
                 streamVars, histVars>>

\* pthread_join(ctx->transport_thread), when it was started
JoinTransportSkipped ==
  /\ app = "jointr" /\ app' = "stoprx"
  /\ UNCHANGED <<transport, rdmax, trVars, rx, queueVars, flagVars, waitVars,
                 netVars, streamVars, histVars>>
JoinTransport ==
  /\ app = "jointr" /\ tr \in {"none", "exited"}
  /\ app' = "stoprx"
  /\ UNCHANGED <<transport, rdmax, trVars, rx, queueVars, flagVars, waitVars,
                 netVars, streamVars, histVars>>

\* _network_stop_recv_thread: a byte down the exit pipe, then pthread_join
StopRecvThreadNoByte ==
  /\ app = "stoprx" /\ app' = "joinrx"
  /\ UNCHANGED <<transport, rdmax, trVars, rx, queueVars, flagVars, waitVars,
                 netVars, streamVars, histVars>>
StopRecvThread ==
  /\ app = "stoprx"
  /\ exit_pipe' = (rx # "none")
  /\ app' = "joinrx"
  /\ UNCHANGED <<transport, rdmax, trVars, rx, queueVars, flagVars, waitVars,
                 connected, net, peerSent, partial, peerClosed, streamVars,
                 histVars>>

JoinRecv ==
  /\ app = "joinrx" /\ rx \in {"none", "done"}
  /\ app' = "free"
  /\ UNCHANGED <<transport, rdmax, trVars, rx, queueVars, flagVars, waitVars,
                 netVars, streamVars, histVars>>

\* _mysock_free_context: the queues are discarded, the socket is closed
FreeContext ==
  /\ app = "free"
  /\ freed' = TRUE /\ app' = "closed"
  /\ app_recv_queue' = <<>> /\ app_send_queue' = <<>>
  /\ network_recv_queue' = <<>>
  /\ UNCHANGED <<transport, rdmax, trVars, rx, close_requested, eof, blocking,
                 stcp_errno, waitVars, netVars, streamVars, histVars>>

AppCall ==
  \/ Connect
  \/ \E n \in WriteLens : Write(n)
  \/ \E m \in ReadMaxes : Read(m)
  \/ Close

AppStep ==
  \/ WaitForConnection \/ WriteBroadcast \/ ReadWait \/ ReadPartial
  \/ ReadWhole \/ ReadCopy \/ CloseBroadcast \/ JoinTransport
  \/ StopRecvThread \/ JoinRecv \/ FreeContext

-----------------------------------------------------------------------------
(* Transport thread: stcp_api.c, called by transport_init *)

\* stcp_unblock_application(sd) with errno = e, up to the unlock; the signal
\* follows (the mysocket is active, so nothing else does)
UnblockRaw(e) ==
  /\ blocking' = FALSE /\ stcp_errno' = e
  /\ UNCHANGED <<close_requested, eof, freed>>
Unblock(e) ==
  /\ blocking' = FALSE
  /\ stcp_errno' = IF e = EINTR THEN 0 ELSE e
  /\ UNCHANGED <<close_requested, eof, freed>>

SignalMissing == UNCHANGED <<data_ready_waiters, blocking_waiters>>
Signal ==
  /\ \/ blocking_waiters = {} /\ UNCHANGED blocking_waiters
     \/ \E t \in blocking_waiters : blocking_waiters' = blocking_waiters \ {t}
  /\ UNCHANGED data_ready_waiters

\* transport_init as committed: no handshake
SkeletonInit ==
  /\ transport = "skeleton" /\ tr = "start"
  /\ Unblock(0)
  /\ tr' = "signal" /\ established' = TRUE
  /\ UNCHANGED <<transport, appVars, trmax, wflags, ev, rx, queueVars,
                 waitVars, netVars, streamVars, finSeen, clean, closeEvents>>

\* an STCP sends its SYN: stcp_network_send connects the socket on first use
SendSyn ==
  /\ transport = "stcp" /\ tr = "start"
  /\ \/ connected' = TRUE /\ tr' = "syn"
     \/ ~connected /\ UNCHANGED connected /\ tr' = "unwind"
  /\ UNCHANGED <<transport, appVars, trmax, wflags, ev, rx, queueVars,
                 flagVars, waitVars, exit_pipe, net, peerSent, partial,
                 peerClosed, streamVars, histVars>>

\* it then waits for the SYN-ACK, ignoring anything else, and gives up on the
\* receive thread's error packet or after its own time-out
Handshake ==
  /\ tr = "syn"
  /\ \/ /\ network_recv_queue # <<>>
        /\ network_recv_queue' = Tail(network_recv_queue)
        /\ \/ /\ Head(network_recv_queue).kind = "syn"
              /\ \E e \in {0, EINTR} : Unblock(e)
              /\ tr' = "signal" /\ established' = TRUE
           \/ /\ Head(network_recv_queue).kind = "err"
              /\ tr' = "unwind" /\ UNCHANGED <<flagVars, established>>
           \/ /\ Head(network_recv_queue).kind \in {"data", "fin"}
              /\ UNCHANGED <<tr, flagVars, established>>
     \/ /\ tr' = "unwind"
        /\ UNCHANGED <<network_recv_queue, flagVars, established>>
  /\ UNCHANGED <<transport, appVars, trmax, wflags, ev, rx, app_recv_queue,
                 app_send_queue, waitVars, netVars, streamVars, finSeen,
                 clean, closeEvents>>

EnterWait(flags) ==
  /\ tr' = "wait" /\ wflags' = flags

SignalConnected ==
  /\ tr = "signal" /\ Signal
  /\ \E flags \in WaitFlags : EnterWait(flags)
  /\ UNCHANGED <<transport, appVars, trmax, ev, rx, queueVars, flagVars,
                 netVars, streamVars, histVars>>

\* the bits stcp_wait_for_event finds set in one pass under data_ready_lock;
\* the close bit does not depend on the flags
CloseReadyAtOnce == close_requested
CloseReady == close_requested /\ app_recv_queue = <<>>
ReadyEvents ==
  {b \in ANY_EVENT :
     \/ b = APP_DATA /\ b \in wflags /\ app_recv_queue # <<>>
     \/ b = NETWORK_DATA /\ b \in wflags /\ network_recv_queue # <<>>
     \/ b = APP_CLOSE_REQUESTED /\ CloseReady}

\* stcp_wait_for_event returns the bits it found ...
stcp_wait_for_event ==
  /\ tr = "wait" /\ "tr" \notin data_ready_waiters
  /\ ReadyEvents # {}
  /\ ev' = ReadyEvents /\ tr' = "handle" /\ wflags' = {}
  /\ close_requested' = (close_requested /\ ~CloseReady)
  /\ closeEvents' = IF CloseReady THEN closeEvents + 1 ELSE closeEvents
  /\ UNCHANGED <<transport, appVars, trmax, rx, queueVars, eof, blocking,
                 stcp_errno, freed, waitVars, netVars, streamVars,
                 established, finSeen, clean>>

\* ... or sleeps when there are none
WaitSleep ==
  /\ tr = "wait" /\ "tr" \notin data_ready_waiters
  /\ ReadyEvents = {}
  /\ data_ready_waiters' = data_ready_waiters \cup {"tr"}
  /\ UNCHANGED <<transport, appVars, trVars, rx, queueVars, flagVars,
                 blocking_waiters, netVars, streamVars, histVars>>

\* ETIMEDOUT: the call returns 0 without looking at the queues again
WaitTimeout ==
  /\ transport = "stcp" /\ tr = "wait" /\ "tr" \in data_ready_waiters
  /\ data_ready_waiters' = data_ready_waiters \ {"tr"}
  /\ ev' = {} /\ tr' = "handle" /\ wflags' = {}
  /\ UNCHANGED <<transport, appVars, trmax, rx, queueVars, flagVars,
                 blocking_waiters, netVars, streamVars, histVars>>

\* control_loop as committed: every event is ignored, done is never set
SkeletonLoop ==
  /\ transport = "skeleton" /\ tr = "handle"
  /\ ev' = {} /\ EnterWait(ANY_EVENT)
  /\ UNCHANGED <<transport, appVars, trmax, rx, queueVars, flagVars, waitVars,
                 netVars, streamVars, histVars>>

\* stcp_app_recv(sd, dst, m) after an APP_DATA event: part of the first node,
\* copied after the unlock, ...
AppRecvPartial(m) ==
  /\ transport = "stcp" /\ tr = "handle" /\ APP_DATA \in ev
  /\ ev' = ev \ {APP_DATA}
  /\ DataLen(Head(app_recv_queue)) > m
  /\ tr' = "trcopy" /\ trmax' = m
  /\ UNCHANGED <<transport, appVars, wflags, rx, queueVars, flagVars,
                 waitVars, netVars, streamVars, histVars>>

\* ... or the whole of it
AppRecvWhole(m) ==
  /\ transport = "stcp" /\ tr = "handle" /\ APP_DATA \in ev
  /\ ev' = ev \ {APP_DATA}
  /\ DataLen(Head(app_recv_queue)) <= m
  /\ app_recv_queue' = Tail(app_recv_queue)
  /\ taken' = Head(app_recv_queue).hi
  /\ clean' = (clean /\ Head(app_recv_queue).ok)
  /\ UNCHANGED <<transport, appVars, tr, trmax, wflags, rx, app_send_queue,
                 network_recv_queue, flagVars, waitVars, netVars, written,
                 sentUp, readUp, established, finSeen, closeEvents>>

\* the part of stcp_app_recv's partial dequeue that runs after the unlock
AppRecvCopy ==
  /\ tr = "trcopy"
  /\ \E good \in CopyOutcomes(Head(app_recv_queue), trmax) :
       app_recv_queue' =
         ReplaceHead(app_recv_queue, Shrink(Head(app_recv_queue), trmax, good))
  /\ taken' = Head(app_recv_queue).lo + trmax
  /\ clean' = (clean /\ Head(app_recv_queue).ok)
  /\ tr' = "handle" /\ trmax' = 0
  /\ UNCHANGED <<transport, appVars, wflags, ev, rx, app_send_queue,
                 network_recv_queue, flagVars, waitVars, netVars, written,
                 sentUp, readUp, established, finSeen, closeEvents>>

\* stcp_network_recv(sd, dst, m) after a NETWORK_DATA event: the whole packet
\* is dequeued and its length returned, but at most m bytes are copied.
\* Data goes up with stcp_app_send, a FIN with stcp_fin_received.
NetworkRecv(m) ==
  /\ transport = "stcp" /\ tr = "handle"
  /\ NETWORK_DATA \in ev /\ APP_DATA \notin ev
  /\ ev' = ev \ {NETWORK_DATA}
  /\ LET p == Head(network_recv_queue)
         copied == IF p.len < m THEN p.len ELSE m
     IN /\ network_recv_queue' = Tail(network_recv_queue)
        /\ \/ /\ p.kind = "data" /\ ~finSeen
              /\ app_send_queue' =
                   Append(app_send_queue, Node(sentUp, p.len, p.len = copied))
              /\ sentUp' = sentUp + p.len
              /\ tr' = "upbcast"
              /\ UNCHANGED finSeen
           \/ /\ p.kind = "fin"
              /\ app_send_queue' = Append(app_send_queue, Node(sentUp, 0, TRUE))
              /\ finSeen' = TRUE
              /\ tr' = "upbcast"
              /\ UNCHANGED sentUp
           \/ /\ p.kind = "err"
              /\ tr' = "unwind"
              /\ UNCHANGED <<app_send_queue, sentUp, finSeen>>
           \/ /\ \/ p.kind = "syn"
                 \/ p.kind = "data" /\ finSeen
              /\ UNCHANGED <<app_send_queue, sentUp, finSeen, tr>>
  /\ UNCHANGED <<transport, appVars, trmax, wflags, rx, app_recv_queue,
                 flagVars, waitVars, netVars, written, taken, readUp,
                 established, clean, closeEvents>>

UpBroadcast ==
  /\ tr = "upbcast" /\ tr' = "handle" /\ Broadcast
  /\ UNCHANGED <<transport, appVars, trmax, wflags, ev, rx, queueVars,
                 flagVars, netVars, streamVars, histVars>>

\* the end of an STCP's loop: done once both sides have closed
LoopEnd ==
  /\ transport = "stcp" /\ tr = "handle" /\ ev \subseteq {APP_CLOSE_REQUESTED}
  /\ ev' = {}
  /\ \/ /\ closeEvents > 0 /\ finSeen
        /\ tr' = "unwind" /\ UNCHANGED wflags
     \/ /\ ~(closeEvents > 0 /\ finSeen)
        /\ \E flags \in WaitFlags : EnterWait(flags)
  /\ UNCHANGED <<transport, appVars, trmax, rx, queueVars, flagVars, waitVars,
                 netVars, streamVars, histVars>>

\* the errno reported when transport_init returned with errno = e
GivenErrno(e) == e
FailureErrno(e) == IF e \in {0, EINTR} THEN ECONNREFUSED ELSE e

\* transport_thread_func after transport_init returned: unblock the
\* application if the transport layer has not
Unwind ==
  /\ tr = "unwind"
  /\ \/ /\ blocking
        /\ \E e \in {0, EINTR, ETIMEDOUT} : Unblock(FailureErrno(e))
        /\ tr' = "sigerr"
     \/ ~blocking /\ UNCHANGED flagVars /\ tr' = "eof"
  /\ UNCHANGED <<transport, appVars, trmax, wflags, ev, rx, queueVars,
                 waitVars, netVars, streamVars, histVars>>

SignalFailed ==
  /\ tr = "sigerr" /\ Signal /\ tr' = "eof"
  /\ UNCHANGED <<transport, appVars, trmax, wflags, ev, rx, queueVars,
                 flagVars, netVars, streamVars, histVars>>

\* "force final myread() to return 0 bytes", then the thread exits
EnqueueEofForgotten ==
  /\ tr = "eof" /\ tr' = "exited"
  /\ UNCHANGED <<transport, appVars, trmax, wflags, ev, rx, queueVars,
                 flagVars, waitVars, netVars, streamVars, histVars>>
EnqueueEof ==
  /\ tr = "eof"
  /\ app_send_queue' = Append(app_send_queue, Node(sentUp, 0, TRUE))
  /\ tr' = "exbcast"
  /\ UNCHANGED <<transport, appVars, trmax, wflags, ev, rx, app_recv_queue,
                 network_recv_queue, flagVars, waitVars, netVars, streamVars,
                 histVars>>

ExitBroadcast ==
  /\ tr = "exbcast" /\ tr' = "exited" /\ Broadcast
  /\ UNCHANGED <<transport, appVars, trmax, wflags, ev, rx, queueVars,
                 flagVars, netVars, streamVars, histVars>>

TrStep ==
  \/ SkeletonInit \/ SendSyn \/ Handshake \/ SignalConnected
  \/ stcp_wait_for_event \/ WaitSleep \/ SkeletonLoop
  \/ \E m \in RecvMaxes : AppRecvPartial(m) \/ AppRecvWhole(m)
  \/ AppRecvCopy
  \/ \E m \in NetRecvMaxes : NetworkRecv(m)
  \/ UpBroadcast \/ LoopEnd \/ Unwind \/ SignalFailed \/ EnqueueEof
  \/ ExitBroadcast

-----------------------------------------------------------------------------
(* Network receive thread *)

\* poll(): the exit pipe wins; an unconnected socket is reported as ready
Poll ==
  /\ rx = "poll"
  /\ \/ exit_pipe /\ rx' = "done"
     \/ /\ ~exit_pipe
        /\ net # <<>> \/ partial \/ peerClosed \/ ~connected
        /\ rx' = "connect"
  /\ UNCHANGED <<transport, appVars, trVars, queueVars, flagVars, waitVars,
                 netVars, streamVars, histVars>>

\* _network_recv_packet calls _tcp_connect first on an active mysocket
TcpConnect ==
  /\ rx = "connect"
  /\ \/ connected' = TRUE /\ rx' = "reading"
     \/ ~connected /\ UNCHANGED connected /\ rx' = "err"
  /\ UNCHANGED <<transport, appVars, trVars, queueVars, flagVars, waitVars,
                 exit_pipe, net, peerSent, partial, peerClosed, streamVars,
                 histVars>>

\* _tcp_io: read a whole packet, or 0 bytes once the peer has closed
RecvPacket ==
  /\ rx = "reading"
  /\ \/ /\ net # <<>>
        /\ net' = Tail(net)
        /\ network_recv_queue' = Append(network_recv_queue, Head(net))
        /\ rx' = "nbcast"
     \/ /\ net = <<>> /\ peerClosed
        /\ rx' = "err"
        /\ UNCHANGED <<net, network_recv_queue>>
  /\ UNCHANGED <<transport, appVars, trVars, app_recv_queue, app_send_queue,
                 flagVars, waitVars, exit_pipe, connected, peerSent, partial,
                 peerClosed, streamVars, histVars>>

\* "signal an error to the transport layer", then the thread exits
RecvError ==
  /\ rx = "err"
  /\ network_recv_queue' = Append(network_recv_queue, ErrorPacket)
  /\ rx' = "errbcast"
  /\ UNCHANGED <<transport, appVars, trVars, app_recv_queue, app_send_queue,
                 flagVars, waitVars, netVars, streamVars, histVars>>

RecvBroadcast ==
  /\ \/ rx = "nbcast" /\ rx' = "poll"
     \/ rx = "errbcast" /\ rx' = "done"
  /\ Broadcast
  /\ UNCHANGED <<transport, appVars, trVars, queueVars, flagVars, netVars,
                 streamVars, histVars>>

RxStep == Poll \/ TcpConnect \/ RecvPacket \/ RecvError \/ RecvBroadcast

-----------------------------------------------------------------------------
(* The peer (external): it writes length-prefixed packets and may close its *)
(* socket at any time; the two writes of a packet arrive one after another  *)

PeerStart ==
  /\ connected /\ ~peerClosed /\ ~partial /\ peerSent < MaxPackets
  /\ partial' = TRUE
  /\ UNCHANGED <<transport, appVars, trVars, rx, queueVars, flagVars,
                 waitVars, exit_pipe, connected, net, peerSent, peerClosed,
                 streamVars, histVars>>

PeerPackets ==
  {[kind |-> k, len |-> 1] : k \in {"syn", "fin"}}
    \cup {[kind |-> "data", len |-> n] : n \in PacketLens}

PeerSend(p) ==
  /\ partial /\ ~peerClosed
  /\ partial' = FALSE /\ peerSent' = peerSent + 1
  /\ net' = Append(net, p)
  /\ UNCHANGED <<transport, appVars, trVars, rx, queueVars, flagVars,
                 waitVars, exit_pipe, connected, peerClosed, streamVars,
                 histVars>>

PeerClose ==
  /\ connected /\ ~peerClosed
  /\ peerClosed' = TRUE
  /\ UNCHANGED <<transport, appVars, trVars, rx, queueVars, flagVars,
                 waitVars, exit_pipe, connected, net, peerSent, partial,
                 streamVars, histVars>>

Peer == PeerStart \/ (\E p \in PeerPackets : PeerSend(p)) \/ PeerClose

\* POSIX lets a condition wait return without a signal
SpuriousWakeup ==
  /\ \/ /\ data_ready_waiters # {}
        /\ \E t \in data_ready_waiters :
             data_ready_waiters' = data_ready_waiters \ {t}
        /\ UNCHANGED blocking_waiters
     \/ /\ blocking_waiters' = {} /\ blocking_waiters # {}
        /\ UNCHANGED data_ready_waiters
  /\ UNCHANGED <<transport, appVars, trVars, rx, queueVars, flagVars, netVars,
                 streamVars, histVars>>

Next == AppCall \/ AppStep \/ TrStep \/ WaitTimeout \/ RxStep \/ Peer
        \/ SpuriousWakeup

\* Each thread the program has started keeps running; the application need
\* not make another call, and the peer need not do anything.
Fairness == WF_vars(AppStep) /\ WF_vars(TrStep) /\ WF_vars(RxStep)

Spec == Init /\ [][Next]_vars /\ Fairness

-----------------------------------------------------------------------------
(* Properties *)

AppStates == {"new", "connecting", "open", "failed", "wbcast", "read",
              "rdcopy", "clbcast", "jointr", "stoprx", "joinrx", "free",
              "closed"}
TrStates == {"none", "start", "syn", "signal", "wait", "handle", "trcopy",
             "upbcast", "unwind", "sigerr", "eof", "exbcast", "exited"}
RxStates == {"none", "poll", "connect", "reading", "nbcast", "err",
             "errbcast", "done"}
Nodes == [lo : Nat, hi : Nat, ok : BOOLEAN]

ThreadTypes ==
  /\ transport \in {"skeleton", "stcp"}
  /\ app \in AppStates /\ rdmax \in Nat
  /\ tr \in TrStates /\ trmax \in Nat
  /\ wflags \subseteq ANY_EVENT /\ ev \subseteq ANY_EVENT
  /\ rx \in RxStates
  /\ data_ready_waiters \subseteq {"app", "tr"}
  /\ blocking_waiters \subseteq {"app"}
QueueTypes ==
  /\ app_recv_queue \in Seq(Nodes) /\ app_send_queue \in Seq(Nodes)
  /\ network_recv_queue \in Seq(Packet) /\ net \in Seq(Packet)
FlagTypes ==
  /\ close_requested \in BOOLEAN /\ eof \in BOOLEAN /\ blocking \in BOOLEAN
  /\ stcp_errno \in {0, ETIMEDOUT, ECONNREFUSED} /\ freed \in BOOLEAN
  /\ exit_pipe \in BOOLEAN /\ connected \in BOOLEAN
  /\ peerSent \in Nat /\ partial \in BOOLEAN /\ peerClosed \in BOOLEAN
HistoryTypes ==
  /\ written \in Nat /\ taken \in Nat /\ sentUp \in Nat /\ readUp \in Nat
  /\ established \in BOOLEAN /\ finSeen \in BOOLEAN
  /\ clean \in BOOLEAN /\ closeEvents \in Nat

\* The threads, the queues and the fields of the context have their types; in
\* particular stcp_errno is never EINTR, which means "no error" to the caller.
TypeOK == ThreadTypes /\ QueueTypes /\ FlagTypes /\ HistoryTypes

\* q holds exactly the bytes from+1..to of its stream, in order
Holds(q, from, to) ==
  /\ q = <<>> => from = to
  /\ q # <<>> => q[1].lo = from /\ q[Len(q)].hi = to
  /\ \A i \in DOMAIN q : q[i].lo <= q[i].hi
  /\ \A i \in DOMAIN q : i + 1 \in DOMAIN q => q[i].hi = q[i + 1].lo

\* Until the context is freed, the queue below mywrite holds exactly the bytes
\* written and not yet taken by stcp_app_recv, and the queue below myread the
\* bytes passed up and not yet read: nothing is lost, duplicated or reordered
\* by _mysock_enqueue_buffer and the partial dequeues of
\* _mysock_dequeue_buffer, which touch the head of the queue after the unlock.
StreamsInOrder ==
  ~freed => /\ Holds(app_recv_queue, taken, written)
            /\ Holds(app_send_queue, readUp, sentUp)

\* myclose has been called
Closing == app \in {"clbcast", "jointr", "stoprx", "joinrx", "free", "closed"}
\* the transport has told the application that no more data will come
UpShut == finSeen \/ tr \in {"exbcast", "exited"}

\* myclose frees the context only after both threads have left it, their last
\* broadcast or signal (which follow the unlock) included.
NoUseAfterFree ==
  freed => /\ tr \in {"none", "exited"}
           /\ rx \in {"none", "done"}
           /\ data_ready_waiters = {} /\ blocking_waiters = {}

TransportWoken ==
  "tr" \in data_ready_waiters /\ ReadyEvents # {} =>
    app \in {"wbcast", "clbcast"} \/ rx \in {"nbcast", "errbcast"}
ReaderWoken ==
  "app" \in data_ready_waiters /\ app_send_queue # <<>> =>
    tr \in {"upbcast", "exbcast"}
ConnectorWoken ==
  "app" \in blocking_waiters /\ ~blocking => tr \in {"signal", "sigerr"}

\* A thread sleeping in pthread_cond_wait although what it waits for is there
\* is about to be woken: some thread stands between its unlock and its
\* broadcast or signal.  This is what makes the wait loops of
\* stcp_wait_for_event, _mysock_dequeue_buffer and _mysock_wait_for_connection
\* free of lost wake-ups.
NoLostWakeup == TransportWoken /\ ReaderWoken /\ ConnectorWoken

\* The direction from mywrite to the transport layer is a byte pipe that the
\* application shuts with myclose and whose end is the APP_CLOSE_REQUESTED
\* event: given once, after all the data, as stcp_api.h promises.
Down == INSTANCE BytePipe WITH
          sent <- written, rcvd <- taken, shut <- Closing,
          ended <- closeEvents > 0, intact <- clean
DownPipe == Down!Spec

\* The direction from the transport layer to myread is a byte pipe that the
\* transport shuts with stcp_fin_received, or by exiting, and whose end is the
\* eof flag that makes myread return 0.
Up == INSTANCE BytePipe WITH
        sent <- sentUp, rcvd <- readUp, shut <- UpShut,
        ended <- eof, intact <- clean
UpPipe == Up!Spec

\* myconnect reports success only for a connection the transport layer
\* established: a transport that returns early is reported as an error even
\* when errno says nothing.
SuccessMeansEstablished ==
  app \in {"open", "wbcast", "read", "rdcopy"} => established

Finishing == tr \in {"unwind", "sigerr", "eof", "exbcast", "exited"}

\* myconnect returns: the transport layer or transport_thread_func unblocks it.
ConnectReturns == app = "connecting" ~> app # "connecting"

\* Everything written reaches an STCP unless the connection fails: mywrite's
\* broadcast is not lost, and a partial read is offered again.  (transport.c as
\* committed takes no data.)
DataTaken ==
  transport = "stcp" /\ taken < written ~> taken = written \/ Finishing

\* Once the peer's FIN or the transport's exit has been announced, a blocked
\* myread returns.
ReadReturns == app = "read" /\ UpShut ~> app # "read"

\* Once the peer has finished, myclose gets its close event to the transport
\* layer, behind any data, and joins the transport thread; then the byte in the
\* exit pipe ends the receive thread, and with it myclose, unless that thread
\* is inside a connect or a read at the time.
CloseReturns ==
  /\ Closing /\ finSeen ~> app \in {"joinrx", "free", "closed"}
  /\ app = "joinrx" /\ rx \notin {"connect", "reading"} ~> app = "closed"
=============================================================================
