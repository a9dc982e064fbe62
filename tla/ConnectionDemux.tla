--------------------------- MODULE ConnectionDemux ---------------------------
(***************************************************************************)
(* A listening mysocket of Assignment3: the receive thread of the          *)
(* listening context (network_recv_thread_func, _network_recv_packet,      *)
(* _mysock_enqueue_connection), the transport thread of every connection   *)
(* it creates (up to _mysock_passive_connection_complete), the application *)
(* threads in myaccept (_mysock_dequeue_connection), and the myclose of    *)
(* the listening mysocket (_mysock_close_passive_socket).                  *)
(*                                                                         *)
(* connection_queue is an array of slots; completed_queue holds pointers   *)
(* to slots, here their indices.  An attempt is one TCP connection to the  *)
(* listening port and names the mysocket created for it.  ++q->cur_len     *)
(* (under listen_lock for reading only) and --q->cur_len (under            *)
(* connection_lock as well) are a read step and a write step each: the two *)
(* threads share no lock that excludes them.                               *)
(***************************************************************************)
EXTENDS Integers, Sequences, FiniteSets

CONSTANTS
  Attempts,   \* TCP connections made to the listening port
  Addr,       \* the peer address of each attempt
  Acceptors,  \* application threads that call myaccept and myclose
  Slots,      \* 1..max_len, with max_len = backlog + 1
  Firsts,     \* what an attempt may send first: "syn" or "other"
  Transports, \* the transport layers to link: "skeleton" (transport.c) or "stcp"
  None        \* no descriptor, no owner

ASSUME DemuxAssumption ==
  /\ Addr \in [Attempts -> {Addr[c] : c \in Attempts}]
  /\ IsFiniteSet(Slots) /\ Slots # {} /\ Slots = 1..Cardinality(Slots)
  /\ Firsts \subseteq {"syn", "other"}
  /\ Transports \subseteq {"skeleton", "stcp"}
  /\ None \notin Attempts \cup Acceptors \cup {"listener"}
  /\ Attempts \cap Acceptors = {}
  /\ "listener" \notin Attempts \cup Acceptors

max_len == Cardinality(Slots)

VARIABLES
  transport,                    \* the transport layer the program was linked with
  link, first, tcp_backlog,     \* peers: TCP connections, first packets, not yet accept()ed
  lis, cur, lslot, lreg,        \* listener: where it is, attempt, slot, cur_len read
  tr, stcp_errno, closing, recvq, \* per attempt: transport thread, errno, myclose called, network_recv_queue
  acc, areg, aslot,             \* application threads: where they are, cur_len read, slot
  readers, writer,              \* listen_lock
  connection_lock, cond_waiters,
  connection_queue, completed_queue, cur_len, queueAlive,
  new_socket, sockets,          \* TCP socket not handed over yet; mysockets in use
  exit_pipe, accepted,          \* attempts myaccept has returned
  failure                       \* the assertion that stopped the process, if any

peerVars == <<link, first, tcp_backlog>>
lisVars == <<lis, cur, lslot, lreg>>
trVars == <<tr, stcp_errno, closing, recvq>>
accVars == <<acc, areg, aslot>>
lockVars == <<readers, writer, connection_lock, cond_waiters>>
queueVars == <<connection_queue, completed_queue, cur_len, queueAlive>>
sockVars == <<new_socket, sockets, exit_pipe, accepted>>
vars == <<transport, peerVars, lisVars, trVars, accVars, lockVars, queueVars,
          sockVars, failure>>

Init ==
  /\ transport \in Transports
  /\ link = [c \in Attempts |-> "idle"] /\ first = [c \in Attempts |-> "none"]
  /\ tcp_backlog = {}
  /\ lis = "poll" /\ cur = None /\ lslot = 0 /\ lreg = 0
  /\ tr = [c \in Attempts |-> "none"] /\ stcp_errno = [c \in Attempts |-> 0]
  /\ closing = [c \in Attempts |-> FALSE]
  /\ recvq = [c \in Attempts |-> <<>>]
  /\ acc = [a \in Acceptors |-> "idle"]
  /\ areg = [a \in Acceptors |-> 0] /\ aslot = [a \in Acceptors |-> 0]
  /\ readers = {} /\ writer = None
  /\ connection_lock = None /\ cond_waiters = {}
  /\ connection_queue = [k \in Slots |-> None]
  /\ completed_queue = <<>> /\ cur_len = 0 /\ queueAlive = TRUE
  /\ new_socket = None /\ sockets = {} /\ exit_pipe = FALSE /\ accepted = <<>>
  /\ failure = "none"

\* a failing assert stops the process
NoFailure == failure = "none" /\ UNCHANGED <<failure, transport>>
Fail(what) ==
  /\ failure = "none" /\ failure' = what
  /\ UNCHANGED <<transport, peerVars, lisVars, trVars, accVars, lockVars,
                 queueVars, sockVars>>

\* listen_lock: a default rwlock lets readers in while a writer waits
RdLock(t) == /\ writer = None
             /\ readers' = readers \cup {t}
             /\ UNCHANGED <<writer, connection_lock, cond_waiters>>
RdUnlock(t) == /\ readers' = readers \ {t}
               /\ UNCHANGED <<writer, connection_lock, cond_waiters>>

FreeSlots == {k \in Slots : connection_queue[k] = None}
FirstOf(S) == CHOOSE k \in S : \A j \in S : k <= j

-----------------------------------------------------------------------------
(* The peers (external) *)

PeerConnect(c) ==
  /\ link[c] = "idle"
  /\ \A d \in Attempts \ {c} :
       Addr[d] = Addr[c] => link[d] \in {"idle", "hungup", "read0"}
  /\ link' = [link EXCEPT ![c] = "open"]
  /\ tcp_backlog' = tcp_backlog \cup {c}
  /\ UNCHANGED <<first, lisVars, trVars, accVars, lockVars, queueVars,
                 sockVars>>
  /\ NoFailure

PeerFirst(c, f) ==
  /\ link[c] = "open" /\ first[c] = "none"
  /\ first' = [first EXCEPT ![c] = f]
  /\ UNCHANGED <<link, tcp_backlog, lisVars, trVars, accVars, lockVars,
                 queueVars, sockVars>>
  /\ NoFailure

PeerHangup(c) ==
  /\ link[c] = "open"
  /\ link' = [link EXCEPT ![c] = "hungup"]
  /\ UNCHANGED <<first, tcp_backlog, lisVars, trVars, accVars, lockVars,
                 queueVars, sockVars>>
  /\ NoFailure

-----------------------------------------------------------------------------
(* Receive thread of the listening mysocket *)

\* poll(): the exit pipe wins.  accept() may fail, which ends the thread; the
\* accepted socket is kept in new_socket, which must be free.
ListenPoll ==
  /\ lis = "poll"
  /\ \/ /\ exit_pipe \/ tcp_backlog # {}
        /\ lis' = "done"
        /\ UNCHANGED <<cur, tcp_backlog, new_socket>>
        /\ NoFailure
     \/ /\ ~exit_pipe
        /\ \E c \in tcp_backlog :
             /\ tcp_backlog' = tcp_backlog \ {c}
             /\ \/ /\ new_socket = None
                   /\ new_socket' = c /\ cur' = c /\ lis' = "read"
                   /\ NoFailure
                \/ /\ new_socket # None
                   /\ failure = "none" /\ failure' = "new_socket"
                   /\ UNCHANGED <<transport, new_socket, cur, lis>>
  /\ UNCHANGED <<link, first, lslot, lreg, trVars, accVars, lockVars,
                 queueVars, sockets, exit_pipe, accepted>>

\* the blocking read of the first packet; a peer that hangs up instead makes
\* _network_recv_packet return 0, and the listening thread exits
ListenRead ==
  /\ lis = "read"
  /\ \/ first[cur] # "none" /\ lis' = "rdlock"
     \/ first[cur] = "none" /\ link[cur] = "hungup" /\ lis' = "done"
  /\ UNCHANGED <<peerVars, cur, lslot, lreg, trVars, accVars, lockVars,
                 queueVars, sockVars>>
  /\ NoFailure

\* _mysock_enqueue_connection, from here to ListenSyn
ListenLock ==
  /\ lis = "rdlock" /\ RdLock("listener") /\ lis' = "check"
  /\ UNCHANGED <<peerVars, cur, lslot, lreg, trVars, accVars, queueVars,
                 sockVars>>
  /\ NoFailure

Retransmission ==
  \E k \in Slots : /\ connection_queue[k] # None
                   /\ Addr[connection_queue[k]] = Addr[cur]
Ignored == first[cur] # "syn" \/ ~queueAlive \/ Retransmission

\* the packet is ignored, or the SYN dropped because the queue is full
ListenDrop ==
  /\ lis = "check"
  /\ Ignored \/ cur_len >= max_len
  /\ RdUnlock("listener")
  /\ lis' = "poll"
  /\ UNCHANGED <<peerVars, cur, lslot, lreg, trVars, accVars, queueVars,
                 sockVars>>
  /\ NoFailure

\* otherwise there has to be an empty slot; cur_len is read ...
ListenSlot ==
  /\ lis = "check" /\ ~Ignored /\ cur_len < max_len
  /\ \/ /\ FreeSlots # {}
        /\ lslot' = FirstOf(FreeSlots) /\ lreg' = cur_len /\ lis' = "inc"
        /\ UNCHANGED <<peerVars, cur, trVars, accVars, lockVars, queueVars,
                       sockVars>>
        /\ NoFailure
     \/ FreeSlots = {} /\ Fail("queue_entry")

\* ... and written back incremented
ListenIncrement ==
  /\ lis = "inc"
  /\ cur_len' = lreg + 1
  /\ lis' = "new" /\ lreg' = 0
  /\ UNCHANGED <<peerVars, cur, lslot, trVars, accVars, lockVars,
                 connection_queue, completed_queue, queueAlive, sockVars>>
  /\ NoFailure

\* a new mysocket takes over the accepted socket and its two threads start;
\* without a free descriptor the slot is given up and cur_len is read again
ListenNew ==
  /\ lis = "new"
  /\ \/ /\ connection_queue' = [connection_queue EXCEPT ![lslot] = cur]
        /\ sockets' = sockets \cup {cur}
        /\ new_socket' = None
        /\ tr' = [tr EXCEPT ![cur] = "handshake"]
        /\ lis' = "syn"
        /\ UNCHANGED lreg
     \/ /\ lreg' = cur_len /\ lis' = "undo"
        /\ UNCHANGED <<connection_queue, sockets, new_socket, tr>>
  /\ UNCHANGED <<peerVars, cur, lslot, stcp_errno, closing, recvq, accVars,
                 lockVars, completed_queue, cur_len, queueAlive, exit_pipe,
                 accepted>>
  /\ NoFailure

ListenUndo ==
  /\ lis = "undo"
  /\ cur_len' = lreg - 1
  /\ RdUnlock("listener")
  /\ lis' = "poll" /\ lreg' = 0
  /\ UNCHANGED <<peerVars, cur, lslot, trVars, accVars, connection_queue,
                 completed_queue, queueAlive, sockVars>>
  /\ NoFailure

\* "pass the SYN packet on to the main STCP code"
ListenSyn ==
  /\ lis = "syn"
  /\ recvq' = [recvq EXCEPT ![cur] = Append(@, "syn")]
  /\ RdUnlock("listener")
  /\ lis' = "poll"
  /\ UNCHANGED <<peerVars, cur, lslot, lreg, tr, stcp_errno, closing, accVars,
                 queueVars, sockVars>>
  /\ NoFailure

ListenStep ==
  \/ ListenPoll \/ ListenRead \/ ListenLock \/ ListenDrop \/ ListenSlot
  \/ ListenIncrement \/ ListenNew \/ ListenUndo \/ ListenSyn

-----------------------------------------------------------------------------
(* Threads of the connection created for attempt c *)

\* its own receive thread reports the peer's hang-up with an empty buffer
RecvError(c) ==
  /\ tr[c] # "none" /\ c \in sockets /\ link[c] = "hungup"
  /\ link' = [link EXCEPT ![c] = "read0"]
  /\ recvq' = [recvq EXCEPT ![c] = Append(@, "err")]
  /\ UNCHANGED <<first, tcp_backlog, lisVars, tr, stcp_errno, closing, accVars,
                 lockVars, queueVars, sockVars>>
  /\ NoFailure

\* an STCP takes the SYN, answers it and waits for the last ACK; an error, its
\* own time-out or a close event make it return, and transport_thread_func
\* then calls stcp_unblock_application with an error
Handshake(c) ==
  /\ transport = "stcp"
  /\ \/ /\ tr[c] = "handshake" /\ recvq[c] # <<>>
        /\ recvq' = [recvq EXCEPT ![c] = Tail(@)]
        /\ \/ /\ Head(recvq[c]) = "syn"
              /\ tr' = [tr EXCEPT ![c] = "synrcvd"] /\ UNCHANGED stcp_errno
           \/ /\ Head(recvq[c]) # "syn"
              /\ tr' = [tr EXCEPT ![c] = "unblock"]
              /\ stcp_errno' = [stcp_errno EXCEPT ![c] = 1]
     \/ /\ tr[c] = "synrcvd"
        /\ tr' = [tr EXCEPT ![c] = "unblock"]
        /\ \E e \in {0, 1} : stcp_errno' = [stcp_errno EXCEPT ![c] = e]
        /\ UNCHANGED recvq
     \/ /\ tr[c] = "handshake" /\ closing[c]
        /\ tr' = [tr EXCEPT ![c] = "unblock"]
        /\ stcp_errno' = [stcp_errno EXCEPT ![c] = 1]
        /\ UNCHANGED recvq
  /\ UNCHANGED <<peerVars, lisVars, closing, accVars, lockVars, queueVars,
                 sockVars>>
  /\ NoFailure

\* transport_init as committed: no handshake, no look at the SYN
SkeletonUnblock(c) ==
  /\ transport = "skeleton" /\ tr[c] = "handshake"
  /\ tr' = [tr EXCEPT ![c] = "unblock"]
  /\ UNCHANGED <<peerVars, lisVars, stcp_errno, closing, recvq, accVars,
                 lockVars, queueVars, sockVars>>
  /\ NoFailure

\* _mysock_passive_connection_complete, called by stcp_unblock_application
CompleteLock(c) ==
  /\ tr[c] = "unblock" /\ RdLock(c)
  /\ tr' = [tr EXCEPT ![c] = "find"]
  /\ UNCHANGED <<peerVars, lisVars, stcp_errno, closing, recvq, accVars,
                 queueVars, sockVars>>
  /\ NoFailure

SlotsOf(c) == {k \in Slots : connection_queue[k] = c}

\* a new entry goes to the tail of completed_queue
EnqueueFirst(q, k) == <<k>>
Enqueue(q, k) == Append(q, k)

\* the connection's slot is found and appended to completed_queue
CompleteAppend(c) ==
  /\ tr[c] = "find"
  /\ \/ ~queueAlive /\ Fail("listen_sd")
     \/ queueAlive /\ SlotsOf(c) = {} /\ Fail("connection_req")
     \/ /\ queueAlive /\ SlotsOf(c) # {} /\ connection_lock = None
        /\ completed_queue' = Enqueue(completed_queue, FirstOf(SlotsOf(c)))
        /\ tr' = [tr EXCEPT ![c] = "signal"]
        /\ UNCHANGED <<peerVars, lisVars, stcp_errno, closing, recvq, accVars,
                       lockVars, connection_queue, cur_len, queueAlive,
                       sockVars>>
        /\ NoFailure

\* pthread_cond_signal, then listen_lock is released
SignalMissing(c) ==
  /\ tr[c] = "signal"
  /\ tr' = [tr EXCEPT ![c] = IF stcp_errno[c] = 0 THEN "run" ELSE "exited"]
  /\ readers' = readers \ {c}
  /\ UNCHANGED <<peerVars, lisVars, stcp_errno, closing, recvq, accVars,
                 writer, connection_lock, cond_waiters, queueVars, sockVars>>
  /\ NoFailure
CompleteSignal(c) ==
  /\ tr[c] = "signal"
  /\ \/ cond_waiters = {} /\ UNCHANGED cond_waiters
     \/ \E a \in cond_waiters : cond_waiters' = cond_waiters \ {a}
  /\ readers' = readers \ {c}
  /\ tr' = [tr EXCEPT ![c] = IF stcp_errno[c] = 0 THEN "run" ELSE "exited"]
  /\ UNCHANGED <<peerVars, lisVars, stcp_errno, closing, recvq, accVars,
                 writer, connection_lock, queueVars, sockVars>>
  /\ NoFailure

\* an established connection ends after the application has closed it; the
\* control_loop as committed never does
Finish(c) ==
  /\ transport = "stcp" /\ tr[c] = "run" /\ closing[c]
  /\ tr' = [tr EXCEPT ![c] = "exited"]
  /\ UNCHANGED <<peerVars, lisVars, stcp_errno, closing, recvq, accVars,
                 lockVars, queueVars, sockVars>>
  /\ NoFailure

ConnStep(c) ==
  \/ RecvError(c) \/ Handshake(c) \/ SkeletonUnblock(c) \/ CompleteLock(c)
  \/ CompleteAppend(c) \/ CompleteSignal(c) \/ Finish(c)

-----------------------------------------------------------------------------
(* Application threads *)

At(a, from, to) == acc[a] = from /\ acc' = [acc EXCEPT ![a] = to]

\* myaccept and _mysock_dequeue_connection: listen_lock, then connection_lock
Accept(a) ==
  /\ ~exit_pipe /\ At(a, "idle", "rdlock")
  /\ UNCHANGED <<peerVars, lisVars, trVars, areg, aslot, lockVars, queueVars,
                 sockVars>>
  /\ NoFailure

\* the queue is still there: see CloseListen
AcceptRdLock(a) ==
  /\ queueAlive /\ At(a, "rdlock", "lock") /\ RdLock(a)
  /\ UNCHANGED <<peerVars, lisVars, trVars, areg, aslot, queueVars, sockVars>>
  /\ NoFailure

\* taking connection_lock, for the first time or after the condition wait
AcceptLock(a) ==
  /\ At(a, "lock", "check") /\ a \notin cond_waiters
  /\ connection_lock = None /\ connection_lock' = a
  /\ UNCHANGED <<peerVars, lisVars, trVars, areg, aslot, readers, writer,
                 cond_waiters, queueVars, sockVars>>
  /\ NoFailure

\* while (!q->completed_queue) pthread_cond_wait(...): only connection_lock is
\* released
AcceptWait(a) ==
  /\ completed_queue = <<>> /\ At(a, "check", "lock")
  /\ cond_waiters' = cond_waiters \cup {a} /\ connection_lock' = None
  /\ UNCHANGED <<peerVars, lisVars, trVars, areg, aslot, readers, writer,
                 queueVars, sockVars>>
  /\ NoFailure

\* the first completed entry is removed and its slot invalidated; cur_len is
\* read ...
AcceptPop(a) ==
  /\ acc[a] = "check" /\ completed_queue # <<>>
  /\ LET k == Head(completed_queue)
         c == connection_queue[k]
     IN \/ c \notin sockets /\ Fail("new_ctx")
        \/ c \in sockets /\ cur_len <= 0 /\ Fail("cur_len")
        \/ /\ c \in sockets /\ cur_len > 0
           /\ completed_queue' = Tail(completed_queue)
           /\ connection_queue' = [connection_queue EXCEPT ![k] = None]
           /\ accepted' = Append(accepted, c)
           /\ areg' = [areg EXCEPT ![a] = cur_len]
           /\ At(a, "check", "dec")
           /\ UNCHANGED <<peerVars, lisVars, trVars, aslot, lockVars, cur_len,
                          queueAlive, new_socket, sockets, exit_pipe>>
           /\ NoFailure

\* ... and written back decremented, and both locks are released
AcceptDecrement(a) ==
  /\ At(a, "dec", "idle")
  /\ cur_len' = areg[a] - 1 /\ areg' = [areg EXCEPT ![a] = 0]
  /\ connection_lock' = None
  /\ readers' = readers \ {a}
  /\ UNCHANGED <<peerVars, lisVars, trVars, aslot, writer, cond_waiters,
                 connection_queue, completed_queue, queueAlive, sockVars>>
  /\ NoFailure

Returned == {accepted[i] : i \in DOMAIN accepted}

\* the application closes a connection myaccept returned; a failed one was
\* reported as -1, so the application has no descriptor to close
CloseAccepted(c) ==
  /\ c \in Returned /\ c \in sockets /\ stcp_errno[c] = 0
  /\ \/ /\ ~closing[c]
        /\ closing' = [closing EXCEPT ![c] = TRUE]
        /\ UNCHANGED sockets
     \/ /\ closing[c] /\ tr[c] = "exited"
        /\ sockets' = sockets \ {c}
        /\ UNCHANGED closing
  /\ UNCHANGED <<peerVars, lisVars, tr, stcp_errno, recvq, accVars, lockVars,
                 queueVars, new_socket, exit_pipe, accepted>>
  /\ NoFailure

\* myclose of the listening mysocket: stop the receive thread ...  The
\* application does not close it while another thread is about to use it in
\* myaccept, whose assertion on the queue could fail then.
CloseListen(a) ==
  /\ \A b \in Acceptors : acc[b] # "rdlock"
  /\ ~exit_pipe /\ exit_pipe' = TRUE /\ At(a, "idle", "joinlis")
  /\ UNCHANGED <<peerVars, lisVars, trVars, areg, aslot, lockVars, queueVars,
                 new_socket, sockets, accepted>>
  /\ NoFailure

\* ... then _mysock_close_passive_socket: listen_lock for writing ...
CloseWrLock(a) ==
  /\ At(a, "joinlis", "scan") /\ lis = "done"
  /\ readers = {} /\ writer = None /\ writer' = a
  /\ aslot' = [aslot EXCEPT ![a] = 1]
  /\ UNCHANGED <<peerVars, lisVars, trVars, areg, readers, connection_lock,
                 cond_waiters, queueVars, sockVars>>
  /\ NoFailure

\* ... and myclose(connection_queue[k].sd) for every occupied slot, which
\* joins that connection's transport thread
CloseScan(a) ==
  /\ acc[a] = "scan" /\ aslot[a] \in Slots
  /\ LET c == connection_queue[aslot[a]]
     IN \/ /\ c = None
           /\ aslot' = [aslot EXCEPT ![a] = @ + 1]
           /\ UNCHANGED <<closing, acc>>
        \/ /\ c # None
           /\ closing' = [closing EXCEPT ![c] = TRUE]
           /\ At(a, "scan", "join")
           /\ UNCHANGED aslot
  /\ UNCHANGED <<peerVars, lisVars, tr, stcp_errno, recvq, areg, lockVars,
                 queueVars, sockVars>>
  /\ NoFailure

CloseJoinSkipped(a) ==
  /\ At(a, "join", "scan")
  /\ sockets' = sockets \ {connection_queue[aslot[a]]}
  /\ aslot' = [aslot EXCEPT ![a] = @ + 1]
  /\ UNCHANGED <<peerVars, lisVars, trVars, areg, lockVars, queueVars,
                 new_socket, exit_pipe, accepted>>
  /\ NoFailure
CloseJoin(a) ==
  /\ At(a, "join", "scan")
  /\ tr[connection_queue[aslot[a]]] = "exited"
  /\ sockets' = sockets \ {connection_queue[aslot[a]]}
  /\ aslot' = [aslot EXCEPT ![a] = @ + 1]
  /\ UNCHANGED <<peerVars, lisVars, trVars, areg, lockVars, queueVars,
                 new_socket, exit_pipe, accepted>>
  /\ NoFailure

\* the queue is deleted, the lock released and the listening context freed,
\* with any accepted socket that was never passed on
CloseDone(a) ==
  /\ aslot[a] \notin Slots /\ At(a, "scan", "closed")
  /\ queueAlive' = FALSE /\ completed_queue' = <<>>
  /\ connection_queue' = [k \in Slots |-> None]
  /\ writer' = None
  /\ aslot' = [aslot EXCEPT ![a] = 0]
  /\ new_socket' = None
  /\ UNCHANGED <<peerVars, lisVars, trVars, areg, readers, connection_lock,
                 cond_waiters, cur_len, sockets, exit_pipe, accepted>>
  /\ NoFailure

\* POSIX lets a condition wait return without a signal
SpuriousWakeup(a) ==
  /\ a \in cond_waiters /\ cond_waiters' = cond_waiters \ {a}
  /\ UNCHANGED <<peerVars, lisVars, trVars, accVars, readers, writer,
                 connection_lock, queueVars, sockVars>>
  /\ NoFailure

AcceptStep(a) ==
  \/ AcceptRdLock(a) \/ AcceptLock(a) \/ AcceptWait(a) \/ AcceptPop(a)
  \/ AcceptDecrement(a)
CloseStep(a) ==
  \/ CloseWrLock(a) \/ CloseScan(a) \/ CloseJoin(a) \/ CloseDone(a)

Peers ==
  \E c \in Attempts :
    PeerConnect(c) \/ PeerHangup(c) \/ \E f \in Firsts : PeerFirst(c, f)
AppCall ==
  \/ \E a \in Acceptors : Accept(a) \/ CloseListen(a)
  \/ \E c \in Attempts : CloseAccepted(c)

Next ==
  \/ Peers \/ AppCall \/ ListenStep
  \/ \E c \in Attempts : ConnStep(c)
  \/ \E a \in Acceptors : AcceptStep(a) \/ CloseStep(a) \/ SpuriousWakeup(a)

\* Every thread that can run keeps running until an assertion stops the
\* process.  Peers need not act, and the application need not call.
Fairness ==
  /\ WF_vars(ListenStep)
  /\ \A c \in Attempts : WF_vars(ConnStep(c))
  /\ \A a \in Acceptors : WF_vars(AcceptStep(a) \/ CloseStep(a))

Spec == Init /\ [][Next]_vars /\ Fairness

-----------------------------------------------------------------------------
(* Properties *)

\* A connection whose transport has called _mysock_passive_connection_complete
\* is reachable through exactly one completed entry until myaccept returns it,
\* and no entry leads to a connection that has not completed: a stale entry, to
\* a slot that was invalidated and reused, would.  So myaccept hands out only
\* completed connections, each of them once.
Completed(c) == tr[c] \in {"signal", "run", "exited"}
PointedTo(c) == {i \in DOMAIN completed_queue :
                   connection_queue[completed_queue[i]] = c}
EachCompletionQueuedOnce ==
  queueAlive =>
    /\ \A i \in DOMAIN completed_queue :
         LET c == connection_queue[completed_queue[i]]
         IN c # None /\ Completed(c)
    /\ \A c \in Attempts :
         Completed(c) /\ c \notin Returned => Cardinality(PointedTo(c)) = 1
    /\ \A c \in Returned : Completed(c)
    /\ Cardinality(Returned) = Len(accepted)

\* The assertions on the connection's slot, on its context and on the
\* listening context cannot fail: only those on new_socket, queue_entry and
\* cur_len can (they are the subject of runs of their own).  The context to
\* which _mysock_enqueue_connection appends the SYN after its threads have been
\* started has not been freed.
PointersValid == /\ failure \notin {"new_ctx", "connection_req", "listen_sd"}
                 /\ lis = "syn" => cur \in sockets

\* A completed connection reaches a thread that waits in myaccept: the signal
\* of _mysock_passive_connection_complete is not lost.
CompletionAccepted ==
  \A a \in Acceptors :
    acc[a] = "lock" /\ completed_queue # <<>> ~>
      acc[a] # "lock" \/ completed_queue = <<>> \/ failure # "none"

\* the accepted socket has been passed on to a context before the next accept
NewSocketFree == failure # "new_socket"

\* cur_len counts the pending requests: while it is below max_len there is an
\* empty slot, and it is positive when a completed request is removed
LengthAssertionsHold == failure \notin {"queue_entry", "cur_len"}

\* myclose of the listening mysocket closes the queued connections and returns
CloseListenReturns ==
  \A a \in Acceptors :
    acc[a] = "scan" ~> acc[a] = "closed" \/ failure # "none"
=============================================================================
