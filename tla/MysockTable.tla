---------------------------- MODULE MysockTable ----------------------------
(***************************************************************************)
(* All mysockets of one process of Assignment3: the descriptor table       *)
(* global_ctx, the contexts it points to, the sockets and threads a        *)
(* context owns, and the hash table listen_table of listening mysockets.   *)
(* Application threads call mysocket, mybind, mylisten, myconnect,         *)
(* myaccept and myclose; the receive thread of a listening mysocket        *)
(* creates mysockets on its own.  What happens inside one connection is    *)
(* the subject of MysockConn, and the order of steps inside one listen     *)
(* queue that of ConnectionDemux.                                          *)
(*                                                                         *)
(* No lock protects global_ctx: each read of an entry is a step, and so is *)
(* the store.  A context is a block of memory, which calloc may hand out   *)
(* again after it was freed; its receive thread has the block's name.  A   *)
(* queue is named after the block of the context that created it, which    *)
(* stands for its local_port too: two sockets that are open never have     *)
(* the same port.  A failing assert ends the process, so the conditions    *)
(* the code asserts are guards here: no step follows when one is false,    *)
(* and AssertionsHold says that none of those on descriptors and queues    *)
(* is.  The assertions on local_port and queue_entry (connection_demux.c   *)
(* 319, 200) are guards alone.                                             *)
(***************************************************************************)
EXTENDS Integers, Sequences, FiniteSets

CONSTANTS
  MAX_NUM_CONNECTIONS, \* entries of global_ctx and buckets of listen_table
  Blocks,              \* memory blocks for contexts
  Apps,                \* application threads
  Backlogs,            \* arguments of mylisten
  NULL

ASSUME TableAssumption ==
  /\ MAX_NUM_CONNECTIONS \in Nat \ {0}
  /\ Backlogs \subseteq Nat
  /\ NULL \notin Blocks \cup Apps
  /\ Blocks \cap Apps = {}

Sds == 0..(MAX_NUM_CONNECTIONS - 1)
Threads == Apps \cup Blocks

\* mysock_context_t as far as it is modelled, and listen_queue_t
Contexts ==
  [my_sd : Sds, bound : BOOLEAN, port : BOOLEAN, listening : BOOLEAN,
   is_active : BOOLEAN, listen_sd : Sds \cup {-1}, stcp_errno : {0, 1},
   close_requested : BOOLEAN, recv_thread_started : BOOLEAN,
   exit_pipe : BOOLEAN, socket : Nat, new_socket : Nat \cup {-1}]
Queues == [slots : Seq(Sds \cup {-1}), completed : Seq(Sds)]

ASSUME NULLAssumption == NULL \notin Contexts \cup Queues

VARIABLES
  global_ctx,       \* descriptor -> context
  ctx,              \* the contexts that are allocated
  tr,               \* their transport threads
  listen_table,     \* bucket -> chain of entries
  queue,            \* the listen queues
  open,             \* open sockets of the process, by file descriptor
  pc, cur, k, slot, \* per thread: where it is, the contexts it works on, loop index, queue slot
  held,             \* per application thread: descriptors it may use
  writer,           \* listen_lock: the thread that holds it for writing
  clashed           \* history: an entry of global_ctx was taken twice

tableVars == <<global_ctx, ctx, tr, open>>
queueVars == <<listen_table, queue, writer>>
threadVars == <<pc, cur, k, slot, held>>
vars == <<tableVars, queueVars, threadVars, clashed>>

-----------------------------------------------------------------------------
(* mysock_hash.h: a table of chains *)

Bucket(key) == key % MAX_NUM_CONNECTIONS

\* _hash_get_entry: the first entry with the key, or 0
HashGet(tbl, key) ==
  LET chain == tbl[Bucket(key)]
      hits == {i \in DOMAIN chain : chain[i].key = key}
  IN IF hits = {} THEN 0 ELSE CHOOSE i \in hits : \A j \in hits : i <= j

HashLookup(tbl, key) ==
  IF HashGet(tbl, key) = 0 THEN NULL
  ELSE tbl[Bucket(key)][HashGet(tbl, key)].data

HashInsert(tbl, key, data) ==
  [tbl EXCEPT ![Bucket(key)] = <<[key |-> key, data |-> data]>> \o @]

HashDeleteForgotten(tbl, key) == tbl
HashDelete(tbl, key) ==
  LET i == HashGet(tbl, key)
  IN IF i = 0 THEN tbl
     ELSE [tbl EXCEPT ![Bucket(key)] =
             SubSeq(@, 1, i - 1) \o SubSeq(@, i + 1, Len(@))]

-----------------------------------------------------------------------------
(* Contexts and their resources *)

\* calloc clears my_sd, so a context that never got a descriptor names entry 0
NewContext(fd) ==
  [my_sd |-> 0, bound |-> FALSE, port |-> FALSE, listening |-> FALSE,
   is_active |-> FALSE, listen_sd |-> -1, stcp_errno |-> 0,
   close_requested |-> FALSE, recv_thread_started |-> FALSE,
   exit_pipe |-> FALSE, socket |-> fd, new_socket |-> -1]

Init ==
  /\ global_ctx = [sd \in Sds |-> NULL]
  /\ ctx = [c \in Blocks |-> NULL]
  /\ tr = [c \in Blocks |-> "none"]
  /\ listen_table = [b \in Sds |-> <<>>]
  /\ queue = [c \in Blocks |-> NULL]
  /\ open = {}
  /\ pc = [t \in Threads |-> IF t \in Apps THEN "idle" ELSE "none"]
  /\ cur = [t \in Threads |-> <<>>] /\ k = [t \in Threads |-> 0]
  /\ slot = [t \in Threads |-> 0]
  /\ held = [a \in Apps |-> {}]
  /\ writer = NULL /\ clashed = FALSE

Go(t, from, to) == pc[t] = from /\ pc' = [pc EXCEPT ![t] = to]

\* the context thread t works on; once another thread has freed it, what t
\* does is undefined, and t takes no further step here
Top(t) == Head(cur[t])
Works(t) == cur[t] # <<>> /\ ctx[Top(t)] # NULL

\* the kernel hands out the lowest free file descriptor
LowestFd == CHOOSE f \in 0..Cardinality(open) :
              f \notin open /\ \A g \in 0..(f - 1) : g \in open

\* what _mysock_get_context returns, and what verify_mysocket_descriptor asserts
Context(sd) == IF sd \in Sds THEN global_ctx[sd] ELSE NULL
Valid(sd) == /\ Context(sd) # NULL /\ ctx[Context(sd)] # NULL
             /\ ctx[Context(sd)].my_sd = sd

\* _get_connection_queue: the queue found for a context, by its descriptor
QueueOf(c) == HashLookup(listen_table, ctx[c].my_sd)

\* threads that hold listen_lock for reading
Readers == {c \in Blocks : pc[c] \in {"scan", "store", "pass"}}
           \cup {a \in Apps : pc[a] = "accept"}

\* _network_close: the sockets of a context that are closed with it
SocketsOf(c) == {ctx[c].socket, ctx[c].new_socket} \ {-1}

\* _mysock_free_context, but for the entry in the table
FreeContext(c) ==
  /\ ctx' = [ctx EXCEPT ![c] = NULL]
  /\ tr' = [tr EXCEPT ![c] = IF @ = "exited" THEN "none" ELSE @]
  /\ open' = open \ SocketsOf(c)

\* the table after its entry for c was cleared, if it has one
ClearAlways(c) == [global_ctx EXCEPT ![ctx[c].my_sd] = NULL]
ClearEntry(c) ==
  [global_ctx EXCEPT ![ctx[c].my_sd] = IF @ = c THEN NULL ELSE @]

-----------------------------------------------------------------------------
(* _mysock_new_mysocket, called by applications and by receive threads *)

Creating(t) == pc[t] \in {"scan", "store"}

\* _mysock_allocate_context.  A block whose old threads still run is not handed
\* out again: what they would do then is undefined.
Allocate(t) ==
  \E c \in Blocks :
    /\ ctx[c] = NULL /\ tr[c] = "none" /\ pc[c] \in {"none", "done"}
    /\ ctx' = [ctx EXCEPT ![c] = NewContext(LowestFd)]
    /\ open' = open \cup {LowestFd}
    /\ cur' = [cur EXCEPT ![t] = <<c>>]
    /\ k' = [k EXCEPT ![t] = 0]
    /\ UNCHANGED <<global_ctx, tr>>

\* one turn of the loop over the table; after the last entry the context is
\* freed and the call fails
Scan(t) ==
  /\ pc[t] = "scan" /\ Works(t)
  /\ \/ /\ k[t] \in Sds /\ global_ctx[k[t]] # NULL
        /\ k' = [k EXCEPT ![t] = @ + 1]
        /\ UNCHANGED <<tableVars, pc, cur>>
     \/ /\ k[t] \in Sds /\ global_ctx[k[t]] = NULL
        /\ pc' = [pc EXCEPT ![t] = "store"]
        /\ UNCHANGED <<tableVars, k, cur>>
     \/ /\ k[t] \notin Sds
        /\ FreeContext(Top(t))
        /\ global_ctx' = ClearEntry(Top(t))
        /\ pc' = [pc EXCEPT ![t] = IF t \in Apps THEN "idle" ELSE "poll"]
        /\ cur' = [cur EXCEPT ![t] = <<>>] /\ k' = [k EXCEPT ![t] = 0]
  /\ UNCHANGED <<queueVars, slot, held, clashed>>

\* the free entry found is taken, whatever it holds by now
Store(t) ==
  /\ pc[t] = "store" /\ Works(t)
  /\ global_ctx' = [global_ctx EXCEPT ![k[t]] = Top(t)]
  /\ ctx' = [ctx EXCEPT ![Top(t)].my_sd = k[t]]
  /\ clashed' = (clashed \/ global_ctx[k[t]] # NULL)
  /\ \/ /\ t \in Apps
        /\ pc' = [pc EXCEPT ![t] = "idle"]
        /\ held' = [held EXCEPT ![t] = @ \cup {k[t]}]
        /\ cur' = [cur EXCEPT ![t] = <<>>] /\ k' = [k EXCEPT ![t] = 0]
     \/ /\ t \in Blocks
        /\ pc' = [pc EXCEPT ![t] = "pass"]
        /\ UNCHANGED <<held, cur, k>>
  /\ UNCHANGED <<tr, open, queueVars, slot>>

-----------------------------------------------------------------------------
(* network_recv_thread_func of context c *)

\* poll: the exit pipe wins, and an error of the socket ends the thread.  On a
\* listening mysocket the result of accept() goes to new_socket.
Poll(c) ==
  /\ pc[c] = "poll" /\ ctx[c] # NULL
  /\ \/ /\ Go(c, "poll", "done")
        /\ UNCHANGED tableVars
     \/ /\ ctx[c].listening /\ ~ctx[c].exit_pipe /\ ctx[c].new_socket = -1
        /\ ctx' = [ctx EXCEPT ![c].new_socket = LowestFd]
        /\ open' = open \cup {LowestFd}
        /\ Go(c, "poll", "read")
        /\ UNCHANGED <<global_ctx, tr>>
  /\ UNCHANGED <<queueVars, cur, k, slot, held, clashed>>

FreeSlots(q) == {j \in DOMAIN q.slots : q.slots[j] = -1}

\* the first packet of an accepted peer: an error ends the thread; a packet
\* that is no SYN, or a SYN the queue has no room for, is dropped; otherwise
\* _mysock_enqueue_connection takes a slot and makes a mysocket
Packet(c) ==
  LET q == queue[QueueOf(c)]
  IN /\ pc[c] = "read" /\ ctx[c] # NULL
     /\ \/ /\ Go(c, "read", "done")
           /\ UNCHANGED <<tableVars, cur, k, slot>>
        \/ /\ writer = NULL /\ Go(c, "read", "poll")
           /\ UNCHANGED <<tableVars, cur, k, slot>>
        \/ /\ writer = NULL /\ QueueOf(c) # NULL /\ FreeSlots(q) # {}
           /\ slot' = [slot EXCEPT ![c] = CHOOSE j \in FreeSlots(q) :
                                            \A i \in FreeSlots(q) : j <= i]
           /\ Go(c, "read", "scan") /\ Allocate(c)
     /\ UNCHANGED <<queueVars, held, clashed>>

\* _network_update_passive_state: the new context gives up the socket it was
\* created with for the one that was accepted
PassSocketKept(new, c) ==
  [ctx EXCEPT ![new].socket = ctx[c].new_socket,
              ![new].listen_sd = ctx[c].my_sd,
              ![new].recv_thread_started = TRUE]
PassSocket(new, c) ==
  [ctx EXCEPT ![new].socket = ctx[c].new_socket,
              ![new].listen_sd = ctx[c].my_sd,
              ![new].recv_thread_started = TRUE,
              ![c].new_socket = -1]

\* a context that _network_update_passive_state accepts as the new one
Passable(sd) ==
  Valid(sd) /\ ~ctx[Context(sd)].listening /\ ~ctx[Context(sd)].is_active

\* the rest of _mysock_enqueue_connection, which works on the context it finds
\* under the new descriptor; _mysock_transport_init starts its threads
Pass(c) ==
  LET new == Context(k[c])
  IN /\ pc[c] = "pass" /\ ctx[c] # NULL /\ Passable(k[c])
     /\ ctx' = PassSocket(new, c)
     /\ open' = open \ {ctx[new].socket}
     /\ tr' = [tr EXCEPT ![new] = "handshake"]
     /\ pc' = [pc EXCEPT ![c] = "poll", ![new] = "poll"]
     /\ queue' = [queue EXCEPT ![QueueOf(c)].slots[slot[c]] = k[c]]
     /\ cur' = [cur EXCEPT ![c] = <<>>] /\ k' = [k EXCEPT ![c] = 0]
     /\ slot' = [slot EXCEPT ![c] = 0]
     /\ UNCHANGED <<global_ctx, listen_table, writer, held, clashed>>

-----------------------------------------------------------------------------
(* Transport threads (an STCP; external but for its calls) *)

SlotsOf(q, sd) == {j \in DOMAIN q.slots : q.slots[j] = sd}

\* the outcome of the handshake, which stcp_unblock_application reports
Outcome(c) ==
  \E e \in {0, 1} :
    /\ ctx' = [ctx EXCEPT ![c].stcp_errno = e]
    /\ tr' = [tr EXCEPT ![c] = IF e = 0 THEN "run" ELSE "exited"]

\* what _mysock_passive_connection_complete asserts about the listening
\* mysocket that connection c belongs to
Completable(c) ==
  LET l == Context(ctx[c].listen_sd)
  IN /\ Valid(ctx[c].listen_sd) /\ ctx[l].listening
     /\ QueueOf(l) # NULL => SlotsOf(queue[QueueOf(l)], ctx[c].my_sd) # {}

\* transport_thread_func checks its descriptor; on a passive connection the
\* outcome appends the slot to the listening mysocket's completed queue
Established(c) ==
  LET sd == ctx[c].my_sd
      qc == QueueOf(Context(ctx[c].listen_sd))
  IN /\ tr[c] = "handshake" /\ ctx[c] # NULL /\ Context(sd) = c
     /\ \/ ctx[c].is_active /\ UNCHANGED queue
        \/ /\ ~ctx[c].is_active /\ writer = NULL /\ Completable(c)
           /\ queue' = IF qc = NULL THEN queue
                       ELSE [queue EXCEPT ![qc].completed = Append(@, sd)]
     /\ Outcome(c)
     /\ UNCHANGED <<global_ctx, open, listen_table, writer, threadVars, clashed>>

\* transport_init returns after the application has closed: it looks for the
\* close request in the context under its descriptor
TransportExits(c) ==
  /\ tr[c] = "run" /\ ctx[c] # NULL /\ Valid(ctx[c].my_sd)
  /\ ctx[Context(ctx[c].my_sd)].close_requested
  /\ tr' = [tr EXCEPT ![c] = "exited"]
  /\ UNCHANGED <<global_ctx, ctx, open, queueVars, threadVars, clashed>>

-----------------------------------------------------------------------------
(* Application threads.  Each uses the descriptors it got from mysocket or   *)
(* myaccept, in the order the interface asks for: a mysocket is connected    *)
(* once or put into listening once, and mybind comes before that.            *)

Mysocket(t) ==
  /\ Go(t, "idle", "scan") /\ Allocate(t)
  /\ UNCHANGED <<queueVars, slot, held, clashed>>

\* bound is set before bind() may fail
Mybind(t, sd) ==
  LET c == Context(sd)
  IN /\ pc[t] = "idle" /\ Valid(sd)
     /\ ~ctx[c].listening /\ ~ctx[c].recv_thread_started
     /\ \/ /\ ~ctx[c].port
           /\ ctx' = [ctx EXCEPT ![c].bound = TRUE, ![c].port = TRUE]
        \/ ctx' = [ctx EXCEPT ![c].bound = TRUE]
     /\ UNCHANGED <<global_ctx, tr, open, queueVars, threadVars, clashed>>

\* _mysock_set_backlog: a slot that was there keeps its content
Resized(q, max_len) ==
  LET old == IF q = NULL THEN <<>> ELSE q.slots
  IN [slots |-> [j \in 1..max_len |-> IF j \in DOMAIN old THEN old[j] ELSE -1],
      completed |-> IF q = NULL THEN <<>> ELSE q.completed]

\* mylisten: the queue is made or resized under listen_lock; listen() may
\* fail; otherwise the receive thread is started
Mylisten(t, sd, backlog) ==
  LET c == Context(sd)
  IN /\ pc[t] = "idle" /\ Valid(sd) /\ ctx[c].bound
     /\ ~ctx[c].recv_thread_started
     /\ ctx[c].port /\ QueueOf(c) \in {NULL, c}
     /\ writer = NULL /\ Readers = {}
     /\ listen_table' = IF QueueOf(c) = NULL
                        THEN HashInsert(listen_table, sd, c)
                        ELSE listen_table
     /\ queue' = [queue EXCEPT ![c] = Resized(@, backlog + 1)]
     /\ \/ /\ ctx' = [ctx EXCEPT ![c].listening = TRUE]
           /\ UNCHANGED pc
        \/ /\ ctx' = [ctx EXCEPT ![c].listening = TRUE,
                                 ![c].recv_thread_started = TRUE]
           /\ pc' = [pc EXCEPT ![c] = "poll"]
     /\ UNCHANGED <<global_ctx, tr, open, writer, cur, k, slot, held, clashed>>

\* myconnect: an ephemeral port if there is none, the threads of the
\* connection, and the wait for its result
Myconnect(t, sd) ==
  LET c == Context(sd)
  IN /\ pc[t] = "idle" /\ Valid(sd)
     /\ ~ctx[c].listening /\ ~ctx[c].recv_thread_started
     /\ ctx' = [ctx EXCEPT ![c].port = @ \/ ~ctx[c].bound, ![c].bound = TRUE,
                           ![c].is_active = TRUE,
                           ![c].recv_thread_started = TRUE]
     /\ tr' = [tr EXCEPT ![c] = "handshake"]
     /\ pc' = [pc EXCEPT ![t] = "connect", ![c] = "poll"]
     /\ cur' = [cur EXCEPT ![t] = <<c>>]
     /\ UNCHANGED <<global_ctx, open, queueVars, k, slot, held, clashed>>

ConnectReturns(t) ==
  /\ Go(t, "connect", "idle") /\ tr[Top(t)] # "handshake"
  /\ cur' = [cur EXCEPT ![t] = <<>>]
  /\ UNCHANGED <<tableVars, queueVars, k, slot, held, clashed>>

\* myaccept holds listen_lock for reading until a connection has completed
Myaccept(t, sd) ==
  LET c == Context(sd)
  IN /\ pc[t] = "idle" /\ Valid(sd) /\ ctx[c].listening /\ writer = NULL
     /\ QueueOf(c) # NULL
     /\ pc' = [pc EXCEPT ![t] = "accept"]
     /\ cur' = [cur EXCEPT ![t] = <<c>>]
     /\ UNCHANGED <<tableVars, queueVars, k, slot, held, clashed>>

\* what myaccept asserts about the connection it takes from the queue of c
Acceptable(c, sd) == Valid(sd) /\ ctx[Context(sd)].listen_sd = ctx[c].my_sd

\* a connection that failed is reported as -1 and nobody gets its descriptor
AcceptReturns(t) ==
  LET c == Top(t)
      qc == QueueOf(c)
      sd == Head(queue[qc].completed)
  IN /\ pc[t] = "accept" /\ Works(t) /\ queue[qc].completed # <<>>
     /\ Acceptable(c, sd)
     /\ queue' = [queue EXCEPT
          ![qc].completed = Tail(@),
          ![qc].slots = [j \in DOMAIN @ |-> IF @[j] = sd THEN -1 ELSE @[j]]]
     /\ held' = [held EXCEPT ![t] = IF ctx[Context(sd)].stcp_errno = 0
                                    THEN @ \cup {sd} ELSE @]
     /\ pc' = [pc EXCEPT ![t] = "idle"]
     /\ cur' = [cur EXCEPT ![t] = <<>>]
     /\ UNCHANGED <<tableVars, listen_table, writer, k, slot, clashed>>

-----------------------------------------------------------------------------
(* myclose; cur is the stack of nested calls *)

\* the call on descriptor sd: the close request, with the context that the
\* rest of the call works on
CloseRequest(t, sd) ==
  /\ Valid(sd)
  /\ ctx' = [ctx EXCEPT ![Context(sd)].close_requested = TRUE]
  /\ cur' = [cur EXCEPT ![t] = <<Context(sd)>> \o @]
  /\ pc' = [pc EXCEPT ![t] = "join"]

Myclose(t, sd) ==
  /\ pc[t] = "idle" /\ CloseRequest(t, sd)
  /\ held' = [held EXCEPT ![t] = @ \ {sd}]
  /\ UNCHANGED <<global_ctx, tr, open, queueVars, k, slot, clashed>>

\* pthread_join of the transport thread, if one was started
CloseJoin(t) ==
  /\ Works(t) /\ Go(t, "join", "stop") /\ tr[Top(t)] \in {"none", "exited"}
  /\ UNCHANGED <<tableVars, queueVars, cur, k, slot, held, clashed>>

\* _network_stop_recv_thread: a byte into the exit pipe ...
CloseStop(t) ==
  /\ Works(t) /\ Go(t, "stop", "joinrx")
  /\ ctx' = [ctx EXCEPT ![Top(t)].exit_pipe = ctx[Top(t)].recv_thread_started]
  /\ UNCHANGED <<global_ctx, tr, open, queueVars, cur, k, slot, held, clashed>>

\* ... and a join of the thread
RecvNotJoined(c) == TRUE
RecvJoined(c) == ctx[c].recv_thread_started => pc[c] = "done"
CloseJoinRecv(t) ==
  LET c == Top(t)
  IN /\ pc[t] = "joinrx" /\ Works(t) /\ RecvJoined(c)
     /\ ctx' = [ctx EXCEPT ![c].recv_thread_started = FALSE]
     /\ pc' = [pc EXCEPT ![t] = IF ctx[c].listening THEN "wrlock" ELSE "free"]
     /\ UNCHANGED <<global_ctx, tr, open, queueVars, cur, k, slot, held, clashed>>

\* _mysock_close_passive_socket, under listen_lock for writing
CloseWrLock(t) ==
  /\ Works(t) /\ Go(t, "wrlock", "passive")
  /\ writer = NULL /\ Readers = {} /\ writer' = t
  /\ k' = [k EXCEPT ![t] = 1]
  /\ UNCHANGED <<tableVars, listen_table, queue, cur, slot, held, clashed>>

\* the mysockets in its slots are closed one after the other, then the queue goes
ClosePassive(t) ==
  LET c == Top(t)
      q == queue[QueueOf(c)]
      sd == q.slots[k[t]]
      more == QueueOf(c) # NULL /\ k[t] \in DOMAIN q.slots
  IN /\ pc[t] = "passive" /\ Works(t)
     /\ \/ /\ more /\ sd # -1 /\ CloseRequest(t, sd)
           /\ k' = [k EXCEPT ![t] = @ + 1]
           /\ UNCHANGED <<global_ctx, tr, open, queueVars>>
        \/ /\ more /\ sd = -1
           /\ k' = [k EXCEPT ![t] = @ + 1]
           /\ UNCHANGED <<tableVars, queueVars, pc, cur>>
        \/ /\ ~more
           /\ listen_table' = HashDelete(listen_table, ctx[c].my_sd)
           /\ queue' = IF QueueOf(c) = NULL THEN queue
                       ELSE [queue EXCEPT ![QueueOf(c)] = NULL]
           /\ writer' = NULL
           /\ pc' = [pc EXCEPT ![t] = "free"]
           /\ k' = [k EXCEPT ![t] = 0]
           /\ UNCHANGED <<tableVars, cur>>
     /\ UNCHANGED <<slot, held, clashed>>

\* the context is freed; a nested call returns to the loop over the slots
CloseFree(t) ==
  LET c == Top(t)
  IN /\ pc[t] = "free" /\ Works(t)
     /\ FreeContext(c)
     /\ global_ctx' = ClearEntry(c)
     /\ cur' = [cur EXCEPT ![t] = Tail(@)]
     /\ pc' = [pc EXCEPT ![t] = IF Len(cur[t]) = 1 THEN "idle" ELSE "passive"]
     /\ UNCHANGED <<queueVars, k, slot, held, clashed>>

AppStep(t) ==
  \/ Mysocket(t)
  \/ \E sd \in held[t] :
       \/ Mybind(t, sd) \/ Myconnect(t, sd) \/ Myaccept(t, sd)
       \/ Myclose(t, sd) \/ \E b \in Backlogs : Mylisten(t, sd, b)
  \/ ConnectReturns(t) \/ AcceptReturns(t)
  \/ CloseJoin(t) \/ CloseStop(t) \/ CloseJoinRecv(t) \/ CloseWrLock(t)
  \/ ClosePassive(t) \/ CloseFree(t)

Next ==
  \/ \E t \in Threads : Scan(t) \/ Store(t)
  \/ \E c \in Blocks : \/ Poll(c) \/ Packet(c) \/ Pass(c)
                       \/ Established(c) \/ TransportExits(c)
  \/ \E t \in Apps : AppStep(t)

Spec == Init /\ [][Next]_vars

-----------------------------------------------------------------------------
(* Properties *)

\* contexts that _mysock_new_mysocket has entered into the table
Registered ==
  {c \in Blocks : /\ ctx[c] # NULL
                  /\ \A t \in Threads : Creating(t) => cur[t] # <<c>>}

\* Each open socket of the process belongs to one context, which closes it: no
\* socket leaks and none is closed twice when an accepted socket moves from
\* new_socket to a new context, is never passed on, or its context is given up.
SocketsOwned ==
  /\ open = UNION {SocketsOf(c) : c \in {b \in Blocks : ctx[b] # NULL}}
  /\ \A c \in Blocks : ctx[c] # NULL => ctx[c].socket # ctx[c].new_socket
  /\ \A c, d \in Blocks :
       c # d /\ ctx[c] # NULL /\ ctx[d] # NULL =>
         SocketsOf(c) \cap SocketsOf(d) = {}

\* A context is freed only after its threads have ended and when no other
\* thread works on it, as the comment at _mysock_free_context says.
ContextsAlive ==
  ~clashed =>
    /\ \A c \in Blocks : pc[c] \notin {"none", "done"} => ctx[c] # NULL
    /\ \A c \in Blocks : tr[c] # "none" => ctx[c] # NULL
    /\ \A t \in Threads : \A i \in DOMAIN cur[t] : ctx[cur[t][i]] # NULL

InSlot(sd) == \E c \in Blocks : queue[c] # NULL /\ SlotsOf(queue[c], sd) # {}
\* a passive connection that failed: myaccept returns -1 for it
Unaccepted(c) == ctx[c].listen_sd # -1 /\ ctx[c].stcp_errno # 0

\* Every mysocket has the table entry its descriptor names, every entry leads
\* to a context that is alive, and somebody can still close it: an application
\* thread holds its descriptor, a thread is creating or closing it, or it waits
\* in a listen queue.  This holds until a call of _mysock_new_mysocket takes an
\* entry that another call took after it was seen free.  A call that finds no
\* entry frees a context whose my_sd is still 0, and leaves entry 0 to its
\* owner.  A connection that fails after it was queued is the one nobody can
\* close: myaccept keeps its descriptor to itself.
MysocketsOwned ==
  ~clashed =>
    /\ \A sd \in Sds : global_ctx[sd] # NULL => global_ctx[sd] \in Registered
    /\ \A c \in Registered :
         /\ global_ctx[ctx[c].my_sd] = c
         /\ \/ \E a \in Apps : ctx[c].my_sd \in held[a]
            \/ \E t \in Threads : \E i \in DOMAIN cur[t] : cur[t][i] = c
            \/ InSlot(ctx[c].my_sd)
            \/ Unaccepted(c)

\* No assertion on descriptors and queues fails: a descriptor an application
\* holds or a queue names is valid, the receive thread finds the new context
\* under its descriptor, a transport thread finds its listening mysocket and
\* its slot, myaccept takes connections of its own mysocket, and listen_table
\* has no queue of an earlier mysocket under a descriptor that is used again.
AssertionsHold ==
  ~clashed =>
    /\ \A a \in Apps : \A sd \in held[a] :
         /\ Valid(sd)
         /\ ctx[Context(sd)].listening => QueueOf(Context(sd)) # NULL
         /\ QueueOf(Context(sd)) \in {NULL, Context(sd)}
    /\ \A c \in Blocks :
         /\ pc[c] = "pass" => Passable(k[c]) /\ QueueOf(c) = c
         /\ tr[c] = "handshake" => /\ Context(ctx[c].my_sd) = c
                                   /\ ctx[c].is_active \/ Completable(c)
         /\ tr[c] = "run" => Valid(ctx[c].my_sd)
    /\ \A c \in Blocks : queue[c] # NULL =>
         /\ \A j \in DOMAIN queue[c].completed :
              Acceptable(c, queue[c].completed[j]) \/ writer # NULL
         /\ \A j \in DOMAIN queue[c].slots :
              queue[c].slots[j] # -1 =>
                Valid(queue[c].slots[j]) \/ (writer # NULL /\ j < k[writer])
=============================================================================
