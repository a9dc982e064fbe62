------------------------- MODULE MysockTableProofs -------------------------
(***************************************************************************)
(* Proofs about MysockTable for any size of the table and any number of    *)
(* application threads and blocks of memory.                               *)
(***************************************************************************)
EXTENDS MysockTable, FiniteSetTheorems,
        SequencesExt, SequenceTheorems, WellFoundedInduction, TLAPS

-----------------------------------------------------------------------------
(* Lists and numbers *)

\* sr_arpcache_queuereq does with requests and with packets.
LEMMA PrependFacts ==
  ASSUME NEW S, NEW s \in Seq(S), NEW e \in S
  PROVE  /\ <<e>> \o s \in Seq(S)
         /\ Range(<<e>> \o s) = Range(s) \cup {e}
         /\ IsInjective(s) /\ e \notin Range(s) => IsInjective(<<e>> \o s)
<1> DEFINE t == <<e>> \o s
<1>1. /\ t \in Seq(S) /\ Len(t) = Len(s) + 1 /\ Len(s) \in Nat
      /\ DOMAIN t = 1..Len(s) + 1 /\ DOMAIN s = 1..Len(s)
      /\ t[1] = e
      /\ \A i \in 2..Len(s) + 1 : t[i] = s[i - 1]
  OBVIOUS
<1> HIDE DEF t
<1>2. Range(t) = Range(s) \cup {e}
  <2>1. ASSUME NEW x \in Range(t) PROVE x \in Range(s) \cup {e}
    BY <1>1 DEF Range
  <2>2. ASSUME NEW x \in Range(s) PROVE x \in Range(t)
    <3>1. PICK j \in 1..Len(s) : s[j] = x
      BY <1>1 DEF Range
    <3>2. j + 1 \in 1..Len(s) + 1 /\ t[j + 1] = x
      BY <3>1, <1>1
    <3> QED  BY <3>2, <1>1 DEF Range
  <2>3. e \in Range(t)
    BY <1>1 DEF Range
  <2> QED  BY <2>1, <2>2, <2>3
<1>3. ASSUME IsInjective(s), e \notin Range(s) PROVE IsInjective(t)
  <2> SUFFICES ASSUME NEW a \in 1..Len(s) + 1, NEW b \in 1..Len(s) + 1, t[a] = t[b]
               PROVE  a = b
    BY <1>1 DEF IsInjective
  <2>1. \A i \in 2..Len(s) + 1 : t[i] # e
    BY <1>1, <1>3 DEF Range
  <2>2. CASE a = 1
    BY <2>1, <2>2, <1>1
  <2>3. CASE b = 1
    BY <2>1, <2>3, <1>1
  <2>4. CASE a # 1 /\ b # 1
    <3>1. a - 1 \in 1..Len(s) /\ b - 1 \in 1..Len(s) /\ s[a - 1] = s[b - 1]
      BY <2>4, <1>1
    <3>2. a - 1 = b - 1
      BY <3>1, <1>1, <1>3 DEF IsInjective
    <3> QED  BY <3>2
  <2> QED  BY <2>2, <2>3, <2>4
<1> QED  BY <1>1, <1>2, <1>3 DEF t

\* The head of a list and what is left after it.
LEMMA HeadFacts ==
  ASSUME NEW S, NEW s \in Seq(S), s # <<>>
  PROVE  /\ Tail(s) \in Seq(S)
         /\ Head(s) \in Range(s) /\ Head(s) \in S
         /\ Range(s) = Range(Tail(s)) \cup {Head(s)}
<1>1. /\ Len(s) \in Nat \ {0} /\ DOMAIN s = 1..Len(s) /\ Head(s) = s[1]
      /\ Tail(s) \in Seq(S) /\ DOMAIN Tail(s) = 1..Len(s) - 1
      /\ \A i \in 1..Len(s) - 1 : Tail(s)[i] = s[i + 1]
  BY EmptySeq, LenProperties, HeadTailProperties
<1>2. ASSUME NEW x \in Range(s) PROVE x \in Range(Tail(s)) \cup {Head(s)}
  <2>1. PICK n \in 1..Len(s) : s[n] = x
    BY <1>1 DEF Range
  <2>2. CASE n = 1
    BY <2>1, <2>2, <1>1
  <2>3. CASE n # 1
    <3>1. n - 1 \in 1..Len(s) - 1 /\ Tail(s)[n - 1] = x
      BY <2>1, <2>3, <1>1
    <3> QED  BY <3>1, <1>1 DEF Range
  <2> QED  BY <2>2, <2>3
<1>3. ASSUME NEW x \in Range(Tail(s)) PROVE x \in Range(s)
  <2>1. PICK n \in 1..Len(s) - 1 : Tail(s)[n] = x
    BY <1>1 DEF Range
  <2> QED  BY <2>1, <1>1 DEF Range
<1>4. Head(s) \in Range(s) /\ Head(s) \in S
  BY <1>1 DEF Range
<1> QED  BY <1>1, <1>2, <1>3, <1>4

\* Every set of numbers has a least element.
LEMMA LeastNatural ==
  ASSUME NEW T, T \subseteq Nat, T # {}
  PROVE  \E x \in T : \A y \in T : x <= y
<1> DEFINE R == {ss \in Nat \X Nat : ss[1] < ss[2]}
<1>1. IsWellFoundedOn(R, Nat)
  BY NatLessThanWellFounded DEF OpToRel
<1>2. PICK x \in T : \A y \in T : ~(<<y, x>> \in R)
  <2> HIDE DEF R
  <2> QED  BY <1>1, WFMin
<1>3. ASSUME NEW y \in T PROVE x <= y
  <2>1. <<y, x>> \in Nat \X Nat
    OBVIOUS
  <2>2. ~(<<y, x>>[1] < <<y, x>>[2])
    BY <1>2, <2>1
  <2> QED  BY <2>2
<1> QED  BY <1>3

-----------------------------------------------------------------------------
(* The inductive invariant.  Two parts of it hold whatever happens, the      *)
(* others until two threads take one entry of the table.                     *)

RecvStates == {"none", "poll", "read", "scan", "store", "pass", "done"}
CloseStates == {"join", "stop", "joinrx", "wrlock", "passive", "free"}
AppStates == {"idle", "scan", "store", "connect", "accept"} \cup CloseStates

TypeOK ==
  /\ global_ctx \in [Sds -> Blocks \cup {NULL}]
  /\ ctx \in [Blocks -> Contexts \cup {NULL}]
  /\ tr \in [Blocks -> {"none", "handshake", "run", "exited"}]
  /\ open \in SUBSET Nat /\ IsFiniteSet(open)
  /\ pc \in [Threads -> RecvStates \cup AppStates]
  /\ \A a \in Apps : pc[a] \in AppStates
  /\ \A c \in Blocks : pc[c] \in RecvStates
  /\ cur \in [Threads -> Seq(Blocks)]
  /\ k \in [Threads -> Nat]
  /\ \A t \in Threads : pc[t] \in {"store", "pass"} => k[t] \in Sds
  /\ held \in [Apps -> SUBSET Sds]
  /\ clashed \in BOOLEAN

\* A receive thread that runs was started by its context, and only that of a
\* listening mysocket gets further than poll, with the socket it accepted.
Receiving ==
  \A c \in Blocks : ctx[c] # NULL =>
    /\ pc[c] \notin {"none", "done"} => ctx[c].recv_thread_started
    /\ pc[c] \in {"read", "scan", "store", "pass"} =>
         ctx[c].listening /\ ctx[c].new_socket # -1

\* Thread t works on context c: it is in one of its nested calls.
On(t, c) == c \in Range(cur[t])
Closing(t) == pc[t] \in CloseStates

\* c is in the table, where its descriptor says.
Entered(c) == /\ ctx[c] # NULL
              /\ global_ctx[ctx[c].my_sd] = c

\* c has been allocated and nothing else has happened to it.
Blank(c) ==
  /\ ctx[c] # NULL /\ tr[c] = "none" /\ pc[c] \in {"none", "done"}
  /\ ~ctx[c].listening /\ ~ctx[c].is_active /\ ~ctx[c].recv_thread_started

\* The table leads to contexts with the right descriptor, and a context is in
\* the table unless a thread is about to enter it.
Table ==
  /\ \A sd \in Sds : global_ctx[sd] # NULL =>
       ctx[global_ctx[sd]] # NULL /\ ctx[global_ctx[sd]].my_sd = sd
  /\ \A c \in Blocks : ctx[c] # NULL => Entered(c) \/ \E t \in Threads : Creating(t) /\ On(t, c)
  /\ \A t \in Threads : Creating(t) =>
       \E c \in Blocks : cur[t] = <<c>> /\ Blank(c) /\ ~Entered(c)

\* A context is worked on by one thread, and by no other than the one that
\* has its descriptor.
Exclusive ==
  /\ \A t, u \in Threads : \A c \in Blocks : On(t, c) /\ On(u, c) => t = u
  /\ \A a, b \in Apps : \A sd \in Sds : sd \in held[a] /\ sd \in held[b] => a = b
  /\ \A a \in Apps : \A sd \in held[a] :
       /\ global_ctx[sd] # NULL
       /\ \A t \in Threads : On(t, global_ctx[sd]) => t = a /\ pc[a] \in {"connect", "accept"}

\* An application thread outside myclose.
Calling(a) ==
  /\ pc[a] = "idle" => cur[a] = <<>>
  /\ pc[a] = "connect" =>
       \E c \in Blocks : cur[a] = <<c>> /\ Entered(c) /\ ctx[c].my_sd \in held[a]
  /\ pc[a] = "accept" =>
       \E c \in Blocks : cur[a] = <<c>> /\ queue[c] # NULL /\ ctx[c].my_sd \in held[a]

\* The threads of c have been joined.
Quiet(c) == tr[c] \in {"none", "exited"} /\ ~ctx[c].recv_thread_started

\* What the call of myclose at the top of the stack has reached for c.
Reached(a, c) ==
  /\ Entered(c)
  /\ pc[a] # "join" => tr[c] \in {"none", "exited"}
  /\ pc[a] \in {"wrlock", "passive", "free"} => ~ctx[c].recv_thread_started
  /\ pc[a] \in {"wrlock", "passive"} => ctx[c].listening /\ queue[c] # NULL
  /\ pc[a] = "free" => queue[c] = NULL

\* myclose, with or without a nested call for a connection of the queue.
Stack(a) ==
  Closing(a) =>
    \/ \E c \in Blocks : /\ cur[a] = <<c>> /\ Reached(a, c)
                         /\ (writer = a) = (pc[a] = "passive")
    \/ \E c, l \in Blocks :
         /\ cur[a] = <<c, l>> /\ c # l /\ Reached(a, c)
         /\ pc[a] \notin {"wrlock", "passive"} /\ ~ctx[c].listening
         /\ writer = a
         /\ Entered(l) /\ queue[l] # NULL /\ Quiet(l)

\* A receive thread; once it holds listen_lock it has an empty slot to fill.
Listener(c) ==
  /\ pc[c] \in {"none", "poll", "read", "done"} => cur[c] = <<>>
  /\ pc[c] \notin {"none", "done"} => Entered(c)
  /\ pc[c] \in {"scan", "store", "pass"} =>
       /\ queue[c] # NULL /\ slot[c] \in DOMAIN queue[c].slots
       /\ queue[c].slots[slot[c]] = -1
  /\ pc[c] = "pass" =>
       \E n \in Blocks : /\ cur[c] = <<n>> /\ Blank(n) /\ Entered(n)
                         /\ ctx[n].my_sd = k[c]

\* listen_lock is held by readers or by one thread in myclose.
Locked ==
  /\ writer \in Apps \cup {NULL}
  /\ writer # NULL => Closing(writer) /\ Readers = {} /\ k[writer] # 0

\* The thread that closes the queue of c has been through slot j.
Scanned(c, j) == writer # NULL /\ On(writer, c) /\ j < k[writer]

\* Slot j of the queue of c names descriptor sd.
Holds(c, j, sd) ==
  /\ queue[c] # NULL /\ j \in DOMAIN queue[c].slots
  /\ queue[c].slots[j] = sd /\ sd # -1
Waiting(c, j, sd) == Holds(c, j, sd) /\ ~Scanned(c, j)

\* listen_table has the queues under the descriptors of their mysockets, and
\* no others: each chain has at most one entry.
Hashed ==
  /\ listen_table \in [Sds -> Seq([key : Sds, data : Blocks])]
  /\ \A sd \in Sds :
       IF global_ctx[sd] # NULL /\ queue[global_ctx[sd]] # NULL
       THEN listen_table[sd] = <<[key |-> sd, data |-> global_ctx[sd]]>>
       ELSE listen_table[sd] = <<>>

\* A queue belongs to a listening mysocket, from mylisten until myclose.
Owned ==
  /\ queue \in [Blocks -> Queues \cup {NULL}]
  /\ \A c \in Blocks : queue[c] # NULL => Entered(c) /\ ctx[c].listening
  /\ \A c \in Blocks : ctx[c] # NULL /\ ctx[c].listening /\ queue[c] = NULL =>
       \E a \in Apps : pc[a] = "free" /\ On(a, c)
  /\ \A c \in Blocks : queue[c] # NULL =>
       \/ ctx[c].recv_thread_started
       \/ \E a \in Apps : Closing(a) /\ On(a, c)
       \/ queue[c].completed = <<>> /\ \A j \in DOMAIN queue[c].slots : queue[c].slots[j] = -1

\* A slot names a connection of its mysocket that nobody else can get at.
Pending(c, sd) ==
  /\ global_ctx[sd] # NULL
  /\ ctx[global_ctx[sd]].listen_sd = ctx[c].my_sd
  /\ ~ctx[global_ctx[sd]].listening /\ ~ctx[global_ctx[sd]].is_active
  /\ tr[global_ctx[sd]] # "none"
  /\ \A t \in Threads : ~On(t, global_ctx[sd])
  /\ \A a \in Apps : sd \notin held[a]

Slots ==
  /\ \A c \in Blocks, j \in Nat, sd \in Sds : Waiting(c, j, sd) => Pending(c, sd)
  /\ \A c, d \in Blocks, i, j \in Nat, sd \in Sds :
       Waiting(c, i, sd) /\ Waiting(d, j, sd) => c = d /\ i = j

\* The completed list of a queue that nobody closes names the slots of
\* connections that have completed, each once.
Completions ==
  \A c \in Blocks : queue[c] # NULL /\ ~(writer # NULL /\ On(writer, c)) =>
    /\ \A i \in DOMAIN queue[c].completed :
         LET sd == queue[c].completed[i]
         IN (\E j \in Nat : Holds(c, j, sd)) /\ tr[global_ctx[sd]] # "handshake"
    /\ \A i, j \in DOMAIN queue[c].completed :
         queue[c].completed[i] = queue[c].completed[j] => i = j

\* The queue that passive connection c will report to still has its slot.
Reports(c) ==
  \E l \in Blocks, j \in Nat :
    /\ Holds(l, j, ctx[c].my_sd) /\ ctx[c].listen_sd = ctx[l].my_sd
    /\ Scanned(l, j) => cur[writer] = <<c, l>>

\* A transport thread has its context, the handshake of a passive connection
\* the queue that it will report to, and that of an active one its myconnect.
Transports ==
  /\ \A c \in Blocks : tr[c] # "none" => Entered(c)
  /\ \A c \in Blocks : tr[c] = "handshake" /\ ~ctx[c].is_active => Reports(c)
  /\ \A c \in Blocks : tr[c] = "handshake" /\ ctx[c].is_active =>
       \E a \in Apps : pc[a] = "connect" /\ On(a, c)

\* Somebody can close every context in the table.
Closable(c) ==
  \/ \E a \in Apps : ctx[c].my_sd \in held[a]
  \/ \E t \in Threads : On(t, c)
  \/ \E l \in Blocks, j \in Nat : Waiting(l, j, ctx[c].my_sd)
  \/ Unaccepted(c)

Ownership ==
  /\ Table /\ Exclusive
  /\ \A a \in Apps : Calling(a) /\ Stack(a)
  /\ \A c \in Blocks : Listener(c)
  /\ Locked /\ Hashed /\ Owned /\ Slots /\ Completions /\ Transports
  /\ \A c \in Blocks : ctx[c] # NULL => Closable(c)

TableInv == /\ TypeOK /\ Receiving /\ SocketsOwned
            /\ DOMAIN slot = Threads
            /\ ~clashed => Ownership

-----------------------------------------------------------------------------
(* Operators *)

LEMMA SdsFacts ==
  /\ MAX_NUM_CONNECTIONS \in Nat \ {0} /\ 0 \in Sds /\ Sds \subseteq Nat /\ -1 \notin Sds
  /\ NULL \notin Blocks /\ NULL \notin Apps /\ Blocks \cap Apps = {}
  /\ NULL \notin Contexts /\ NULL \notin Queues
  /\ \A sd \in Sds : Bucket(sd) = sd
<1>1. MAX_NUM_CONNECTIONS \in Nat \ {0}
  BY TableAssumption
<1>2. \A sd \in Sds : Bucket(sd) = sd
  BY <1>1 DEF Sds, Bucket
<1>3. 0 \in Sds /\ Sds \subseteq Nat /\ -1 \notin Sds
  BY <1>1 DEF Sds
<1>4. NULL \notin Contexts /\ NULL \notin Queues
  BY NULLAssumption
<1>5. NULL \notin Blocks /\ NULL \notin Apps /\ Blocks \cap Apps = {}
  BY TableAssumption
<1> QED  BY <1>1, <1>2, <1>3, <1>4, <1>5

\* The kernel always has a file descriptor left.
LEMMA LowestFdFacts ==
  ASSUME open \in SUBSET Nat, IsFiniteSet(open)
  PROVE  LowestFd \in Nat /\ LowestFd \notin open
<1> DEFINE n == Cardinality(open)
           free == {f \in 0..n : f \notin open}
<1>1. n \in Nat
  BY FS_CardinalityType
<1>2. IsFiniteSet(0..n) /\ Cardinality(0..n) = n + 1
  BY <1>1, FS_Interval
<1>3. free # {}
  <2>1. SUFFICES ASSUME 0..n \subseteq open PROVE FALSE
    OBVIOUS
  <2>2. Cardinality(0..n) <= n
    BY <2>1, FS_Subset
  <2> QED  BY <1>1, <1>2, <2>2
<1>4. free \subseteq Nat
  BY <1>1
<1>5. PICK f \in free : \A g \in free : f <= g
  BY <1>3, <1>4, LeastNatural
<1>6. f \in 0..n /\ f \notin open /\ \A g \in 0..(f - 1) : g \in open
  BY <1>1, <1>5
<1>7. LowestFd \in 0..n /\ LowestFd \notin open
  BY <1>6 DEF LowestFd
<1> QED  BY <1>1, <1>7

\* A context as calloc and _mysock_allocate_context leave it.
LEMMA NewContextFacts ==
  ASSUME NEW fd \in Nat
  PROVE  /\ NewContext(fd) \in Contexts /\ NewContext(fd) # NULL
         /\ NewContext(fd).my_sd = 0 /\ NewContext(fd).socket = fd
         /\ NewContext(fd).new_socket = -1 /\ NewContext(fd).listen_sd = -1
         /\ ~NewContext(fd).listening /\ ~NewContext(fd).is_active
         /\ ~NewContext(fd).recv_thread_started /\ NewContext(fd).stcp_errno = 0
<1>1. 0 \in Sds
  BY SdsFacts
<1>2. NewContext(fd) \in Contexts
  BY <1>1 DEF NewContext, Contexts
<1>3. NewContext(fd) # NULL
  BY <1>2, SdsFacts
<1> QED  BY <1>2, <1>3 DEF NewContext

\* Context c, and no other, becomes r.
Becomes(c, r) ==
  /\ ctx' \in [Blocks -> Contexts \cup {NULL}]
  /\ r \in Contexts /\ r # NULL
  /\ ctx'[c] = r /\ \A d \in Blocks : d # c => ctx'[d] = ctx[d]

LEMMA BecomesFacts ==
  ASSUME TypeOK, NEW c \in Blocks, NEW r \in Contexts, ctx' = [ctx EXCEPT ![c] = r]
  PROVE  Becomes(c, r)
<1>1. r # NULL
  BY SdsFacts
<1> QED  BY <1>1 DEF TypeOK, Becomes

\* What the descriptor of a mysocket leads to.
LEMMA ContextFacts ==
  ASSUME TypeOK, NEW sd, Context(sd) # NULL
  PROVE  sd \in Sds /\ Context(sd) \in Blocks /\ Context(sd) = global_ctx[sd]
BY DEF TypeOK, Context

LEMMA LiveFacts ==
  ASSUME TypeOK, NEW c \in Blocks, ctx[c] # NULL
  PROVE  /\ ctx[c] \in Contexts /\ ctx[c].my_sd \in Sds /\ ctx[c].socket \in Nat
         /\ ctx[c].new_socket \in Nat \cup {-1} /\ ctx[c].listen_sd \in Sds \cup {-1}
         /\ ctx[c].listening \in BOOLEAN /\ ctx[c].is_active \in BOOLEAN
         /\ ctx[c].recv_thread_started \in BOOLEAN /\ ctx[c].stcp_errno \in {0, 1}
<1>1. ctx[c] \in Contexts
  BY DEF TypeOK
<1> QED  BY <1>1 DEF Contexts

\* Changes of fields that no part of the invariant but Contexts looks at.
LEMMA MinorFields ==
  ASSUME NEW r \in Contexts, NEW b \in BOOLEAN
  PROVE  \A s \in {[r EXCEPT !.bound = b], [r EXCEPT !.bound = TRUE, !.port = TRUE],
                   [r EXCEPT !.close_requested = b], [r EXCEPT !.exit_pipe = b]} :
           /\ s \in Contexts
           /\ s.my_sd = r.my_sd /\ s.socket = r.socket /\ s.new_socket = r.new_socket
           /\ s.listen_sd = r.listen_sd /\ s.listening = r.listening
           /\ s.is_active = r.is_active /\ s.stcp_errno = r.stcp_errno
           /\ s.recv_thread_started = r.recv_thread_started
BY DEF Contexts

LEMMA TopFacts ==
  ASSUME TypeOK, NEW t \in Threads, Works(t)
  PROVE  /\ Top(t) \in Blocks /\ ctx[Top(t)] # NULL /\ On(t, Top(t))
         /\ \A c : cur[t] = <<c>> => Top(t) = c
         /\ \A c, l : cur[t] = <<c, l>> => Top(t) = c
<1>1. cur[t] \in Seq(Blocks) /\ cur[t] # <<>>
  BY DEF TypeOK, Works
<1>2. Head(cur[t]) \in Blocks /\ Head(cur[t]) \in Range(cur[t])
  BY <1>1, HeadFacts
<1> QED  BY <1>2 DEF Top, Works, On

-----------------------------------------------------------------------------
(* What holds whatever happens: types, receive threads and sockets *)

Base == TypeOK /\ Receiving /\ SocketsOwned

SocketsSame ==
  /\ open' = open
  /\ \A c \in Blocks : (ctx'[c] = NULL) = (ctx[c] = NULL)
  /\ \A c \in Blocks : ctx[c] # NULL =>
       ctx'[c].socket = ctx[c].socket /\ ctx'[c].new_socket = ctx[c].new_socket

LEMMA SocketsFrame ==
  ASSUME SocketsOwned, SocketsSame
  PROVE  SocketsOwned'
<1>1. \A c \in Blocks : ctx[c] # NULL => SocketsOf(c)' = SocketsOf(c)
  BY DEF SocketsSame, SocketsOf
<1>2. {b \in Blocks : ctx'[b] # NULL} = {b \in Blocks : ctx[b] # NULL}
  BY DEF SocketsSame
<1> DEFINE B == {b \in Blocks : ctx[b] # NULL}
<1>3. UNION {SocketsOf(c)' : c \in B} = UNION {SocketsOf(c) : c \in B}
  BY <1>1
<1> QED  BY <1>1, <1>2, <1>3 DEF SocketsOwned, SocketsSame

\* SocketsOwned element by element.
LEMMA SocketsView ==
  SocketsOwned <=>
    /\ \A f : f \in open <=> \E c \in Blocks : ctx[c] # NULL /\ f \in SocketsOf(c)
    /\ \A c \in Blocks : ctx[c] # NULL => ctx[c].socket # ctx[c].new_socket
    /\ \A c, d \in Blocks : c # d /\ ctx[c] # NULL /\ ctx[d] # NULL =>
         \A f : ~(f \in SocketsOf(c) /\ f \in SocketsOf(d))
<1> DEFINE B == {b \in Blocks : ctx[b] # NULL}
           U == UNION {SocketsOf(c) : c \in B}
<1>1. \A f : f \in U <=> \E c \in Blocks : ctx[c] # NULL /\ f \in SocketsOf(c)
  OBVIOUS
<1>2. (open = U) <=> \A f : f \in open <=> f \in U
  OBVIOUS
<1> QED  BY <1>1, <1>2 DEF SocketsOwned

\* The same of the next state.
LEMMA SocketsViewNext ==
  ASSUME \A f : f \in open' <=> \E c \in Blocks : ctx'[c] # NULL /\ f \in SocketsOf(c)',
         \A c \in Blocks : ctx'[c] # NULL => ctx'[c].socket # ctx'[c].new_socket,
         \A c, d \in Blocks : c # d /\ ctx'[c] # NULL /\ ctx'[d] # NULL =>
           \A f : ~(f \in SocketsOf(c)' /\ f \in SocketsOf(d)')
  PROVE  SocketsOwned'
<1> DEFINE B == {b \in Blocks : ctx'[b] # NULL}
           U == UNION {SocketsOf(c)' : c \in B}
<1>1. \A f : f \in U <=> \E c \in Blocks : ctx'[c] # NULL /\ f \in SocketsOf(c)'
  OBVIOUS
<1>2. open' = U
  BY <1>1
<1>3. \A c, d \in Blocks : c # d /\ ctx'[c] # NULL /\ ctx'[d] # NULL =>
        SocketsOf(c)' \cap SocketsOf(d)' = {}
  OBVIOUS
<1> QED  BY <1>2, <1>3 DEF SocketsOwned

\* A context gets a new socket: at its creation or as new_socket.
LEMMA SocketGained ==
  ASSUME TypeOK, SocketsOwned, NEW c \in Blocks, NEW r, Becomes(c, r),
         open' = open \cup {LowestFd},
         \/ /\ ctx[c] = NULL /\ r = NewContext(LowestFd)
         \/ /\ ctx[c] # NULL /\ ctx[c].new_socket = -1
            /\ r.socket = ctx[c].socket /\ r.new_socket = LowestFd
  PROVE  SocketsOwned' /\ open' \in SUBSET Nat /\ IsFiniteSet(open')
<1> DEFINE f == LowestFd
<1>1. f \in Nat /\ f \notin open /\ f # -1
  BY LowestFdFacts DEF TypeOK
<1>2. r \in Contexts /\ r # NULL /\ ctx'[c] = r /\ \A d \in Blocks : d # c => ctx'[d] = ctx[d]
  BY DEF Becomes
<1>3. open' \in SUBSET Nat /\ IsFiniteSet(open')
  BY <1>1, FS_AddElement DEF TypeOK
<1>4. ctx[c] = NULL => r.socket = f /\ r.new_socket = -1
  BY <1>1, NewContextFacts, SdsFacts
<1>5. SocketsOf(c)' = {f} \cup (IF ctx[c] = NULL THEN {} ELSE SocketsOf(c))
  BY <1>1, <1>2, <1>4, LiveFacts DEF SocketsOf
<1>6. \A d \in Blocks : d # c => SocketsOf(d)' = SocketsOf(d)
  BY <1>2 DEF SocketsOf
<1>7. \A d \in Blocks : ctx[d] # NULL => f \notin SocketsOf(d)
  BY <1>1, SocketsView
<1>8. r.socket # r.new_socket
  <2>1. CASE ctx[c] = NULL
    BY <1>1, <1>4, <2>1
  <2>2. CASE ctx[c] # NULL
    <3>1. r.socket \in open
      <4>1. r.socket \in SocketsOf(c)
        BY <2>2, LiveFacts DEF SocketsOf
      <4> QED  BY <4>1, <2>2, SocketsView
    <3> QED  BY <1>1, <2>2, <3>1, SdsFacts
  <2> QED  BY <2>1, <2>2
<1>9. \A g : g \in open' <=> \E d \in Blocks : ctx'[d] # NULL /\ g \in SocketsOf(d)'
  BY <1>2, <1>5, <1>6, SocketsView
<1>10. \A d \in Blocks : ctx'[d] # NULL => ctx'[d].socket # ctx'[d].new_socket
  BY <1>2, <1>8, SocketsView
<1>11. ASSUME NEW d \in Blocks, NEW e \in Blocks, d # e, ctx'[d] # NULL, ctx'[e] # NULL, NEW g
       PROVE  ~(g \in SocketsOf(d)' /\ g \in SocketsOf(e)')
  BY <1>2, <1>5, <1>6, <1>7, <1>11, SocketsView
<1> QED  BY <1>3, <1>9, <1>10, <1>11, SocketsViewNext

\* A context is freed and its sockets are closed.
LEMMA SocketsClosed ==
  ASSUME TypeOK, SocketsOwned, NEW c \in Blocks, ctx[c] # NULL, FreeContext(c)
  PROVE  /\ SocketsOwned' /\ open' \in SUBSET Nat /\ IsFiniteSet(open')
         /\ ctx' \in [Blocks -> Contexts \cup {NULL}]
         /\ ctx'[c] = NULL /\ \A d \in Blocks : d # c => ctx'[d] = ctx[d]
<1>1. /\ ctx' \in [Blocks -> Contexts \cup {NULL}]
      /\ ctx'[c] = NULL /\ \A d \in Blocks : d # c => ctx'[d] = ctx[d]
  BY DEF TypeOK, FreeContext
<1>2. open' = open \ SocketsOf(c)
  BY DEF FreeContext
<1>3. open' \in SUBSET Nat /\ IsFiniteSet(open')
  BY <1>2, FS_Subset DEF TypeOK
<1>4. \A d \in Blocks : d # c => SocketsOf(d)' = SocketsOf(d)
  BY <1>1 DEF SocketsOf
<1>5. \A g : g \in open' <=> \E d \in Blocks : ctx'[d] # NULL /\ g \in SocketsOf(d)'
  BY <1>1, <1>2, <1>4, SocketsView
<1>6. \A d \in Blocks : ctx'[d] # NULL => ctx'[d].socket # ctx'[d].new_socket
  BY <1>1, SocketsView
<1>7. ASSUME NEW d \in Blocks, NEW e \in Blocks, d # e, ctx'[d] # NULL, ctx'[e] # NULL, NEW g
      PROVE  ~(g \in SocketsOf(d)' /\ g \in SocketsOf(e)')
  BY <1>1, <1>4, <1>7, SocketsView
<1> QED  BY <1>1, <1>3, <1>5, <1>6, <1>7, SocketsViewNext

\* The accepted socket moves to the new context, whose first one is closed.
LEMMA SocketPassed ==
  ASSUME TypeOK, SocketsOwned, NEW c \in Blocks, NEW n \in Blocks, c # n,
         ctx[c] # NULL, ctx[n] # NULL, ctx[c].new_socket # -1,
         ctx' = PassSocket(n, c), open' = open \ {ctx[n].socket}
  PROVE  /\ SocketsOwned' /\ open' \in SUBSET Nat /\ IsFiniteSet(open')
         /\ ctx' \in [Blocks -> Contexts \cup {NULL}]
         /\ ctx'[c] = [ctx[c] EXCEPT !.new_socket = -1]
         /\ ctx'[n] = [ctx[n] EXCEPT !.socket = ctx[c].new_socket,
                                     !.listen_sd = ctx[c].my_sd, !.recv_thread_started = TRUE]
         /\ \A d \in Blocks : d # c /\ d # n => ctx'[d] = ctx[d]
         /\ ctx'[c] # NULL /\ ctx'[n] # NULL
<1>1. /\ ctx'[c] = [ctx[c] EXCEPT !.new_socket = -1]
      /\ ctx'[n] = [ctx[n] EXCEPT !.socket = ctx[c].new_socket,
                                  !.listen_sd = ctx[c].my_sd, !.recv_thread_started = TRUE]
      /\ \A d \in Blocks : d # c /\ d # n => ctx'[d] = ctx[d]
  BY DEF TypeOK, PassSocket
<1>2. ctx[c] \in Contexts /\ ctx[n] \in Contexts /\ ctx[c].new_socket \in Nat /\ ctx[c].my_sd \in Sds
      /\ ctx[c].socket \in Nat /\ ctx[n].socket \in Nat
  BY LiveFacts
<1>3. ctx'[c] \in Contexts
  BY <1>1, <1>2 DEF Contexts
<1>4. ctx'[n] \in Contexts
  BY <1>1, <1>2 DEF Contexts
<1>5. ctx'[c] # NULL /\ ctx'[n] # NULL
  BY <1>3, <1>4, SdsFacts
<1>6. DOMAIN ctx' = Blocks /\ ctx' = [d \in Blocks |-> ctx'[d]]
  BY DEF TypeOK, PassSocket
<1>7. \A d \in Blocks : ctx'[d] \in Contexts \cup {NULL}
  BY <1>1, <1>3, <1>4 DEF TypeOK
<1>8. ctx' \in [Blocks -> Contexts \cup {NULL}]
  BY <1>6, <1>7
<1>9. open' \in SUBSET Nat /\ IsFiniteSet(open')
  BY FS_Subset DEF TypeOK
<1>10. /\ ctx'[c].socket = ctx[c].socket /\ ctx'[c].new_socket = -1
       /\ ctx'[n].socket = ctx[c].new_socket /\ ctx'[n].new_socket = ctx[n].new_socket
  BY <1>1, <1>2 DEF Contexts
<1>11. /\ SocketsOf(c)' = {ctx[c].socket}
       /\ SocketsOf(n)' = {ctx[c].new_socket} \cup (SocketsOf(n) \ {ctx[n].socket})
       /\ SocketsOf(c) = {ctx[c].socket, ctx[c].new_socket}
       /\ ctx[n].socket \in SocketsOf(n)
       /\ \A d \in Blocks : d # c /\ d # n => SocketsOf(d)' = SocketsOf(d)
  <2>1. ctx[n].socket # ctx[n].new_socket /\ ctx[n].socket # -1 /\ ctx[c].socket # -1
    BY <1>2, SocketsView
  <2>2. SocketsOf(n)' = {ctx[c].new_socket} \cup (SocketsOf(n) \ {ctx[n].socket})
    BY <1>10, <2>1 DEF SocketsOf
  <2> QED  BY <1>1, <1>10, <2>1, <2>2 DEF SocketsOf
<1>12. ctx[c].socket # ctx[c].new_socket
  BY SocketsView
<1>13. \A g : ~(g \in SocketsOf(c) /\ g \in SocketsOf(n))
  BY SocketsView
<1>14. \A g : g \in open' <=> \E d \in Blocks : ctx'[d] # NULL /\ g \in SocketsOf(d)'
  <2>1. ASSUME NEW g \in open' PROVE \E d \in Blocks : ctx'[d] # NULL /\ g \in SocketsOf(d)'
    <3>1. PICK d \in Blocks : ctx[d] # NULL /\ g \in SocketsOf(d)
      BY <2>1, SocketsView
    <3>2. g # ctx[n].socket
      BY <2>1
    <3> QED  BY <1>1, <1>5, <1>11, <3>1, <3>2
  <2>2. ASSUME NEW g, NEW d \in Blocks, ctx'[d] # NULL, g \in SocketsOf(d)'
        PROVE  g \in open'
    <3>1. g \in open
      BY <1>1, <1>11, <2>2, SocketsView
    <3>2. g # ctx[n].socket
      <4>1. CASE d = c
        BY <4>1, <1>11, <1>13, <2>2
      <4>2. CASE d = n
        BY <4>2, <1>11, <1>13, <2>2
      <4>3. CASE d # c /\ d # n
        BY <4>3, <1>1, <1>11, <2>2, SocketsView
      <4> QED  BY <4>1, <4>2, <4>3
    <3> QED  BY <3>1, <3>2
  <2> QED  BY <2>1, <2>2
<1>15. \A d \in Blocks : ctx'[d] # NULL => ctx'[d].socket # ctx'[d].new_socket
  <2>1. ctx'[c].socket # ctx'[c].new_socket
    BY <1>2, <1>10
  <2>2. ctx'[n].socket # ctx'[n].new_socket
    <3>1. ctx[n].new_socket # -1 => ctx[n].new_socket \in SocketsOf(n)
      BY DEF SocketsOf
    <3> QED  BY <1>2, <1>10, <1>11, <1>13, <3>1
  <2> QED  BY <1>1, <2>1, <2>2, SocketsView
<1>16. ASSUME NEW d \in Blocks, NEW e \in Blocks, d # e, ctx'[d] # NULL, ctx'[e] # NULL, NEW g
       PROVE  ~(g \in SocketsOf(d)' /\ g \in SocketsOf(e)')
  <2>1. \A x, y \in Blocks : x # y /\ ctx[x] # NULL /\ ctx[y] # NULL =>
          ~(g \in SocketsOf(x) /\ g \in SocketsOf(y))
    BY SocketsView
  <2>2. \A x \in Blocks : x # c /\ x # n /\ ctx'[x] # NULL => ctx[x] # NULL
    BY <1>1
  <2>3. \A x \in Blocks : ctx'[x] # NULL /\ g \in SocketsOf(x)' /\ x # n => g \in SocketsOf(x) /\ ctx[x] # NULL
    BY <1>11, <2>2
  <2>4. g \in SocketsOf(n)' => g \in SocketsOf(n) \/ g = ctx[c].new_socket
    BY <1>11
  <2>5. g = ctx[c].new_socket => g \notin SocketsOf(c)' /\ g \in SocketsOf(c)
    BY <1>11, <1>12
  <2> QED  BY <1>16, <2>1, <2>3, <2>4, <2>5
<1> QED  BY <1>1, <1>5, <1>8, <1>9, <1>14, <1>15, <1>16, SocketsViewNext
-----------------------------------------------------------------------------
(* The steps, seen from the contexts *)

\* Nothing but fields the invariant does not look at.
MinorStep ==
  /\ ctx' \in [Blocks -> Contexts \cup {NULL}]
  /\ \A c \in Blocks : (ctx'[c] = NULL) = (ctx[c] = NULL)
  /\ \A c \in Blocks : ctx[c] # NULL =>
       /\ ctx'[c].my_sd = ctx[c].my_sd /\ ctx'[c].socket = ctx[c].socket
       /\ ctx'[c].new_socket = ctx[c].new_socket /\ ctx'[c].listen_sd = ctx[c].listen_sd
       /\ ctx'[c].listening = ctx[c].listening /\ ctx'[c].is_active = ctx[c].is_active
       /\ ctx'[c].stcp_errno = ctx[c].stcp_errno
       /\ ctx'[c].recv_thread_started = ctx[c].recv_thread_started

LEMMA UnchangedMinor ==
  ASSUME TypeOK, ctx' = ctx
  PROVE  MinorStep
BY DEF TypeOK, MinorStep

LEMMA MinorUpdate ==
  ASSUME TypeOK, NEW c \in Blocks, ctx[c] # NULL, NEW b \in BOOLEAN,
         \/ ctx' = [ctx EXCEPT ![c].bound = b]
         \/ ctx' = [ctx EXCEPT ![c].bound = TRUE, ![c].port = TRUE]
         \/ ctx' = [ctx EXCEPT ![c].close_requested = b]
         \/ ctx' = [ctx EXCEPT ![c].exit_pipe = b]
  PROVE  MinorStep
<1> DEFINE r == ctx[c]
           S == {[r EXCEPT !.bound = b], [r EXCEPT !.bound = TRUE, !.port = TRUE],
                 [r EXCEPT !.close_requested = b], [r EXCEPT !.exit_pipe = b]}
<1> HIDE DEF r
<1>1. r \in Contexts
  BY LiveFacts DEF r
<1>2. \A s \in S : /\ s \in Contexts
                   /\ s.my_sd = r.my_sd /\ s.socket = r.socket /\ s.new_socket = r.new_socket
                   /\ s.listen_sd = r.listen_sd /\ s.listening = r.listening
                   /\ s.is_active = r.is_active /\ s.stcp_errno = r.stcp_errno
                   /\ s.recv_thread_started = r.recv_thread_started
  BY <1>1, MinorFields
<1>3. \E s \in S : ctx' = [ctx EXCEPT ![c] = s]
  <2>1. \/ ctx' = [ctx EXCEPT ![c] = [r EXCEPT !.bound = b]]
        \/ ctx' = [ctx EXCEPT ![c] = [r EXCEPT !.bound = TRUE, !.port = TRUE]]
        \/ ctx' = [ctx EXCEPT ![c] = [r EXCEPT !.close_requested = b]]
        \/ ctx' = [ctx EXCEPT ![c] = [r EXCEPT !.exit_pipe = b]]
    BY DEF TypeOK, r
  <2> QED  BY <2>1, Zenon
<1> HIDE DEF S
<1>4. PICK s \in S : ctx' = [ctx EXCEPT ![c] = s]
  BY <1>3
<1>5. Becomes(c, s)
  BY <1>2, <1>4, BecomesFacts
<1> QED  BY <1>2, <1>5 DEF Becomes, MinorStep, r

LEMMA MinorSockets ==
  ASSUME SocketsOwned, MinorStep, open' = open
  PROVE  SocketsOwned'
BY SocketsFrame DEF MinorStep, SocketsSame

\* Changes of the other fields, one kind after the other.
LEMMA ErrnoField ==
  ASSUME NEW r \in Contexts, NEW e \in {0, 1}
  PROVE  LET s == [r EXCEPT !.stcp_errno = e]
         IN /\ s \in Contexts /\ s.stcp_errno = e
            /\ s.my_sd = r.my_sd /\ s.socket = r.socket /\ s.new_socket = r.new_socket
            /\ s.listen_sd = r.listen_sd /\ s.listening = r.listening /\ s.is_active = r.is_active
            /\ s.recv_thread_started = r.recv_thread_started
BY DEF Contexts

LEMMA StoppedField ==
  ASSUME NEW r \in Contexts
  PROVE  LET s == [r EXCEPT !.recv_thread_started = FALSE]
         IN /\ s \in Contexts /\ ~s.recv_thread_started
            /\ s.my_sd = r.my_sd /\ s.socket = r.socket /\ s.new_socket = r.new_socket
            /\ s.listen_sd = r.listen_sd /\ s.listening = r.listening /\ s.is_active = r.is_active
            /\ s.stcp_errno = r.stcp_errno
BY DEF Contexts

LEMMA NewSocketField ==
  ASSUME NEW r \in Contexts, NEW f \in Nat
  PROVE  LET s == [r EXCEPT !.new_socket = f]
         IN /\ s \in Contexts /\ s.new_socket = f
            /\ s.my_sd = r.my_sd /\ s.socket = r.socket /\ s.listen_sd = r.listen_sd
            /\ s.listening = r.listening /\ s.is_active = r.is_active /\ s.stcp_errno = r.stcp_errno
            /\ s.recv_thread_started = r.recv_thread_started
BY DEF Contexts

LEMMA SdField ==
  ASSUME NEW r \in Contexts, NEW sd \in Sds
  PROVE  LET s == [r EXCEPT !.my_sd = sd]
         IN /\ s \in Contexts /\ s.my_sd = sd
            /\ s.socket = r.socket /\ s.new_socket = r.new_socket /\ s.listen_sd = r.listen_sd
            /\ s.listening = r.listening /\ s.is_active = r.is_active /\ s.stcp_errno = r.stcp_errno
            /\ s.recv_thread_started = r.recv_thread_started
BY DEF Contexts

LEMMA ActiveFields ==
  ASSUME NEW r \in Contexts, NEW b \in BOOLEAN
  PROVE  LET s == [r EXCEPT !.port = b, !.bound = TRUE, !.is_active = TRUE,
                             !.recv_thread_started = TRUE]
         IN /\ s \in Contexts /\ s.is_active /\ s.recv_thread_started
            /\ s.my_sd = r.my_sd /\ s.socket = r.socket /\ s.new_socket = r.new_socket
            /\ s.listen_sd = r.listen_sd /\ s.listening = r.listening /\ s.stcp_errno = r.stcp_errno
BY DEF Contexts

LEMMA ListeningField ==
  ASSUME NEW r \in Contexts
  PROVE  LET s == [r EXCEPT !.listening = TRUE]
         IN /\ s \in Contexts /\ s.listening
            /\ s.my_sd = r.my_sd /\ s.socket = r.socket /\ s.new_socket = r.new_socket
            /\ s.listen_sd = r.listen_sd /\ s.is_active = r.is_active /\ s.stcp_errno = r.stcp_errno
            /\ s.recv_thread_started = r.recv_thread_started
BY DEF Contexts

LEMMA ListenerFields ==
  ASSUME NEW r \in Contexts
  PROVE  LET s == [r EXCEPT !.listening = TRUE, !.recv_thread_started = TRUE]
         IN /\ s \in Contexts /\ s.listening /\ s.recv_thread_started
            /\ s.my_sd = r.my_sd /\ s.socket = r.socket /\ s.new_socket = r.new_socket
            /\ s.listen_sd = r.listen_sd /\ s.is_active = r.is_active /\ s.stcp_errno = r.stcp_errno
BY DEF Contexts

\* What a step does to the context it changes.
LEMMA StoreEffect ==
  ASSUME TypeOK, NEW t \in Threads, Store(t)
  PROVE  /\ Top(t) \in Blocks /\ ctx[Top(t)] # NULL /\ k[t] \in Sds
         /\ \E r \in Contexts :
              /\ Becomes(Top(t), r) /\ r.my_sd = k[t]
              /\ r.socket = ctx[Top(t)].socket /\ r.new_socket = ctx[Top(t)].new_socket
              /\ r.listen_sd = ctx[Top(t)].listen_sd /\ r.listening = ctx[Top(t)].listening
              /\ r.is_active = ctx[Top(t)].is_active /\ r.stcp_errno = ctx[Top(t)].stcp_errno
              /\ r.recv_thread_started = ctx[Top(t)].recv_thread_started
<1> DEFINE c == Top(t)
           r == [ctx[c] EXCEPT !.my_sd = k[t]]
<1>1. c \in Blocks /\ ctx[c] # NULL
  BY TopFacts DEF Store
<1>2. k[t] \in Sds
  BY DEF Store, TypeOK
<1>3. ctx[c] \in Contexts
  BY <1>1, LiveFacts
<1>4. ctx' = [ctx EXCEPT ![c] = r]
  BY <1>1 DEF Store, TypeOK
<1>5. /\ r \in Contexts /\ r.my_sd = k[t]
      /\ r.socket = ctx[c].socket /\ r.new_socket = ctx[c].new_socket
      /\ r.listen_sd = ctx[c].listen_sd /\ r.listening = ctx[c].listening
      /\ r.is_active = ctx[c].is_active /\ r.stcp_errno = ctx[c].stcp_errno
      /\ r.recv_thread_started = ctx[c].recv_thread_started
  BY <1>2, <1>3, SdField
<1> HIDE DEF r
<1>6. Becomes(c, r)
  BY <1>1, <1>4, <1>5, BecomesFacts
<1> QED  BY <1>1, <1>2, <1>5, <1>6

LEMMA OutcomeEffect ==
  ASSUME TypeOK, NEW c \in Blocks, ctx[c] # NULL, Outcome(c)
  PROVE  \E r \in Contexts :
           /\ Becomes(c, r) /\ r.my_sd = ctx[c].my_sd
           /\ r.socket = ctx[c].socket /\ r.new_socket = ctx[c].new_socket
           /\ r.listen_sd = ctx[c].listen_sd /\ r.listening = ctx[c].listening
           /\ r.is_active = ctx[c].is_active
           /\ r.recv_thread_started = ctx[c].recv_thread_started
           /\ tr' = [tr EXCEPT ![c] = IF r.stcp_errno = 0 THEN "run" ELSE "exited"]
<1>1. PICK e \in {0, 1} : /\ ctx' = [ctx EXCEPT ![c].stcp_errno = e]
                          /\ tr' = [tr EXCEPT ![c] = IF e = 0 THEN "run" ELSE "exited"]
  BY DEF Outcome
<1> DEFINE r == [ctx[c] EXCEPT !.stcp_errno = e]
<1>2. ctx[c] \in Contexts
  BY LiveFacts
<1>3. ctx' = [ctx EXCEPT ![c] = r]
  BY <1>1 DEF TypeOK
<1>4. /\ r \in Contexts /\ r.stcp_errno = e /\ r.my_sd = ctx[c].my_sd
      /\ r.socket = ctx[c].socket /\ r.new_socket = ctx[c].new_socket
      /\ r.listen_sd = ctx[c].listen_sd /\ r.listening = ctx[c].listening
      /\ r.is_active = ctx[c].is_active
      /\ r.recv_thread_started = ctx[c].recv_thread_started
  BY <1>2, ErrnoField
<1> HIDE DEF r
<1>5. Becomes(c, r)
  BY <1>3, <1>4, BecomesFacts
<1> QED  BY <1>1, <1>4, <1>5

LEMMA JoinEffect ==
  ASSUME TypeOK, NEW c \in Blocks, ctx[c] # NULL,
         ctx' = [ctx EXCEPT ![c].recv_thread_started = FALSE]
  PROVE  \E r \in Contexts :
           /\ Becomes(c, r) /\ r.my_sd = ctx[c].my_sd
           /\ r.socket = ctx[c].socket /\ r.new_socket = ctx[c].new_socket
           /\ r.listen_sd = ctx[c].listen_sd /\ r.listening = ctx[c].listening
           /\ r.is_active = ctx[c].is_active /\ r.stcp_errno = ctx[c].stcp_errno
           /\ ~r.recv_thread_started
<1> DEFINE r == [ctx[c] EXCEPT !.recv_thread_started = FALSE]
<1>1. ctx[c] \in Contexts
  BY LiveFacts
<1>2. ctx' = [ctx EXCEPT ![c] = r]
  BY DEF TypeOK
<1>3. /\ r \in Contexts /\ ~r.recv_thread_started /\ r.my_sd = ctx[c].my_sd
      /\ r.socket = ctx[c].socket /\ r.new_socket = ctx[c].new_socket
      /\ r.listen_sd = ctx[c].listen_sd /\ r.listening = ctx[c].listening
      /\ r.is_active = ctx[c].is_active /\ r.stcp_errno = ctx[c].stcp_errno
  BY <1>1, StoppedField
<1> HIDE DEF r
<1>4. Becomes(c, r)
  BY <1>2, <1>3, BecomesFacts
<1> QED  BY <1>3, <1>4

LEMMA AcceptEffect ==
  ASSUME TypeOK, NEW c \in Blocks, ctx[c] # NULL,
         ctx' = [ctx EXCEPT ![c].new_socket = LowestFd]
  PROVE  \E r \in Contexts :
           /\ Becomes(c, r) /\ r.my_sd = ctx[c].my_sd
           /\ r.socket = ctx[c].socket /\ r.new_socket = LowestFd /\ r.new_socket \in Nat
           /\ r.listen_sd = ctx[c].listen_sd /\ r.listening = ctx[c].listening
           /\ r.is_active = ctx[c].is_active /\ r.stcp_errno = ctx[c].stcp_errno
           /\ r.recv_thread_started = ctx[c].recv_thread_started
<1> DEFINE r == [ctx[c] EXCEPT !.new_socket = LowestFd]
<1>1. ctx[c] \in Contexts /\ LowestFd \in Nat
  BY LiveFacts, LowestFdFacts DEF TypeOK
<1>2. ctx' = [ctx EXCEPT ![c] = r]
  BY DEF TypeOK
<1>3. /\ r \in Contexts /\ r.new_socket = LowestFd /\ r.my_sd = ctx[c].my_sd
      /\ r.socket = ctx[c].socket
      /\ r.listen_sd = ctx[c].listen_sd /\ r.listening = ctx[c].listening
      /\ r.is_active = ctx[c].is_active /\ r.stcp_errno = ctx[c].stcp_errno
      /\ r.recv_thread_started = ctx[c].recv_thread_started
  BY <1>1, NewSocketField
<1> HIDE DEF r
<1>4. Becomes(c, r)
  BY <1>2, <1>3, BecomesFacts
<1> QED  BY <1>1, <1>3, <1>4

LEMMA ConnectEffect ==
  ASSUME TypeOK, NEW t \in Apps, NEW sd \in Sds, Myconnect(t, sd)
  PROVE  LET c == Context(sd)
         IN /\ c \in Blocks /\ c = global_ctx[sd] /\ ctx[c] # NULL /\ ctx[c].my_sd = sd
            /\ \E r \in Contexts :
                 /\ Becomes(c, r) /\ r.my_sd = ctx[c].my_sd
                 /\ r.socket = ctx[c].socket /\ r.new_socket = ctx[c].new_socket
                 /\ r.listen_sd = ctx[c].listen_sd /\ r.listening = ctx[c].listening
                 /\ r.stcp_errno = ctx[c].stcp_errno
                 /\ r.is_active /\ r.recv_thread_started
<1> DEFINE c == Context(sd)
           b == ctx[c].port \/ ~ctx[c].bound
           r == [ctx[c] EXCEPT !.port = b, !.bound = TRUE, !.is_active = TRUE,
                               !.recv_thread_started = TRUE]
<1>1. c \in Blocks /\ c = global_ctx[sd] /\ ctx[c] # NULL /\ ctx[c].my_sd = sd
  BY ContextFacts DEF Myconnect, Valid
<1>2. ctx[c] \in Contexts
  BY <1>1, LiveFacts
<1>3. b \in BOOLEAN
  OBVIOUS
<1>4. ctx' = [ctx EXCEPT ![c] = r]
  BY <1>1 DEF TypeOK, Myconnect
<1> HIDE DEF b
<1>5. /\ r \in Contexts /\ r.is_active /\ r.recv_thread_started /\ r.my_sd = ctx[c].my_sd
      /\ r.socket = ctx[c].socket /\ r.new_socket = ctx[c].new_socket
      /\ r.listen_sd = ctx[c].listen_sd /\ r.listening = ctx[c].listening
      /\ r.stcp_errno = ctx[c].stcp_errno
  BY <1>2, <1>3, ActiveFields
<1> HIDE DEF r
<1>6. Becomes(c, r)
  BY <1>1, <1>4, <1>5, BecomesFacts
<1> QED  BY <1>1, <1>5, <1>6

LEMMA ListenEffect ==
  ASSUME TypeOK, NEW t \in Apps, NEW sd \in Sds, NEW backlog, Mylisten(t, sd, backlog)
  PROVE  LET c == Context(sd)
         IN /\ c \in Blocks /\ c = global_ctx[sd] /\ ctx[c] # NULL /\ ctx[c].my_sd = sd
            /\ \E r \in Contexts :
                 /\ Becomes(c, r) /\ r.my_sd = ctx[c].my_sd
                 /\ r.socket = ctx[c].socket /\ r.new_socket = ctx[c].new_socket
                 /\ r.listen_sd = ctx[c].listen_sd /\ r.is_active = ctx[c].is_active
                 /\ r.stcp_errno = ctx[c].stcp_errno /\ r.listening
                 /\ \/ /\ pc' = pc
                       /\ r.recv_thread_started = ctx[c].recv_thread_started
                    \/ pc' = [pc EXCEPT ![c] = "poll"] /\ r.recv_thread_started
<1> DEFINE c == Context(sd)
           s == [ctx[c] EXCEPT !.listening = TRUE]
           u == [ctx[c] EXCEPT !.listening = TRUE, !.recv_thread_started = TRUE]
<1>1. c \in Blocks /\ c = global_ctx[sd] /\ ctx[c] # NULL /\ ctx[c].my_sd = sd
  BY ContextFacts DEF Mylisten, Valid
<1>2. ctx[c] \in Contexts
  BY <1>1, LiveFacts
<1>3. /\ s \in Contexts /\ s.listening /\ s.my_sd = ctx[c].my_sd
      /\ s.socket = ctx[c].socket /\ s.new_socket = ctx[c].new_socket
      /\ s.listen_sd = ctx[c].listen_sd /\ s.is_active = ctx[c].is_active
      /\ s.stcp_errno = ctx[c].stcp_errno /\ s.recv_thread_started = ctx[c].recv_thread_started
  BY <1>2, ListeningField
<1>4. /\ u \in Contexts /\ u.listening /\ u.my_sd = ctx[c].my_sd
      /\ u.socket = ctx[c].socket /\ u.new_socket = ctx[c].new_socket
      /\ u.listen_sd = ctx[c].listen_sd /\ u.is_active = ctx[c].is_active
      /\ u.stcp_errno = ctx[c].stcp_errno /\ u.recv_thread_started
  BY <1>2, ListenerFields
<1>5. \/ ctx' = [ctx EXCEPT ![c] = s] /\ pc' = pc
      \/ ctx' = [ctx EXCEPT ![c] = u] /\ pc' = [pc EXCEPT ![c] = "poll"]
  BY <1>1 DEF TypeOK, Mylisten
<1> HIDE DEF s, u
<1>6. CASE ctx' = [ctx EXCEPT ![c] = s] /\ pc' = pc
  <2>1. Becomes(c, s)
    BY <1>1, <1>3, <1>6, BecomesFacts
  <2> QED  BY <1>1, <1>3, <1>6, <2>1
<1>7. CASE ctx' = [ctx EXCEPT ![c] = u] /\ pc' = [pc EXCEPT ![c] = "poll"]
  <2>1. Becomes(c, u)
    BY <1>1, <1>4, <1>7, BecomesFacts
  <2> QED  BY <1>1, <1>4, <1>7, <2>1
<1> QED  BY <1>5, <1>6, <1>7

LEMMA AllocateEffect ==
  ASSUME TypeOK, SocketsOwned, NEW t \in Threads, Allocate(t)
  PROVE  \E c \in Blocks :
           /\ ctx[c] = NULL /\ tr[c] = "none" /\ pc[c] \in {"none", "done"}
           /\ Becomes(c, NewContext(LowestFd)) /\ LowestFd \in Nat
           /\ SocketsOwned' /\ open' \in SUBSET Nat /\ IsFiniteSet(open')
           /\ cur' = [cur EXCEPT ![t] = <<c>>] /\ k' = [k EXCEPT ![t] = 0]
           /\ global_ctx' = global_ctx /\ tr' = tr
<1>1. PICK c \in Blocks :
        /\ ctx[c] = NULL /\ tr[c] = "none" /\ pc[c] \in {"none", "done"}
        /\ ctx' = [ctx EXCEPT ![c] = NewContext(LowestFd)]
        /\ open' = open \cup {LowestFd}
        /\ cur' = [cur EXCEPT ![t] = <<c>>] /\ k' = [k EXCEPT ![t] = 0]
        /\ global_ctx' = global_ctx /\ tr' = tr
  BY DEF Allocate
<1>2. LowestFd \in Nat
  BY LowestFdFacts DEF TypeOK
<1>3. NewContext(LowestFd) \in Contexts
  BY <1>2, NewContextFacts
<1>4. Becomes(c, NewContext(LowestFd))
  BY <1>1, <1>3, BecomesFacts
<1>5. SocketsOwned' /\ open' \in SUBSET Nat /\ IsFiniteSet(open')
  BY <1>1, <1>4, SocketGained
<1> QED  BY <1>1, <1>2, <1>4, <1>5

\* The rest of the types.
Rest ==
  /\ global_ctx \in [Sds -> Blocks \cup {NULL}]
  /\ tr \in [Blocks -> {"none", "handshake", "run", "exited"}]
  /\ pc \in [Threads -> RecvStates \cup AppStates]
  /\ \A a \in Apps : pc[a] \in AppStates
  /\ \A c \in Blocks : pc[c] \in RecvStates
  /\ cur \in [Threads -> Seq(Blocks)]
  /\ k \in [Threads -> Nat]
  /\ \A t \in Threads : pc[t] \in {"store", "pass"} => k[t] \in Sds
  /\ held \in [Apps -> SUBSET Sds]
  /\ clashed \in BOOLEAN

LEMMA ThreadFacts ==
  /\ \A a \in Apps : a \in Threads /\ a \notin Blocks
  /\ \A c \in Blocks : c \in Threads /\ c \notin Apps
BY SdsFacts DEF Threads

\* One-element stacks.
LEMMA Single ==
  ASSUME NEW c
  PROVE  Range(<<c>>) = {c} /\ <<c>> # <<>> /\ Range(<<>>) = {} /\ Len(<<c>>) = 1
         /\ Head(<<c>>) = c /\ Tail(<<c>>) = <<>>
         /\ c \in Blocks => <<c>> \in Seq(Blocks) /\ <<>> \in Seq(Blocks)
BY DEF Range

\* The value of a function after one of its values was replaced.
LEMMA UpdateFacts ==
  ASSUME NEW D, NEW R, NEW f \in [D -> R], NEW x \in D, NEW v \in R
  PROVE  LET g == [f EXCEPT ![x] = v]
         IN g \in [D -> R] /\ g[x] = v /\ \A y \in D : y # x => g[y] = f[y]
OBVIOUS

LEMMA Stacks ==
  ASSUME TypeOK, NEW t \in Threads
  PROVE  /\ \A s \in Seq(Blocks) : cur' = [cur EXCEPT ![t] = s] =>
              /\ cur' \in [Threads -> Seq(Blocks)]
              /\ cur'[t] = s /\ \A u \in Threads : u # t => cur'[u] = cur[u]
         /\ \A n \in Nat : k' = [k EXCEPT ![t] = n] =>
              /\ k' \in [Threads -> Nat]
              /\ k'[t] = n /\ \A u \in Threads : u # t => k'[u] = k[u]
         /\ <<>> \in Seq(Blocks) /\ \A c \in Blocks : <<c>> \in Seq(Blocks)
<1>1. cur \in [Threads -> Seq(Blocks)] /\ k \in [Threads -> Nat]
  BY DEF TypeOK
<1>2. ASSUME NEW s \in Seq(Blocks), cur' = [cur EXCEPT ![t] = s]
      PROVE  /\ cur' \in [Threads -> Seq(Blocks)]
             /\ cur'[t] = s /\ \A u \in Threads : u # t => cur'[u] = cur[u]
  BY <1>1, <1>2, UpdateFacts
<1>3. ASSUME NEW n \in Nat, k' = [k EXCEPT ![t] = n]
      PROVE  /\ k' \in [Threads -> Nat]
             /\ k'[t] = n /\ \A u \in Threads : u # t => k'[u] = k[u]
  BY <1>1, <1>3, UpdateFacts
<1> QED  BY <1>2, <1>3

\* One thread moves on.
LEMMA Moves ==
  ASSUME TypeOK, NEW t \in Threads, NEW v, pc' = [pc EXCEPT ![t] = v],
         t \in Apps => v \in AppStates, t \in Blocks => v \in RecvStates
  PROVE  /\ pc' \in [Threads -> RecvStates \cup AppStates]
         /\ \A a \in Apps : pc'[a] \in AppStates
         /\ \A c \in Blocks : pc'[c] \in RecvStates
         /\ pc'[t] = v /\ \A u \in Threads : u # t => pc'[u] = pc[u]
<1>1. pc'[t] = v /\ \A u \in Threads : u # t => pc'[u] = pc[u]
  BY DEF TypeOK
<1>2. v \in RecvStates \cup AppStates
  BY ThreadFacts DEF Threads
<1>3. pc' \in [Threads -> RecvStates \cup AppStates]
  BY <1>2 DEF TypeOK
<1>4. /\ \A a \in Apps : pc'[a] \in AppStates
      /\ \A c \in Blocks : pc'[c] \in RecvStates
  BY <1>1, ThreadFacts DEF TypeOK
<1> QED  BY <1>1, <1>3, <1>4

LEMMA BaseAllocate ==
  ASSUME Base, NEW t \in Threads, Allocate(t), pc' = [pc EXCEPT ![t] = "scan"],
         t \in Apps \/ pc[t] = "read", UNCHANGED <<held, clashed>>
  PROVE  Base'
<1>1. PICK c \in Blocks :
           /\ ctx[c] = NULL /\ tr[c] = "none" /\ pc[c] \in {"none", "done"}
           /\ Becomes(c, NewContext(LowestFd)) /\ LowestFd \in Nat
           /\ SocketsOwned' /\ open' \in SUBSET Nat /\ IsFiniteSet(open')
           /\ cur' = [cur EXCEPT ![t] = <<c>>] /\ k' = [k EXCEPT ![t] = 0]
           /\ global_ctx' = global_ctx /\ tr' = tr
  BY AllocateEffect DEF Base
<1>2. Rest'
  BY <1>1, Single, ThreadFacts DEF Base, TypeOK, Rest, AppStates, RecvStates
<1>3. Receiving'
  <2>1. ASSUME NEW d \in Blocks, ctx'[d] # NULL
        PROVE  /\ pc'[d] \notin {"none", "done"} => ctx'[d].recv_thread_started
               /\ pc'[d] \in {"read", "scan", "store", "pass"} =>
                    ctx'[d].listening /\ ctx'[d].new_socket # -1
    <3>1. CASE d = c
      BY <1>1, <3>1, ThreadFacts DEF Base, TypeOK
    <3>2. CASE d # c
      BY <1>1, <2>1, <3>2, ThreadFacts DEF Base, TypeOK, Receiving, Becomes
    <3> QED  BY <3>1, <3>2
  <2> QED  BY <2>1 DEF Receiving
<1> QED  BY <1>1, <1>2, <1>3 DEF Base, TypeOK, Rest, Becomes

LEMMA BaseScan ==
  ASSUME Base, NEW t \in Threads, Scan(t)
  PROVE  Base'
<1> USE DEF Base
<1>1. Top(t) \in Blocks /\ ctx[Top(t)] # NULL
  BY TopFacts DEF Scan
<1>2. CASE k[t] \in Sds /\ UNCHANGED <<tableVars, cur>>
  <2>1. MinorStep /\ open' = open
    BY <1>2, UnchangedMinor DEF tableVars
  <2>2. Rest'
    <3>1. CASE pc' = pc /\ k' = [k EXCEPT ![t] = @ + 1]
      BY <1>2, <3>1 DEF TypeOK, Rest, Scan, tableVars
    <3>2. CASE pc' = [pc EXCEPT ![t] = "store"] /\ k' = k
      <4>1. "store" \in AppStates /\ "store" \in RecvStates
        BY DEF AppStates, RecvStates
      <4> QED  BY <1>2, <3>2, <4>1, Moves DEF TypeOK, Rest, Scan, tableVars
    <3> QED  BY <1>2, <3>1, <3>2 DEF Scan
  <2>3. Receiving'
    BY <1>2, ThreadFacts DEF TypeOK, Receiving, Scan, tableVars
  <2> QED  BY <2>1, <2>2, <2>3, MinorSockets DEF TypeOK, Rest, MinorStep
<1>3. CASE k[t] \notin Sds
  <2>1. FreeContext(Top(t)) /\ global_ctx' = ClearEntry(Top(t))
    BY <1>3 DEF Scan
  <2>2. /\ SocketsOwned' /\ open' \in SUBSET Nat /\ IsFiniteSet(open')
        /\ ctx' \in [Blocks -> Contexts \cup {NULL}]
        /\ ctx'[Top(t)] = NULL /\ \A d \in Blocks : d # Top(t) => ctx'[d] = ctx[d]
    BY <1>1, <2>1, SocketsClosed
  <2>3. Rest'
    <3>1. global_ctx' \in [Sds -> Blocks \cup {NULL}]
      BY <2>1 DEF ClearEntry, TypeOK
    <3>2. tr' \in [Blocks -> {"none", "handshake", "run", "exited"}]
      BY <2>1 DEF FreeContext, TypeOK
    <3>3. t \in Apps => "idle" \in AppStates
      BY DEF AppStates
    <3>4. t \in Blocks => "poll" \in RecvStates
      BY DEF RecvStates
    <3>5. pc' = [pc EXCEPT ![t] = IF t \in Apps THEN "idle" ELSE "poll"]
      BY <1>3 DEF Scan
    <3>6. /\ pc' \in [Threads -> RecvStates \cup AppStates]
          /\ \A a \in Apps : pc'[a] \in AppStates
          /\ \A c \in Blocks : pc'[c] \in RecvStates
          /\ pc'[t] \notin {"store", "pass"} /\ \A u \in Threads : u # t => pc'[u] = pc[u]
      BY <3>3, <3>4, <3>5, Moves, ThreadFacts
    <3>7. cur' \in [Threads -> Seq(Blocks)] /\ k' \in [Threads -> Nat]
      <4>1. cur' = [cur EXCEPT ![t] = <<>>] /\ k' = [k EXCEPT ![t] = 0]
        BY <1>3 DEF Scan
      <4> QED  BY <4>1, Stacks
    <3> QED  BY <1>3, <3>1, <3>2, <3>6, <3>7 DEF TypeOK, Rest, Scan
  <2>4. Receiving'
    BY <1>3, <2>2, ThreadFacts DEF TypeOK, Receiving, Scan
  <2> QED  BY <2>2, <2>3, <2>4 DEF TypeOK, Rest
<1> QED  BY <1>2, <1>3 DEF Scan

LEMMA BaseStore ==
  ASSUME Base, NEW t \in Threads, Store(t)
  PROVE  Base'
<1> USE DEF Base
<1>1. Top(t) \in Blocks /\ ctx[Top(t)] # NULL /\ k[t] \in Sds
  BY StoreEffect
<1>2. PICK r \in Contexts :
              /\ Becomes(Top(t), r)
              /\ r.socket = ctx[Top(t)].socket /\ r.new_socket = ctx[Top(t)].new_socket
              /\ r.listening = ctx[Top(t)].listening
              /\ r.recv_thread_started = ctx[Top(t)].recv_thread_started
  BY StoreEffect
<1>3. SocketsOwned' /\ open' = open
  BY <1>1, <1>2, SocketsFrame DEF Store, SocketsSame, Becomes
<1>4. /\ global_ctx' = [global_ctx EXCEPT ![k[t]] = Top(t)] /\ tr' = tr
      /\ clashed' = (clashed \/ global_ctx[k[t]] # NULL)
      /\ \/ /\ t \in Apps /\ pc' = [pc EXCEPT ![t] = "idle"]
            /\ held' = [held EXCEPT ![t] = @ \cup {k[t]}]
            /\ cur' = [cur EXCEPT ![t] = <<>>] /\ k' = [k EXCEPT ![t] = 0]
         \/ /\ t \in Blocks /\ pc' = [pc EXCEPT ![t] = "pass"]
            /\ UNCHANGED <<held, cur, k>>
  BY DEF Store
<1>5. Rest'
  <2>1. global_ctx' \in [Sds -> Blocks \cup {NULL}]
    BY <1>1, <1>4 DEF TypeOK
  <2>2. held' \in [Apps -> SUBSET Sds]
    BY <1>1, <1>4 DEF TypeOK
  <2>3. /\ pc' \in [Threads -> RecvStates \cup AppStates]
        /\ \A a \in Apps : pc'[a] \in AppStates
        /\ \A c \in Blocks : pc'[c] \in RecvStates
        /\ \A u \in Threads : u # t => pc'[u] = pc[u]
    <3>1. CASE t \in Apps /\ pc' = [pc EXCEPT ![t] = "idle"]
      <4>1. "idle" \in AppStates
        BY DEF AppStates
      <4> QED  BY <3>1, <4>1, Moves, ThreadFacts
    <3>2. CASE t \in Blocks /\ pc' = [pc EXCEPT ![t] = "pass"]
      <4>1. "pass" \in RecvStates
        BY DEF RecvStates
      <4> QED  BY <3>2, <4>1, Moves, ThreadFacts
    <3> QED  BY <1>4, <3>1, <3>2
  <2>5. cur' \in [Threads -> Seq(Blocks)] /\ k' \in [Threads -> Nat]
    BY <1>4, Stacks DEF TypeOK
  <2>6. \A u \in Threads : pc'[u] \in {"store", "pass"} => k'[u] \in Sds
    BY <1>1, <1>4, <2>3 DEF TypeOK
  <2>7. tr' = tr /\ clashed' \in BOOLEAN
    BY <1>4 DEF TypeOK
  <2> QED  BY <2>1, <2>2, <2>3, <2>5, <2>6, <2>7 DEF TypeOK, Rest
<1>6. Receiving'
  <2>1. ASSUME NEW d \in Blocks, ctx'[d] # NULL
        PROVE  /\ pc'[d] \notin {"none", "done"} => ctx'[d].recv_thread_started
               /\ pc'[d] \in {"read", "scan", "store", "pass"} =>
                    ctx'[d].listening /\ ctx'[d].new_socket # -1
    <3>1. /\ ctx[d] # NULL /\ ctx'[d].recv_thread_started = ctx[d].recv_thread_started
          /\ ctx'[d].listening = ctx[d].listening /\ ctx'[d].new_socket = ctx[d].new_socket
      BY <1>1, <1>2, <2>1 DEF Becomes
    <3>2. pc'[d] = pc[d] \/ (pc[d] = "store" /\ pc'[d] = "pass")
      BY <1>4, ThreadFacts DEF TypeOK, Store
    <3> QED  BY <3>1, <3>2 DEF Receiving
  <2> QED  BY <2>1 DEF Receiving
<1> QED  BY <1>2, <1>3, <1>5, <1>6 DEF TypeOK, Rest, Becomes

\* A step of an application thread that changes no context, as far as the
\* invariant looks at it, and no other thread.
LEMMA BaseApp ==
  ASSUME Base, NEW t \in Apps, MinorStep, NEW v \in AppStates \ {"store"},
         pc' = [pc EXCEPT ![t] = v],
         UNCHANGED <<global_ctx, tr, open, clashed>>,
         cur' \in [Threads -> Seq(Blocks)], held' \in [Apps -> SUBSET Sds],
         k' \in [Threads -> Nat], \A u \in Threads : u # t => k'[u] = k[u]
  PROVE  Base'
<1>1. "pass" \notin AppStates
  BY DEF AppStates, CloseStates
<1>2. /\ pc' \in [Threads -> RecvStates \cup AppStates]
      /\ \A a \in Apps : pc'[a] \in AppStates
      /\ \A c \in Blocks : pc'[c] \in RecvStates
      /\ pc'[t] = v /\ \A u \in Threads : u # t => pc'[u] = pc[u]
  BY Moves, ThreadFacts DEF Base
<1>3. \A u \in Threads : pc'[u] \in {"store", "pass"} => k'[u] \in Sds
  BY <1>1, <1>2 DEF Base, TypeOK
<1>4. TypeOK'
  BY <1>2, <1>3 DEF Base, TypeOK, MinorStep
<1>5. Receiving'
  <2>1. ASSUME NEW c \in Blocks, ctx'[c] # NULL
        PROVE  /\ pc'[c] \notin {"none", "done"} => ctx'[c].recv_thread_started
               /\ pc'[c] \in {"read", "scan", "store", "pass"} =>
                    ctx'[c].listening /\ ctx'[c].new_socket # -1
    <3>1. pc'[c] = pc[c]
      BY <1>2, ThreadFacts
    <3>2. /\ ctx[c] # NULL /\ ctx'[c].recv_thread_started = ctx[c].recv_thread_started
          /\ ctx'[c].listening = ctx[c].listening /\ ctx'[c].new_socket = ctx[c].new_socket
      BY <2>1 DEF MinorStep
    <3> QED  BY <3>1, <3>2 DEF Base, Receiving
  <2> QED  BY <2>1 DEF Receiving
<1> QED  BY <1>4, <1>5, MinorSockets DEF Base

LEMMA BaseTransport ==
  ASSUME Base, NEW c \in Blocks, Established(c) \/ TransportExits(c)
  PROVE  Base'
<1> USE DEF Base
<1>1. CASE Established(c)
  <2>1. ctx[c] # NULL /\ Outcome(c) /\ UNCHANGED <<global_ctx, open, threadVars, clashed>>
    BY <1>1 DEF Established
  <2>2. PICK r \in Contexts :
           /\ Becomes(c, r)
           /\ r.socket = ctx[c].socket /\ r.new_socket = ctx[c].new_socket
           /\ r.listening = ctx[c].listening
           /\ r.recv_thread_started = ctx[c].recv_thread_started
           /\ tr' = [tr EXCEPT ![c] = IF r.stcp_errno = 0 THEN "run" ELSE "exited"]
    BY <2>1, OutcomeEffect
  <2>3. SocketsOwned'
    BY <2>1, <2>2, SocketsFrame DEF SocketsSame, Becomes
  <2>4. TypeOK'
    BY <2>1, <2>2 DEF TypeOK, Becomes, threadVars
  <2>5. Receiving'
    BY <2>1, <2>2 DEF Receiving, Becomes, threadVars
  <2> QED  BY <2>3, <2>4, <2>5
<1>2. CASE TransportExits(c)
  <2>1. /\ UNCHANGED <<global_ctx, ctx, open, threadVars, clashed>>
        /\ tr' = [tr EXCEPT ![c] = "exited"]
    BY <1>2 DEF TransportExits
  <2>2. MinorStep /\ open' = open
    BY <2>1, UnchangedMinor
  <2>3. TypeOK'
    BY <2>1 DEF TypeOK, threadVars
  <2>4. Receiving'
    BY <2>1 DEF Receiving, threadVars
  <2> QED  BY <2>2, <2>3, <2>4, MinorSockets
<1> QED  BY <1>1, <1>2

LEMMA BasePoll ==
  ASSUME Base, NEW c \in Blocks, Poll(c)
  PROVE  Base'
<1> USE DEF Base
<1>1. pc[c] = "poll" /\ ctx[c] # NULL /\ UNCHANGED <<cur, k, held, clashed>>
  BY DEF Poll
<1>2. CASE Go(c, "poll", "done") /\ UNCHANGED tableVars
  <2>1. "done" \in RecvStates
    BY DEF RecvStates
  <2>2. /\ pc' \in [Threads -> RecvStates \cup AppStates]
        /\ \A a \in Apps : pc'[a] \in AppStates
        /\ \A d \in Blocks : pc'[d] \in RecvStates
        /\ pc'[c] = "done" /\ \A u \in Threads : u # c => pc'[u] = pc[u]
    BY <1>2, <2>1, Moves, ThreadFacts DEF Go
  <2>3. MinorStep /\ open' = open
    BY <1>2, UnchangedMinor DEF tableVars
  <2>4. TypeOK'
    BY <1>1, <1>2, <2>2 DEF TypeOK, tableVars
  <2>5. Receiving'
    BY <1>2, <2>2, ThreadFacts DEF Receiving, tableVars
  <2> QED  BY <2>3, <2>4, <2>5, MinorSockets
<1>3. CASE /\ ctx[c].listening /\ ctx[c].new_socket = -1
           /\ ctx' = [ctx EXCEPT ![c].new_socket = LowestFd]
           /\ open' = open \cup {LowestFd}
           /\ Go(c, "poll", "read") /\ UNCHANGED <<global_ctx, tr>>
  <2>1. PICK r \in Contexts :
           /\ Becomes(c, r)
           /\ r.socket = ctx[c].socket /\ r.new_socket = LowestFd /\ r.new_socket \in Nat
           /\ r.listening = ctx[c].listening
           /\ r.recv_thread_started = ctx[c].recv_thread_started
    BY <1>1, <1>3, AcceptEffect
  <2>2. SocketsOwned' /\ open' \in SUBSET Nat /\ IsFiniteSet(open')
    BY <1>1, <1>3, <2>1, SocketGained
  <2>3. "read" \in RecvStates
    BY DEF RecvStates
  <2>4. /\ pc' \in [Threads -> RecvStates \cup AppStates]
        /\ \A a \in Apps : pc'[a] \in AppStates
        /\ \A d \in Blocks : pc'[d] \in RecvStates
        /\ pc'[c] = "read" /\ \A u \in Threads : u # c => pc'[u] = pc[u]
    BY <1>3, <2>3, Moves, ThreadFacts DEF Go
  <2>5. TypeOK'
    BY <1>1, <1>3, <2>1, <2>2, <2>4 DEF TypeOK, Becomes
  <2>6. Receiving'
    <3>1. ASSUME NEW d \in Blocks, ctx'[d] # NULL
          PROVE  /\ pc'[d] \notin {"none", "done"} => ctx'[d].recv_thread_started
                 /\ pc'[d] \in {"read", "scan", "store", "pass"} =>
                      ctx'[d].listening /\ ctx'[d].new_socket # -1
      <4>1. CASE d = c
        BY <1>1, <1>3, <2>1, <4>1 DEF Receiving, Becomes
      <4>2. CASE d # c
        BY <2>1, <2>4, <3>1, <4>2, ThreadFacts DEF Receiving, Becomes
      <4> QED  BY <4>1, <4>2
    <3> QED  BY <3>1 DEF Receiving
  <2> QED  BY <2>2, <2>5, <2>6
<1> QED  BY <1>2, <1>3 DEF Poll

LEMMA BasePacket ==
  ASSUME Base, NEW c \in Blocks, Packet(c)
  PROVE  Base'
<1> USE DEF Base
<1>1. pc[c] = "read" /\ ctx[c] # NULL /\ UNCHANGED <<held, clashed>>
  BY DEF Packet
<1>2. ASSUME NEW v \in {"done", "poll"}, Go(c, "read", v), UNCHANGED <<tableVars, cur, k>>
      PROVE  Base'
  <2>1. v \in RecvStates
    BY DEF RecvStates
  <2>2. /\ pc' \in [Threads -> RecvStates \cup AppStates]
        /\ \A a \in Apps : pc'[a] \in AppStates
        /\ \A d \in Blocks : pc'[d] \in RecvStates
        /\ pc'[c] = v /\ \A u \in Threads : u # c => pc'[u] = pc[u]
    BY <1>2, <2>1, Moves, ThreadFacts DEF Go
  <2>3. MinorStep /\ open' = open
    BY <1>2, UnchangedMinor DEF tableVars
  <2>4. TypeOK'
    BY <1>1, <1>2, <2>2 DEF TypeOK, tableVars
  <2>5. Receiving'
    BY <1>1, <1>2, <2>2, ThreadFacts DEF Receiving, tableVars
  <2> QED  BY <2>3, <2>4, <2>5, MinorSockets
<1>3. CASE Go(c, "read", "scan") /\ Allocate(c)
  BY <1>1, <1>3, BaseAllocate, ThreadFacts DEF Go
<1> QED  BY <1>2, <1>3 DEF Packet

LEMMA BasePass ==
  ASSUME Base, NEW c \in Blocks, Pass(c)
  PROVE  Base'
<1> USE DEF Base
<1> DEFINE n == Context(k[c])
<1>1. /\ pc[c] = "pass" /\ ctx[c] # NULL /\ Passable(k[c])
      /\ ctx' = PassSocket(n, c) /\ open' = open \ {ctx[n].socket}
      /\ tr' = [tr EXCEPT ![n] = "handshake"]
      /\ pc' = [pc EXCEPT ![c] = "poll", ![n] = "poll"]
      /\ cur' = [cur EXCEPT ![c] = <<>>] /\ k' = [k EXCEPT ![c] = 0]
      /\ UNCHANGED <<global_ctx, held, clashed>>
  BY DEF Pass
<1>2. n \in Blocks /\ ctx[n] # NULL /\ ~ctx[n].listening
  BY <1>1, ContextFacts DEF Passable, Valid
<1>3. ctx[c].listening /\ ctx[c].new_socket # -1 /\ c # n
  BY <1>1, <1>2 DEF Receiving
<1> HIDE DEF n
<1>4. /\ SocketsOwned' /\ open' \in SUBSET Nat /\ IsFiniteSet(open')
      /\ ctx' \in [Blocks -> Contexts \cup {NULL}]
      /\ ctx'[c] = [ctx[c] EXCEPT !.new_socket = -1]
      /\ ctx'[n] = [ctx[n] EXCEPT !.socket = ctx[c].new_socket,
                                  !.listen_sd = ctx[c].my_sd, !.recv_thread_started = TRUE]
      /\ \A d \in Blocks : d # c /\ d # n => ctx'[d] = ctx[d]
  BY <1>1, <1>2, <1>3, SocketPassed
<1>5. /\ ctx'[c].recv_thread_started = ctx[c].recv_thread_started
      /\ ctx'[n].recv_thread_started
  BY <1>1, <1>2, <1>4, LiveFacts DEF Contexts
<1>6. /\ pc' \in [Threads -> RecvStates \cup AppStates]
      /\ \A a \in Apps : pc'[a] \in AppStates
      /\ \A d \in Blocks : pc'[d] \in RecvStates
      /\ pc'[c] = "poll" /\ pc'[n] = "poll"
      /\ \A u \in Threads : u # c /\ u # n => pc'[u] = pc[u]
  BY <1>1, <1>2, ThreadFacts DEF TypeOK, RecvStates
<1>7. TypeOK'
  <2>1. /\ cur' \in [Threads -> Seq(Blocks)] /\ k' \in [Threads -> Nat]
        /\ \A u \in Threads : u # c => k'[u] = k[u]
    BY <1>1, Stacks, ThreadFacts
  <2>2. tr' \in [Blocks -> {"none", "handshake", "run", "exited"}]
    BY <1>1 DEF TypeOK
  <2>3. \A u \in Threads : pc'[u] \in {"store", "pass"} => k'[u] \in Sds
    BY <1>6, <2>1 DEF TypeOK
  <2> QED  BY <1>1, <1>4, <1>6, <2>1, <2>2, <2>3 DEF TypeOK
<1>8. Receiving'
  <2>1. ctx[c].recv_thread_started
    BY <1>1 DEF Receiving
  <2>2. ASSUME NEW d \in Blocks, ctx'[d] # NULL
        PROVE  /\ pc'[d] \notin {"none", "done"} => ctx'[d].recv_thread_started
               /\ pc'[d] \in {"read", "scan", "store", "pass"} =>
                    ctx'[d].listening /\ ctx'[d].new_socket # -1
    <3>1. CASE d = c \/ d = n
      BY <1>5, <1>6, <2>1, <3>1
    <3>2. CASE d # c /\ d # n
      BY <1>4, <1>6, <2>2, <3>2, ThreadFacts DEF Receiving
    <3> QED  BY <3>1, <3>2
  <2> QED  BY <2>2 DEF Receiving
<1> QED  BY <1>4, <1>7, <1>8

LEMMA BaseListen ==
  ASSUME Base, NEW t \in Apps, NEW sd \in Sds, NEW backlog, Mylisten(t, sd, backlog)
  PROVE  Base'
<1> USE DEF Base
<1> DEFINE c == Context(sd)
<1>1. /\ c \in Blocks /\ ctx[c] # NULL
      /\ \E r \in Contexts :
           /\ Becomes(c, r)
           /\ r.socket = ctx[c].socket /\ r.new_socket = ctx[c].new_socket /\ r.listening
           /\ \/ pc' = pc /\ r.recv_thread_started = ctx[c].recv_thread_started
              \/ pc' = [pc EXCEPT ![c] = "poll"] /\ r.recv_thread_started
  BY ListenEffect
<1>2. PICK r \in Contexts :
           /\ Becomes(c, r)
           /\ r.socket = ctx[c].socket /\ r.new_socket = ctx[c].new_socket /\ r.listening
           /\ \/ pc' = pc /\ r.recv_thread_started = ctx[c].recv_thread_started
              \/ pc' = [pc EXCEPT ![c] = "poll"] /\ r.recv_thread_started
  BY <1>1
<1>3. UNCHANGED <<global_ctx, tr, open, cur, k, held, clashed>>
  BY DEF Mylisten
<1> HIDE DEF c
<1>4. SocketsOwned'
  BY <1>1, <1>2, <1>3, SocketsFrame DEF SocketsSame, Becomes
<1>5. /\ pc' \in [Threads -> RecvStates \cup AppStates]
      /\ \A a \in Apps : pc'[a] \in AppStates
      /\ \A d \in Blocks : pc'[d] \in RecvStates
      /\ \A u \in Threads : pc'[u] = pc[u] \/ pc'[u] = "poll"
      /\ \A u \in Threads : u # c => pc'[u] = pc[u]
  <2>1. "poll" \in RecvStates
    BY DEF RecvStates
  <2>2. CASE pc' = pc
    BY <2>2 DEF TypeOK
  <2>3. CASE pc' = [pc EXCEPT ![c] = "poll"]
    BY <1>1, <2>1, <2>3, Moves, ThreadFacts
  <2> QED  BY <1>2, <2>2, <2>3
<1>6. TypeOK'
  BY <1>2, <1>3, <1>5 DEF TypeOK, Becomes
<1>7. Receiving'
  <2>1. ASSUME NEW d \in Blocks, ctx'[d] # NULL
        PROVE  /\ pc'[d] \notin {"none", "done"} => ctx'[d].recv_thread_started
               /\ pc'[d] \in {"read", "scan", "store", "pass"} =>
                    ctx'[d].listening /\ ctx'[d].new_socket # -1
    <3>1. CASE d = c
      <4>1. pc'[c] = pc[c] \/ (pc'[c] = "poll" /\ r.recv_thread_started)
        BY <1>1, <1>2, <1>5, ThreadFacts DEF TypeOK
      <4>2. pc[c] \notin {"none", "done"} => r.recv_thread_started
        BY <1>1, <1>2 DEF Receiving
      <4> QED  BY <1>1, <1>2, <3>1, <4>1, <4>2 DEF Receiving, Becomes
    <3>2. CASE d # c
      BY <1>2, <1>5, <2>1, <3>2, ThreadFacts DEF Receiving, Becomes
    <3> QED  BY <3>1, <3>2
  <2> QED  BY <2>1 DEF Receiving
<1> QED  BY <1>4, <1>6, <1>7

LEMMA BaseConnect ==
  ASSUME Base, NEW t \in Apps, NEW sd \in Sds, Myconnect(t, sd)
  PROVE  Base'
<1> USE DEF Base
<1> DEFINE c == Context(sd)
<1>1. c \in Blocks /\ ctx[c] # NULL
  BY ConnectEffect
<1>2. PICK r \in Contexts :
           /\ Becomes(c, r)
           /\ r.socket = ctx[c].socket /\ r.new_socket = ctx[c].new_socket
           /\ r.recv_thread_started
  BY ConnectEffect
<1>3. /\ tr' = [tr EXCEPT ![c] = "handshake"] /\ UNCHANGED <<global_ctx, open, k, held, clashed>>
      /\ pc' = [pc EXCEPT ![t] = "connect", ![c] = "poll"]
      /\ cur' = [cur EXCEPT ![t] = <<c>>]
  BY DEF Myconnect
<1> HIDE DEF c
<1>4. SocketsOwned'
  BY <1>1, <1>2, <1>3, SocketsFrame DEF SocketsSame, Becomes
<1>5. /\ pc' \in [Threads -> RecvStates \cup AppStates]
      /\ \A a \in Apps : pc'[a] \in AppStates
      /\ \A d \in Blocks : pc'[d] \in RecvStates
      /\ pc'[t] = "connect" /\ pc'[c] = "poll"
      /\ \A u \in Threads : u # t /\ u # c => pc'[u] = pc[u]
  BY <1>1, <1>3, ThreadFacts DEF TypeOK, RecvStates, AppStates
<1>6. TypeOK'
  <2>1. cur' \in [Threads -> Seq(Blocks)]
    BY <1>1, <1>3, Stacks, ThreadFacts
  <2>2. tr' \in [Blocks -> {"none", "handshake", "run", "exited"}]
    BY <1>3 DEF TypeOK
  <2>3. \A u \in Threads : pc'[u] \in {"store", "pass"} => k'[u] \in Sds
    BY <1>3, <1>5 DEF TypeOK
  <2> QED  BY <1>2, <1>3, <1>5, <2>1, <2>2, <2>3 DEF TypeOK, Becomes
<1>7. Receiving'
  <2>1. ASSUME NEW d \in Blocks, ctx'[d] # NULL
        PROVE  /\ pc'[d] \notin {"none", "done"} => ctx'[d].recv_thread_started
               /\ pc'[d] \in {"read", "scan", "store", "pass"} =>
                    ctx'[d].listening /\ ctx'[d].new_socket # -1
    <3>1. CASE d = c
      BY <1>2, <1>5, <3>1 DEF Becomes
    <3>2. CASE d # c
      BY <1>2, <1>5, <2>1, <3>2, ThreadFacts DEF Receiving, Becomes
    <3> QED  BY <3>1, <3>2
  <2> QED  BY <2>1 DEF Receiving
<1> QED  BY <1>4, <1>6, <1>7

\* The descriptor CloseRequest is given is valid, and the context gets the request.
LEMMA RequestEffect ==
  ASSUME TypeOK, NEW t \in Apps, NEW sd, CloseRequest(t, sd)
  PROVE  /\ sd \in Sds /\ Context(sd) \in Blocks /\ Context(sd) = global_ctx[sd]
         /\ ctx[Context(sd)] # NULL /\ ctx[Context(sd)].my_sd = sd
         /\ MinorStep
         /\ cur' = [cur EXCEPT ![t] = <<Context(sd)>> \o @]
         /\ cur' \in [Threads -> Seq(Blocks)]
         /\ cur'[t] = <<Context(sd)>> \o cur[t]
         /\ \A u \in Threads : u # t => cur'[u] = cur[u]
         /\ pc' = [pc EXCEPT ![t] = "join"]
<1>1. /\ sd \in Sds /\ Context(sd) \in Blocks /\ Context(sd) = global_ctx[sd]
      /\ ctx[Context(sd)] # NULL /\ ctx[Context(sd)].my_sd = sd
  BY ContextFacts DEF CloseRequest, Valid
<1> DEFINE c == Context(sd)
<1>2. /\ ctx' = [ctx EXCEPT ![c].close_requested = TRUE]
      /\ cur' = [cur EXCEPT ![t] = <<c>> \o @] /\ pc' = [pc EXCEPT ![t] = "join"]
  BY DEF CloseRequest
<1> HIDE DEF c
<1>3. MinorStep
  BY <1>1, <1>2, MinorUpdate DEF c
<1>4. cur[t] \in Seq(Blocks)
  BY ThreadFacts DEF TypeOK
<1>5. <<c>> \o cur[t] \in Seq(Blocks)
  BY <1>1, <1>4, PrependFacts DEF c
<1> DEFINE s == <<c>> \o cur[t]
<1> HIDE DEF s
<1>6. cur' = [cur EXCEPT ![t] = s]
  BY <1>2 DEF s
<1>7. /\ cur' \in [Threads -> Seq(Blocks)]
      /\ cur'[t] = s /\ \A u \in Threads : u # t => cur'[u] = cur[u]
  BY <1>5, <1>6, Stacks, ThreadFacts DEF s
<1> QED  BY <1>1, <1>2, <1>3, <1>7 DEF c, s

LEMMA BaseJoinRecv ==
  ASSUME Base, NEW t \in Apps, CloseJoinRecv(t)
  PROVE  Base'
<1> USE DEF Base
<1> DEFINE c == Top(t)
<1>1. c \in Blocks /\ ctx[c] # NULL
  BY TopFacts, ThreadFacts DEF CloseJoinRecv
<1>2. /\ ctx' = [ctx EXCEPT ![c].recv_thread_started = FALSE]
      /\ pc' = [pc EXCEPT ![t] = IF ctx[c].listening THEN "wrlock" ELSE "free"]
      /\ RecvJoined(c) /\ UNCHANGED <<global_ctx, tr, open, cur, k, held, clashed>>
  BY DEF CloseJoinRecv
<1> HIDE DEF c
<1>3. PICK r \in Contexts :
           /\ Becomes(c, r)
           /\ r.socket = ctx[c].socket /\ r.new_socket = ctx[c].new_socket
           /\ r.listening = ctx[c].listening
  BY <1>1, <1>2, JoinEffect
<1>4. SocketsOwned'
  BY <1>1, <1>2, <1>3, SocketsFrame DEF SocketsSame, Becomes
<1>5. /\ pc' \in [Threads -> RecvStates \cup AppStates]
      /\ \A a \in Apps : pc'[a] \in AppStates
      /\ \A d \in Blocks : pc'[d] \in RecvStates
      /\ pc'[t] \in {"wrlock", "free"} /\ \A u \in Threads : u # t => pc'[u] = pc[u]
  <2>1. "wrlock" \in AppStates /\ "free" \in AppStates
    BY DEF AppStates, CloseStates
  <2> QED  BY <1>2, <2>1, Moves, ThreadFacts
<1>6. TypeOK'
  BY <1>2, <1>3, <1>5 DEF TypeOK, Becomes
<1>7. Receiving'
  <2>1. pc[c] \in {"none", "done"}
    BY <1>1, <1>2 DEF RecvJoined, Receiving
  <2>2. ASSUME NEW d \in Blocks, ctx'[d] # NULL
        PROVE  /\ pc'[d] \notin {"none", "done"} => ctx'[d].recv_thread_started
               /\ pc'[d] \in {"read", "scan", "store", "pass"} =>
                    ctx'[d].listening /\ ctx'[d].new_socket # -1
    <3>1. CASE d = c
      BY <1>1, <1>5, <2>1, <3>1, ThreadFacts
    <3>2. CASE d # c
      BY <1>3, <1>5, <2>2, <3>2, ThreadFacts DEF Receiving, Becomes
    <3> QED  BY <3>1, <3>2
  <2> QED  BY <2>2 DEF Receiving
<1> QED  BY <1>4, <1>6, <1>7

LEMMA BaseFree ==
  ASSUME Base, NEW t \in Apps, CloseFree(t)
  PROVE  Base'
<1> USE DEF Base
<1> DEFINE c == Top(t)
<1>1. c \in Blocks /\ ctx[c] # NULL /\ cur[t] # <<>>
  BY TopFacts, ThreadFacts DEF CloseFree, Works
<1>2. /\ FreeContext(c) /\ global_ctx' = ClearEntry(c)
      /\ cur' = [cur EXCEPT ![t] = Tail(@)]
      /\ pc' = [pc EXCEPT ![t] = IF Len(cur[t]) = 1 THEN "idle" ELSE "passive"]
      /\ UNCHANGED <<k, held, clashed>>
  BY DEF CloseFree
<1> HIDE DEF c
<1>3. /\ SocketsOwned' /\ open' \in SUBSET Nat /\ IsFiniteSet(open')
      /\ ctx' \in [Blocks -> Contexts \cup {NULL}]
      /\ ctx'[c] = NULL /\ \A d \in Blocks : d # c => ctx'[d] = ctx[d]
  BY <1>1, <1>2, SocketsClosed
<1>4. /\ pc' \in [Threads -> RecvStates \cup AppStates]
      /\ \A a \in Apps : pc'[a] \in AppStates
      /\ \A d \in Blocks : pc'[d] \in RecvStates
      /\ pc'[t] \in {"idle", "passive"} /\ \A u \in Threads : u # t => pc'[u] = pc[u]
  <2>1. "idle" \in AppStates /\ "passive" \in AppStates
    BY DEF AppStates, CloseStates
  <2> QED  BY <1>2, <2>1, Moves, ThreadFacts
<1>5. TypeOK'
  <2>1. global_ctx' \in [Sds -> Blocks \cup {NULL}]
    BY <1>2 DEF ClearEntry, TypeOK
  <2>2. tr' \in [Blocks -> {"none", "handshake", "run", "exited"}]
    BY <1>2 DEF FreeContext, TypeOK
  <2>3. cur' \in [Threads -> Seq(Blocks)]
    <3>1. cur[t] \in Seq(Blocks)
      BY ThreadFacts DEF TypeOK
    <3>2. Tail(cur[t]) \in Seq(Blocks)
      BY <1>1, <3>1, HeadFacts
    <3> QED  BY <1>2, <3>2, Stacks, ThreadFacts
  <2> QED  BY <1>2, <1>3, <1>4, <2>1, <2>2, <2>3 DEF TypeOK
<1>6. Receiving'
  BY <1>3, <1>4, ThreadFacts DEF Receiving
<1> QED  BY <1>3, <1>5, <1>6

\* The application thread stays or moves on, and no context changes.
LEMMA BaseQuiet ==
  ASSUME Base, NEW t \in Apps, NEW v \in AppStates \ {"store"},
         pc' = [pc EXCEPT ![t] = v], UNCHANGED <<tableVars, clashed>>,
         cur' \in [Threads -> Seq(Blocks)], held' \in [Apps -> SUBSET Sds],
         k' \in [Threads -> Nat], \A u \in Threads : u # t => k'[u] = k[u]
  PROVE  Base'
<1>1. MinorStep
  BY UnchangedMinor DEF tableVars, Base
<1> QED  BY <1>1, BaseApp DEF tableVars

LEMMA BaseCalls ==
  ASSUME Base, NEW t \in Apps, NEW sd \in Sds,
         Mybind(t, sd) \/ Myaccept(t, sd) \/ Myclose(t, sd)
  PROVE  Base'
<1>1. /\ cur \in [Threads -> Seq(Blocks)] /\ held \in [Apps -> SUBSET Sds]
      /\ k \in [Threads -> Nat] /\ pc \in [Threads -> RecvStates \cup AppStates] /\ t \in Threads
  BY ThreadFacts DEF Base, TypeOK
<1>2. {"idle", "accept", "join"} \subseteq AppStates \ {"store"}
  BY DEF AppStates, CloseStates
<1> DEFINE c == Context(sd)
<1>3. CASE Mybind(t, sd)
  <2>1. c \in Blocks /\ ctx[c] # NULL
    BY <1>3, ContextFacts DEF Mybind, Valid, Base
  <2>2. \/ ctx' = [ctx EXCEPT ![c].bound = TRUE, ![c].port = TRUE]
        \/ ctx' = [ctx EXCEPT ![c].bound = TRUE]
    BY <1>3 DEF Mybind
  <2>3. pc[t] = "idle" /\ UNCHANGED <<global_ctx, tr, open, pc, cur, k, held, clashed>>
    BY <1>3 DEF Mybind, threadVars
  <2> HIDE DEF c
  <2>4. MinorStep
    BY <2>1, <2>2, MinorUpdate DEF Base
  <2>5. pc' = [pc EXCEPT ![t] = "idle"]
    BY <1>1, <2>3
  <2> QED  BY <1>1, <1>2, <2>3, <2>4, <2>5, BaseApp
<1>4. CASE Myaccept(t, sd)
  <2>1. c \in Blocks
    BY <1>4, ContextFacts DEF Myaccept, Valid, Base
  <2>2. /\ pc' = [pc EXCEPT ![t] = "accept"] /\ cur' = [cur EXCEPT ![t] = <<c>>]
        /\ UNCHANGED <<tableVars, k, held, clashed>>
    BY <1>4 DEF Myaccept
  <2>3. cur' \in [Threads -> Seq(Blocks)]
    BY <1>1, <2>1, <2>2, Stacks DEF Base
  <2> QED  BY <1>1, <1>2, <2>2, <2>3, BaseQuiet
<1>5. CASE Myclose(t, sd)
  <2>1. /\ CloseRequest(t, sd) /\ held' = [held EXCEPT ![t] = @ \ {sd}]
        /\ UNCHANGED <<global_ctx, tr, open, k, clashed>>
    BY <1>5 DEF Myclose
  <2>2. MinorStep /\ cur' \in [Threads -> Seq(Blocks)] /\ pc' = [pc EXCEPT ![t] = "join"]
    BY <2>1, RequestEffect DEF Base
  <2>3. held' \in [Apps -> SUBSET Sds]
    BY <1>1, <2>1
  <2> QED  BY <1>1, <1>2, <2>1, <2>2, <2>3, BaseApp
<1> QED  BY <1>3, <1>4, <1>5

LEMMA BaseReturns ==
  ASSUME Base, NEW t \in Apps, ConnectReturns(t) \/ AcceptReturns(t)
  PROVE  Base'
<1>1. /\ cur \in [Threads -> Seq(Blocks)] /\ held \in [Apps -> SUBSET Sds]
      /\ k \in [Threads -> Nat] /\ t \in Threads
  BY ThreadFacts DEF Base, TypeOK
<1>2. "idle" \in AppStates \ {"store"}
  BY DEF AppStates
<1>3. /\ pc' = [pc EXCEPT ![t] = "idle"] /\ cur' = [cur EXCEPT ![t] = <<>>]
      /\ UNCHANGED <<tableVars, k, clashed>>
  BY DEF ConnectReturns, AcceptReturns, Go
<1>4. held' \in [Apps -> SUBSET Sds]
  <2>1. CASE ConnectReturns(t)
    BY <1>1, <2>1 DEF ConnectReturns
  <2>2. CASE AcceptReturns(t)
    <3> DEFINE sd == Head(queue[QueueOf(Top(t))].completed)
    <3>1. /\ Acceptable(Top(t), sd)
          /\ held' = [held EXCEPT ![t] = IF ctx[Context(sd)].stcp_errno = 0
                                         THEN @ \cup {sd} ELSE @]
      BY <2>2 DEF AcceptReturns
    <3> HIDE DEF sd
    <3>2. sd \in Sds
      BY <3>1, ContextFacts DEF Acceptable, Valid, Base
    <3> QED  BY <1>1, <3>1, <3>2
  <2> QED  BY <2>1, <2>2
<1>5. cur' \in [Threads -> Seq(Blocks)]
  BY <1>1, <1>3, Stacks DEF Base
<1> QED  BY <1>1, <1>2, <1>3, <1>4, <1>5, BaseQuiet

LEMMA BaseClosing ==
  ASSUME Base, NEW t \in Apps,
         CloseJoin(t) \/ CloseStop(t) \/ CloseWrLock(t) \/ ClosePassive(t)
  PROVE  Base'
<1>1. /\ cur \in [Threads -> Seq(Blocks)] /\ held \in [Apps -> SUBSET Sds]
      /\ k \in [Threads -> Nat] /\ pc \in [Threads -> RecvStates \cup AppStates] /\ t \in Threads
  BY ThreadFacts DEF Base, TypeOK
<1>2. {"join", "stop", "joinrx", "passive", "free"} \subseteq AppStates \ {"store"}
  BY DEF AppStates, CloseStates
<1>3. CASE CloseJoin(t)
  <2>1. pc' = [pc EXCEPT ![t] = "stop"] /\ UNCHANGED <<tableVars, cur, k, held, clashed>>
    BY <1>3 DEF CloseJoin, Go
  <2> QED  BY <1>1, <1>2, <2>1, BaseQuiet
<1>4. CASE CloseStop(t)
  <2> DEFINE c == Top(t)
             b == ctx[c].recv_thread_started
  <2>1. c \in Blocks /\ ctx[c] # NULL
    BY <1>1, <1>4, TopFacts DEF CloseStop, Base
  <2>2. /\ pc' = [pc EXCEPT ![t] = "joinrx"] /\ ctx' = [ctx EXCEPT ![c].exit_pipe = b]
        /\ UNCHANGED <<global_ctx, tr, open, cur, k, held, clashed>>
    BY <1>4 DEF CloseStop, Go
  <2>3. b \in BOOLEAN
    BY <2>1, LiveFacts DEF Base
  <2> HIDE DEF b, c
  <2>4. MinorStep
    BY <2>1, <2>2, <2>3, MinorUpdate DEF Base
  <2> QED  BY <1>1, <1>2, <2>2, <2>4, BaseApp
<1>5. CASE CloseWrLock(t)
  <2>1. /\ pc' = [pc EXCEPT ![t] = "passive"] /\ k' = [k EXCEPT ![t] = 1]
        /\ UNCHANGED <<tableVars, cur, held, clashed>>
    BY <1>5 DEF CloseWrLock, Go
  <2>2. k' \in [Threads -> Nat] /\ \A u \in Threads : u # t => k'[u] = k[u]
    BY <1>1, <2>1, Stacks DEF Base
  <2> QED  BY <1>1, <1>2, <2>1, <2>2, BaseQuiet
<1>6. CASE ClosePassive(t)
  <2>1. k[t] \in Nat /\ k[t] + 1 \in Nat
    BY <1>1
  <2>2. pc[t] = "passive" /\ UNCHANGED <<held, clashed>>
    BY <1>6 DEF ClosePassive
  <2>3. ASSUME NEW sd, CloseRequest(t, sd), k' = [k EXCEPT ![t] = @ + 1],
               UNCHANGED <<global_ctx, tr, open>>
        PROVE  Base'
    <3>1. k' \in [Threads -> Nat] /\ \A u \in Threads : u # t => k'[u] = k[u]
      BY <1>1, <2>3
    <3>2. MinorStep /\ cur' \in [Threads -> Seq(Blocks)] /\ pc' = [pc EXCEPT ![t] = "join"]
      BY <2>3, RequestEffect DEF Base
    <3> QED  BY <1>1, <1>2, <2>2, <2>3, <3>1, <3>2, BaseApp
  <2>4. CASE k' = [k EXCEPT ![t] = @ + 1] /\ UNCHANGED <<tableVars, pc, cur>>
    <3>1. k' \in [Threads -> Nat] /\ \A u \in Threads : u # t => k'[u] = k[u]
      BY <1>1, <2>4
    <3>2. pc' = [pc EXCEPT ![t] = "passive"]
      BY <1>1, <2>2, <2>4
    <3> QED  BY <1>1, <1>2, <2>2, <2>4, <3>1, <3>2, BaseQuiet
  <2>5. CASE /\ pc' = [pc EXCEPT ![t] = "free"] /\ k' = [k EXCEPT ![t] = 0]
             /\ UNCHANGED <<tableVars, cur>>
    <3>1. k' \in [Threads -> Nat] /\ \A u \in Threads : u # t => k'[u] = k[u]
      BY <1>1, <2>5, Stacks DEF Base
    <3> QED  BY <1>1, <1>2, <2>2, <2>5, <3>1, BaseQuiet
  <2>6. \/ \E sd : CloseRequest(t, sd) /\ k' = [k EXCEPT ![t] = @ + 1] /\ UNCHANGED <<global_ctx, tr, open>>
        \/ k' = [k EXCEPT ![t] = @ + 1] /\ UNCHANGED <<tableVars, pc, cur>>
        \/ /\ pc' = [pc EXCEPT ![t] = "free"] /\ k' = [k EXCEPT ![t] = 0]
           /\ UNCHANGED <<tableVars, cur>>
    BY <1>6, Zenon DEF ClosePassive
  <2> QED  BY <2>3, <2>4, <2>5, <2>6
<1> QED  BY <1>3, <1>4, <1>5, <1>6

LEMMA BaseInit ==
  ASSUME Init
  PROVE  Base
<1>1. TypeOK
  <2>1. IsFiniteSet({})
    BY FS_EmptySet
  <2>2. <<>> \in Seq(Blocks)
    OBVIOUS
  <2>3. "idle" \in AppStates /\ "none" \in RecvStates
    BY DEF AppStates, RecvStates
  <2>4. cur \in [Threads -> Seq(Blocks)] /\ k \in [Threads -> Nat]
    BY <2>2 DEF Init
  <2>5. /\ pc \in [Threads -> RecvStates \cup AppStates]
        /\ \A a \in Apps : pc[a] \in AppStates
        /\ \A c \in Blocks : pc[c] \in RecvStates
        /\ \A t \in Threads : pc[t] \notin {"store", "pass"}
    BY <2>3, ThreadFacts DEF Init, Threads
  <2> QED  BY <2>1, <2>4, <2>5 DEF Init, TypeOK
<1>2. \A c \in Blocks : ctx[c] = NULL
  BY DEF Init
<1>3. Receiving
  BY <1>2 DEF Receiving
<1>4. SocketsOwned
  BY <1>2, SocketsView DEF Init
<1> QED  BY <1>1, <1>3, <1>4 DEF Base

LEMMA BaseNext ==
  ASSUME Base, [Next]_vars
  PROVE  Base'
<1> DEFINE Calls(t, sd) == \/ Mybind(t, sd) \/ Myconnect(t, sd) \/ Myaccept(t, sd)
                           \/ Myclose(t, sd) \/ \E b \in Backlogs : Mylisten(t, sd, b)
<1>1. ASSUME NEW t \in Threads, Scan(t) \/ Store(t) PROVE Base'
  BY <1>1, BaseScan, BaseStore
<1>2. ASSUME NEW c \in Blocks, Poll(c) \/ Packet(c) \/ Pass(c) PROVE Base'
  BY <1>2, BasePoll, BasePacket, BasePass
<1>3. ASSUME NEW c \in Blocks, Established(c) \/ TransportExits(c) PROVE Base'
  BY <1>3, BaseTransport
<1>4. ASSUME NEW t \in Apps, Mysocket(t) PROVE Base'
  <2>1. /\ Allocate(t) /\ pc' = [pc EXCEPT ![t] = "scan"] /\ UNCHANGED <<held, clashed>>
    BY <1>4 DEF Mysocket, Go
  <2> QED  BY <2>1, BaseAllocate, ThreadFacts
<1>5. ASSUME NEW t \in Apps, NEW sd \in held[t], Calls(t, sd) PROVE Base'
  <2>1. sd \in Sds
    BY DEF Base, TypeOK
  <2> QED  BY <1>5, <2>1, BaseCalls, BaseConnect, BaseListen
<1>6. ASSUME NEW t \in Apps, ConnectReturns(t) \/ AcceptReturns(t) PROVE Base'
  BY <1>6, BaseReturns
<1>7. ASSUME NEW t \in Apps, CloseJoin(t) \/ CloseStop(t) \/ CloseWrLock(t) \/ ClosePassive(t)
      PROVE  Base'
  BY <1>7, BaseClosing
<1>8. ASSUME NEW t \in Apps, CloseJoinRecv(t) \/ CloseFree(t) PROVE Base'
  BY <1>8, BaseJoinRecv, BaseFree
<1>9. CASE UNCHANGED vars
  <2>1. MinorStep /\ open' = open
    BY <1>9, UnchangedMinor DEF vars, tableVars, Base
  <2>2. TypeOK' /\ Receiving'
    BY <1>9 DEF Base, TypeOK, Receiving, vars, tableVars, threadVars
  <2> QED  BY <2>1, <2>2, MinorSockets DEF Base
<1>10. CASE Next
  <2>1. ASSUME NEW t \in Apps, AppStep(t) PROVE Base'
    BY <2>1, <1>4, <1>5, <1>6, <1>7, <1>8 DEF AppStep
  <2> QED  BY <1>10, <2>1, <1>1, <1>2, <1>3 DEF Next
<1> QED  BY <1>9, <1>10

\* Each open socket of the process belongs to one context, which closes it:
\* whatever the threads do to the table, even when two of them take one entry,
\* no socket leaks and none is closed twice.
THEOREM SocketsHaveOwners == Spec => []SocketsOwned
<1>1. Init => Base
  BY BaseInit
<1>2. Base /\ [Next]_vars => Base'
  BY BaseNext
<1>3. Base => SocketsOwned
  BY DEF Base
<1> QED  BY <1>1, <1>2, <1>3, PTL DEF Spec
-----------------------------------------------------------------------------
(* Consequences of the invariant *)

LEMMA OwnershipParts ==
  ASSUME Ownership
  PROVE  /\ Table /\ Exclusive /\ Locked /\ Hashed /\ Owned /\ Slots /\ Completions /\ Transports
         /\ \A a \in Apps : Calling(a) /\ Stack(a)
         /\ \A c \in Blocks : Listener(c)
         /\ \A c \in Blocks : ctx[c] # NULL => Closable(c)
BY DEF Ownership

\* The members of stacks of one and of two calls.
LEMMA StackMembers ==
  ASSUME NEW t, NEW c
  PROVE  /\ cur[t] = <<>> => ~On(t, c)
         /\ \A d : cur[t] = <<d>> => (On(t, c) <=> c = d)
         /\ \A d, l : cur[t] = <<d, l>> => (On(t, c) <=> c = d \/ c = l)
BY DEF On, Range

\* The same of the next state.
LEMMA StackMembersNext ==
  ASSUME NEW t, NEW c
  PROVE  /\ cur'[t] = <<>> => ~On(t, c)'
         /\ \A d : cur'[t] = <<d>> => (On(t, c)' <=> c = d)
         /\ \A d, l : cur'[t] = <<d, l>> => (On(t, c)' <=> c = d \/ c = l)
BY DEF On, Range

\* Where a thread is tells what is on its stack.
LEMMA OnFacts ==
  ASSUME TypeOK, Ownership, NEW t \in Threads, NEW c \in Blocks, On(t, c)
  PROVE  /\ ctx[c] # NULL
         /\ pc[t] \notin {"idle", "none", "poll", "read", "done"}
         /\ Creating(t) => cur[t] = <<c>> /\ Blank(c) /\ ~Entered(c)
         /\ ~Creating(t) => Entered(c)
         /\ pc[t] \in {"connect", "accept", "pass"} => cur[t] = <<c>>
<1>1. CASE Creating(t)
  <2>1. PICK d \in Blocks : cur[t] = <<d>> /\ Blank(d) /\ ~Entered(d)
    BY <1>1 DEF Ownership, Table
  <2>2. c = d
    BY <2>1, StackMembers
  <2> QED  BY <1>1, <2>1, <2>2 DEF Blank, Creating
<1>2. CASE ~Creating(t) /\ t \in Blocks
  <2>1. Listener(t) /\ pc[t] \in RecvStates
    BY <1>2 DEF Ownership, TypeOK
  <2>2. cur[t] # <<>>
    BY StackMembers
  <2>3. pc[t] = "pass"
    BY <1>2, <2>1, <2>2 DEF Listener, RecvStates, Creating
  <2>4. PICK n \in Blocks : cur[t] = <<n>> /\ Blank(n) /\ Entered(n)
    BY <2>1, <2>3 DEF Listener
  <2>5. c = n
    BY <2>4, StackMembers
  <2> QED  BY <1>2, <2>3, <2>4, <2>5 DEF Blank
<1>3. CASE ~Creating(t) /\ t \in Apps
  <2>1. Calling(t) /\ Stack(t) /\ pc[t] \in AppStates
    BY <1>3 DEF Ownership, TypeOK
  <2>2. cur[t] # <<>>
    BY StackMembers
  <2>3. pc[t] \in {"connect", "accept"} \cup CloseStates
    BY <1>3, <2>1, <2>2 DEF Calling, AppStates, Creating
  <2>4. CASE pc[t] = "connect"
    <3>1. PICK d \in Blocks : cur[t] = <<d>> /\ Entered(d)
      BY <2>1, <2>4 DEF Calling
    <3>2. c = d
      BY <3>1, StackMembers
    <3> QED  BY <1>3, <2>4, <3>1, <3>2 DEF Entered
  <2>5. CASE pc[t] = "accept"
    <3>1. PICK d \in Blocks : cur[t] = <<d>> /\ queue[d] # NULL
      BY <2>1, <2>5 DEF Calling
    <3>2. c = d /\ Entered(d)
      BY <3>1, StackMembers DEF Ownership, Owned
    <3> QED  BY <1>3, <2>5, <3>1, <3>2 DEF Entered
  <2>6. CASE pc[t] \in CloseStates
    <3>1. Closing(t)
      BY <2>6 DEF Closing
    <3>2. Entered(c)
      BY <2>1, <3>1, StackMembers DEF Stack, Reached
    <3> QED  BY <1>3, <2>6, <3>2 DEF Entered, CloseStates
  <2> QED  BY <2>3, <2>4, <2>5, <2>6
<1> QED  BY <1>1, <1>2, <1>3 DEF Threads

\* What a descriptor of the table leads to is alive and entered, and two
\* contexts in the table have different descriptors.
LEMMA TableFacts ==
  ASSUME TypeOK, Table
  PROVE  /\ \A sd \in Sds : global_ctx[sd] # NULL =>
              /\ global_ctx[sd] \in Blocks /\ ctx[global_ctx[sd]] # NULL
              /\ ctx[global_ctx[sd]].my_sd = sd /\ Entered(global_ctx[sd])
         /\ \A c \in Blocks : Entered(c) =>
              /\ ctx[c] # NULL /\ ctx[c].my_sd \in Sds /\ global_ctx[ctx[c].my_sd] = c
         /\ \A c, d \in Blocks : Entered(c) /\ Entered(d) /\ ctx[c].my_sd = ctx[d].my_sd => c = d
<1>1. \A sd \in Sds : global_ctx[sd] # NULL =>
        /\ global_ctx[sd] \in Blocks /\ ctx[global_ctx[sd]] # NULL
        /\ ctx[global_ctx[sd]].my_sd = sd /\ Entered(global_ctx[sd])
  BY DEF TypeOK, Table, Entered
<1>2. \A c \in Blocks : Entered(c) =>
        /\ ctx[c] # NULL /\ ctx[c].my_sd \in Sds /\ global_ctx[ctx[c].my_sd] = c
  BY LiveFacts DEF Entered
<1> QED  BY <1>1, <1>2

\* What _get_connection_queue finds for a context in the table.
LEMMA QueueFacts ==
  ASSUME TypeOK, Hashed, NEW c \in Blocks, Entered(c)
  PROVE  QueueOf(c) = IF queue[c] # NULL THEN c ELSE NULL
<1> DEFINE sd == ctx[c].my_sd
<1>1. sd \in Sds /\ global_ctx[sd] = c /\ c # NULL /\ Bucket(sd) = sd
  BY LiveFacts, SdsFacts DEF Entered
<1>2. CASE queue[c] # NULL
  <2>1. listen_table[sd] = <<[key |-> sd, data |-> c]>>
    BY <1>1, <1>2 DEF Hashed
  <2>2. HashGet(listen_table, sd) = 1
    <3> DEFINE chain == listen_table[sd]
               hits == {i \in DOMAIN chain : chain[i].key = sd}
    <3>1. DOMAIN chain = {1} /\ chain[1].key = sd
      BY <2>1
    <3>2. hits = {1}
      BY <3>1
    <3> HIDE DEF chain
    <3>3. (CHOOSE i \in hits : \A j \in hits : i <= j) = 1
      BY <3>2
    <3> QED  BY <1>1, <3>2, <3>3 DEF HashGet, chain
  <2> QED  BY <1>1, <1>2, <2>1, <2>2 DEF QueueOf, HashLookup
<1>3. CASE queue[c] = NULL
  <2>1. listen_table[sd] = <<>>
    BY <1>1, <1>3 DEF Hashed
  <2>2. HashGet(listen_table, sd) = 0
    BY <1>1, <2>1 DEF HashGet
  <2> QED  BY <1>3, <2>2 DEF QueueOf, HashLookup
<1> QED  BY <1>2, <1>3

-----------------------------------------------------------------------------
(* Steps that leave tables, queues and stacks alone *)

\* As far as the ownership of contexts is concerned, context c does not change.
Kept(c) ==
  /\ (ctx'[c] = NULL) = (ctx[c] = NULL)
  /\ ctx[c] # NULL =>
       /\ ctx'[c].my_sd = ctx[c].my_sd /\ ctx'[c].listen_sd = ctx[c].listen_sd
       /\ ctx'[c].listening = ctx[c].listening /\ ctx'[c].is_active = ctx[c].is_active
       /\ ctx'[c].stcp_errno = ctx[c].stcp_errno
KeptStarted(c) ==
  ctx[c] # NULL => ctx'[c].recv_thread_started = ctx[c].recv_thread_started

LEMMA MinorKept ==
  ASSUME MinorStep
  PROVE  \A c \in Blocks : Kept(c) /\ KeptStarted(c)
BY DEF MinorStep, Kept, KeptStarted

\* The parts of the invariant that do not depend on where threads are.
LEMMA StaticFrame ==
  ASSUME TypeOK, Ownership, \A c \in Blocks : Kept(c),
         UNCHANGED <<global_ctx, tr, listen_table, queue, cur, held, writer>>,
         writer # NULL => k'[writer] = k[writer]
  PROVE  /\ Hashed' /\ Slots' /\ Completions'
         /\ \A c \in Blocks : ctx'[c] # NULL => Closable(c)'
         /\ \A c \in Blocks : tr'[c] # "none" => Entered(c)'
         /\ \A c \in Blocks : Entered(c)' = Entered(c)
         /\ \A t, c : On(t, c)' = On(t, c)
<1> USE OwnershipParts
<1>1. \A t, c : On(t, c)' = On(t, c)
  BY DEF On
<1>2. \A c \in Blocks : Entered(c)' = Entered(c)
  BY DEF Entered, Kept
<1>3. \A c, j : Scanned(c, j)' = Scanned(c, j)
  BY <1>1 DEF Scanned
<1>4. \A c, j, sd : Holds(c, j, sd)' = Holds(c, j, sd)
  BY DEF Holds
<1>5. \A c, j, sd : Waiting(c, j, sd)' = Waiting(c, j, sd)
  BY <1>3, <1>4 DEF Waiting
<1>6. Hashed'
  BY DEF Hashed
<1>7. Slots'
  <2>1. ASSUME NEW c \in Blocks, NEW j \in Nat, NEW sd \in Sds, Waiting(c, j, sd)
        PROVE  Pending(c, sd)'
    <3>1. Pending(c, sd) /\ ctx[c] # NULL
      BY <2>1 DEF Slots, Waiting, Holds, Owned, Entered
    <3>2. global_ctx[sd] \in Blocks /\ ctx[global_ctx[sd]] # NULL
      BY <3>1, TableFacts DEF Pending
    <3>3. Kept(c) /\ Kept(global_ctx[sd])
      BY <3>2
    <3> QED  BY <1>1, <3>1, <3>2, <3>3 DEF Kept, Pending
  <2>2. ASSUME NEW c \in Blocks, NEW d \in Blocks, NEW i \in Nat, NEW j \in Nat, NEW sd \in Sds,
               Waiting(c, i, sd), Waiting(d, j, sd)
        PROVE  c = d /\ i = j
    BY <2>2 DEF Slots
  <2> QED  BY <1>5, <2>1, <2>2 DEF Slots
<1>8. Completions'
  BY <1>1, <1>4 DEF Completions
<1>9. ASSUME NEW c \in Blocks, ctx'[c] # NULL PROVE Closable(c)'
  <2>1. ctx[c] # NULL /\ Closable(c) /\ Kept(c)
    BY <1>9 DEF Kept
  <2> QED  BY <1>1, <1>5, <2>1 DEF Closable, Unaccepted, Kept
<1>10. \A c \in Blocks : tr'[c] # "none" => Entered(c)'
  BY <1>2 DEF Transports
<1> QED  BY <1>1, <1>2, <1>6, <1>7, <1>8, <1>9, <1>10

\* A thread moves on inside a call, or a receive thread inside its loop.
Walks(t) ==
  \/ pc[t] = "scan" /\ pc'[t] \in {"scan", "store"}
  \/ t \in Blocks /\ pc[t] = "poll" /\ pc'[t] \in {"read", "done"}
  \/ t \in Blocks /\ pc[t] = "read" /\ pc'[t] \in {"poll", "done"}
  \/ t \in Apps /\ pc[t] = "idle" /\ pc'[t] = "idle"
  \/ t \in Apps /\ pc[t] = "join" /\ pc'[t] = "stop" /\ tr[Top(t)] \in {"none", "exited"}
  \/ t \in Apps /\ pc[t] = "stop" /\ pc'[t] = "joinrx"

LEMMA WalkStep ==
  ASSUME TypeOK, TypeOK', Ownership, NEW t \in Threads, Walks(t),
         \A c \in Blocks : Kept(c) /\ KeptStarted(c),
         \A u \in Threads : u # t => pc'[u] = pc[u] /\ k'[u] = k[u],
         k'[t] = k[t] \/ pc[t] = "scan",
         UNCHANGED <<global_ctx, tr, listen_table, queue, cur, held, writer, slot>>
  PROVE  Ownership'
<1> USE OwnershipParts
<1>1. writer # NULL => k'[writer] = k[writer]
  <2>1. writer # NULL => writer \in Threads /\ Closing(writer)
    BY ThreadFacts DEF Locked
  <2> QED  BY <2>1 DEF Closing, CloseStates
<1>2. /\ Hashed' /\ Slots' /\ Completions'
      /\ \A c \in Blocks : ctx'[c] # NULL => Closable(c)'
      /\ \A c \in Blocks : tr'[c] # "none" => Entered(c)'
      /\ \A c \in Blocks : Entered(c)' = Entered(c)
      /\ \A u, c : On(u, c)' = On(u, c)
  BY <1>1, StaticFrame
<1>3. /\ \A c \in Blocks : pc[c] \in {"none", "done"} => pc'[c] \in {"none", "done"}
      /\ \A u \in Threads : Creating(u)' = Creating(u)
      /\ \A u \in Threads : Closing(u)' = Closing(u)
      /\ \A u \in Threads, s \in {"connect", "accept", "free", "wrlock", "passive", "pass"} :
           (pc'[u] = s) = (pc[u] = s)
  BY ThreadFacts DEF Walks, Creating, Closing, CloseStates
<1>4. \A c \in Blocks : Blank(c) => Blank(c)'
  BY <1>3 DEF Blank, Kept, KeptStarted
<1>5. Table'
  <2>1. \A sd \in Sds : global_ctx'[sd] # NULL =>
          ctx'[global_ctx'[sd]] # NULL /\ ctx'[global_ctx'[sd]].my_sd = sd
    BY TableFacts DEF Kept
  <2>2. ASSUME NEW c \in Blocks, ctx'[c] # NULL
        PROVE  Entered(c)' \/ \E u \in Threads : Creating(u)' /\ On(u, c)'
    BY <1>2, <1>3, <2>2 DEF Table, Kept
  <2>3. ASSUME NEW u \in Threads, Creating(u)'
        PROVE  \E c \in Blocks : cur'[u] = <<c>> /\ Blank(c)' /\ ~Entered(c)'
    BY <1>2, <1>3, <1>4, <2>3 DEF Table
  <2> QED  BY <2>1, <2>2, <2>3 DEF Table
<1>6. Exclusive'
  BY <1>2, <1>3, ThreadFacts DEF Exclusive
<1>7. ASSUME NEW a \in Apps PROVE Calling(a)'
  <2>1. Calling(a) /\ a \in Threads
    BY ThreadFacts
  <2>2. pc'[a] = "idle" => pc[a] = "idle"
    BY <2>1, ThreadFacts DEF Walks
  <2>3. \A c \in Blocks : Entered(c) => ctx'[c].my_sd = ctx[c].my_sd
    BY DEF Kept, Entered
  <2>4. \A c \in Blocks : queue[c] # NULL => ctx'[c].my_sd = ctx[c].my_sd
    BY DEF Kept, Owned, Entered
  <2> QED  BY <1>2, <1>3, <2>1, <2>2, <2>3, <2>4 DEF Calling
<1>8. ASSUME NEW a \in Apps PROVE Stack(a)'
  <2>1. SUFFICES ASSUME Closing(a)' PROVE Stack(a)'
    BY DEF Stack
  <2>2. a \in Threads /\ Closing(a) /\ Stack(a)
    BY <1>3, <2>1, ThreadFacts
  <2>3. \A c \in Blocks : Quiet(c) /\ Entered(c) => Quiet(c)'
    BY DEF Quiet, Entered, KeptStarted
  <2>4. ASSUME NEW c \in Blocks, Reached(a, c), c = Top(a) PROVE Reached(a, c)'
    <3>1. Kept(c) /\ KeptStarted(c) /\ Entered(c) /\ Entered(c)'
      BY <1>2, <2>4 DEF Reached
    <3>2. pc'[a] # "join" => tr'[c] \in {"none", "exited"}
      <4>1. CASE a = t
        BY <2>4, <4>1, ThreadFacts DEF Walks, Reached
      <4>2. CASE a # t
        BY <2>2, <2>4, <4>2 DEF Reached
      <4> QED  BY <4>1, <4>2
    <3> QED  BY <1>3, <2>2, <2>4, <3>1, <3>2 DEF Reached, Kept, KeptStarted, Entered
  <2>5. CASE \E c \in Blocks : /\ cur[a] = <<c>> /\ Reached(a, c)
                               /\ (writer = a) = (pc[a] = "passive")
    <3>1. PICK c \in Blocks : /\ cur[a] = <<c>> /\ Reached(a, c)
                              /\ (writer = a) = (pc[a] = "passive")
      BY <2>5
    <3>2. Reached(a, c)'
      BY <3>1, <2>4 DEF Top
    <3> QED  BY <1>3, <2>2, <3>1, <3>2 DEF Stack
  <2>6. CASE \E c, l \in Blocks :
               /\ cur[a] = <<c, l>> /\ c # l /\ Reached(a, c)
               /\ pc[a] \notin {"wrlock", "passive"} /\ ~ctx[c].listening
               /\ writer = a
               /\ Entered(l) /\ queue[l] # NULL /\ Quiet(l)
    <3>1. PICK c, l \in Blocks :
               /\ cur[a] = <<c, l>> /\ c # l /\ Reached(a, c)
               /\ pc[a] \notin {"wrlock", "passive"} /\ ~ctx[c].listening
               /\ writer = a
               /\ Entered(l) /\ queue[l] # NULL /\ Quiet(l)
      BY <2>6
    <3>2. Reached(a, c)' /\ Quiet(l)' /\ Entered(l)'
      BY <1>2, <2>3, <2>4, <3>1 DEF Top
    <3>3. ~ctx'[c].listening
      BY <3>1 DEF Kept, Reached, Entered
    <3>4. pc'[a] \notin {"wrlock", "passive"}
      BY <1>3, <2>2, <3>1
    <3> QED  BY <3>1, <3>2, <3>3, <3>4 DEF Stack
  <2> QED  BY <2>2, <2>5, <2>6 DEF Stack
<1>9. ASSUME NEW c \in Blocks PROVE Listener(c)'
  <2>1. Listener(c) /\ c \in Threads
    BY ThreadFacts
  <2>2. /\ pc'[c] \in {"none", "poll", "read", "done"} => pc[c] \in {"none", "poll", "read", "done"}
        /\ pc'[c] \notin {"none", "done"} => pc[c] \notin {"none", "done"}
        /\ pc'[c] \in {"scan", "store", "pass"} => pc[c] \in {"scan", "store", "pass"}
        /\ pc'[c] = "pass" => pc[c] = "pass" /\ k'[c] = k[c]
    BY <1>3, <2>1, ThreadFacts DEF Walks
  <2>3. \A n \in Blocks : Entered(n) => ctx'[n].my_sd = ctx[n].my_sd
    BY DEF Kept, Entered
  <2> QED  BY <1>2, <1>4, <2>1, <2>2, <2>3 DEF Listener
<1>10. Locked'
  <2>1. Readers' \subseteq Readers
    BY <1>3, ThreadFacts DEF Readers, Creating
  <2> QED  BY <1>1, <1>3, <2>1, ThreadFacts DEF Locked
<1>11. Owned'
  <2>1. \A c \in Blocks : queue'[c] # NULL => Entered(c)' /\ ctx'[c].listening
    BY <1>2 DEF Owned, Kept, Entered
  <2>2. ASSUME NEW c \in Blocks, ctx'[c] # NULL, ctx'[c].listening, queue'[c] = NULL
        PROVE  \E a \in Apps : pc'[a] = "free" /\ On(a, c)'
    BY <1>2, <1>3, <2>2, ThreadFacts DEF Owned, Kept
  <2>3. ASSUME NEW c \in Blocks, queue'[c] # NULL
        PROVE  \/ ctx'[c].recv_thread_started
               \/ \E a \in Apps : Closing(a)' /\ On(a, c)'
               \/ /\ queue'[c].completed = <<>>
                  /\ \A j \in DOMAIN queue'[c].slots : queue'[c].slots[j] = -1
    <3>1. ctx[c] # NULL
      BY <2>3 DEF Owned, Entered
    <3> QED  BY <1>2, <1>3, <2>3, <3>1, ThreadFacts DEF Owned, KeptStarted
  <2> QED  BY <2>1, <2>2, <2>3 DEF Owned
<1>12. Transports'
  <2>1. \A c, j, sd : Holds(c, j, sd)' = Holds(c, j, sd) /\ Scanned(c, j)' = Scanned(c, j)
    BY <1>1, <1>2 DEF Holds, Scanned
  <2>2. ASSUME NEW c \in Blocks, tr'[c] = "handshake", ~ctx'[c].is_active
        PROVE  Reports(c)'
    <3>1. ctx[c] # NULL /\ Kept(c)
      BY <2>2 DEF Transports, Entered
    <3>2. PICK l \in Blocks, j \in Nat :
                 /\ Holds(l, j, ctx[c].my_sd) /\ ctx[c].listen_sd = ctx[l].my_sd
                 /\ Scanned(l, j) => cur[writer] = <<c, l>>
      BY <2>2, <3>1 DEF Transports, Kept, Reports
    <3>3. ctx[l] # NULL /\ Kept(l)
      BY <3>2 DEF Holds, Owned, Entered
    <3>4. Holds(l, j, ctx[c].my_sd)'
      BY <2>1, <3>1, <3>2 DEF Holds, Kept
    <3> QED  BY <2>1, <3>1, <3>2, <3>3, <3>4 DEF Kept, Reports
  <2>3. ASSUME NEW c \in Blocks, tr'[c] = "handshake", ctx'[c].is_active
        PROVE  \E a \in Apps : pc'[a] = "connect" /\ On(a, c)'
    <3>1. ctx[c] # NULL /\ Kept(c)
      BY <2>3 DEF Transports, Entered
    <3> QED  BY <1>2, <1>3, <2>3, <3>1, ThreadFacts DEF Transports, Kept
  <2> QED  BY <1>2, <2>2, <2>3 DEF Transports
<1> QED  BY <1>2, <1>5, <1>6, <1>7, <1>8, <1>9, <1>10, <1>11, <1>12 DEF Ownership
-----------------------------------------------------------------------------
(* Frames: what a step leaves alone *)

\* What the threads that work on context d see of it does not change.
Still(d) ==
  /\ ctx[d] # NULL =>
       /\ ctx'[d] # NULL /\ ctx'[d].my_sd = ctx[d].my_sd
       /\ ctx'[d].listening = ctx[d].listening /\ ctx'[d].is_active = ctx[d].is_active
       /\ ctx'[d].recv_thread_started = ctx[d].recv_thread_started
  /\ Entered(d) => Entered(d)'
  /\ \A s \in {"none", "exited"} : tr[d] = s => tr'[d] = s
  /\ (queue'[d] = NULL) = (queue[d] = NULL)
  /\ pc[d] \in {"none", "done"} => pc'[d] \in {"none", "done"}

LEMMA StillBlank ==
  ASSUME NEW d, Still(d), Blank(d)
  PROVE  Blank(d)'
BY DEF Still, Blank

\* An application thread that does not move and whose contexts are left alone.
LEMMA AppFrame ==
  ASSUME TypeOK, Ownership, NEW a \in Apps,
         pc'[a] = pc[a], cur'[a] = cur[a], held[a] \subseteq held'[a],
         (writer' = a) = (writer = a), \A d \in Blocks : On(a, d) => Still(d)
  PROVE  Calling(a)' /\ Stack(a)'
<1> USE OwnershipParts
<1>1. Calling(a) /\ Stack(a)
  OBVIOUS
<1>2. Calling(a)'
  <2>1. pc[a] = "connect" =>
          \E c \in Blocks : cur[a] = <<c>> /\ Entered(c)' /\ ctx'[c].my_sd \in held'[a]
    <3>1. SUFFICES ASSUME pc[a] = "connect"
                   PROVE \E c \in Blocks : cur[a] = <<c>> /\ Entered(c)' /\ ctx'[c].my_sd \in held'[a]
      OBVIOUS
    <3>2. PICK c \in Blocks : cur[a] = <<c>> /\ Entered(c) /\ ctx[c].my_sd \in held[a]
      BY <1>1, <3>1 DEF Calling
    <3>3. Still(c)
      BY <3>2, StackMembers
    <3> QED  BY <3>2, <3>3 DEF Still, Entered
  <2>2. pc[a] = "accept" =>
          \E c \in Blocks : cur[a] = <<c>> /\ queue'[c] # NULL /\ ctx'[c].my_sd \in held'[a]
    <3>1. SUFFICES ASSUME pc[a] = "accept"
                   PROVE \E c \in Blocks : cur[a] = <<c>> /\ queue'[c] # NULL /\ ctx'[c].my_sd \in held'[a]
      OBVIOUS
    <3>2. PICK c \in Blocks : cur[a] = <<c>> /\ queue[c] # NULL /\ ctx[c].my_sd \in held[a]
      BY <1>1, <3>1 DEF Calling
    <3>3. Still(c) /\ ctx[c] # NULL
      BY <3>2, StackMembers DEF Owned, Entered
    <3> QED  BY <3>2, <3>3 DEF Still
  <2> QED  BY <1>1, <2>1, <2>2 DEF Calling
<1>3. Stack(a)'
  <2>1. SUFFICES ASSUME Closing(a) PROVE Stack(a)'
    BY DEF Stack, Closing
  <2>2. ASSUME NEW c \in Blocks, On(a, c), Reached(a, c) PROVE Reached(a, c)' /\ ctx[c] # NULL
    BY <2>2 DEF Reached, Still, Entered
  <2>3. CASE \E c \in Blocks : /\ cur[a] = <<c>> /\ Reached(a, c)
                               /\ (writer = a) = (pc[a] = "passive")
    <3>1. PICK c \in Blocks : /\ cur[a] = <<c>> /\ Reached(a, c)
                              /\ (writer = a) = (pc[a] = "passive")
      BY <2>3
    <3>2. Reached(a, c)'
      BY <2>2, <3>1, StackMembers
    <3> QED  BY <3>1, <3>2 DEF Stack
  <2>4. CASE \E c, l \in Blocks :
               /\ cur[a] = <<c, l>> /\ c # l /\ Reached(a, c)
               /\ pc[a] \notin {"wrlock", "passive"} /\ ~ctx[c].listening
               /\ writer = a
               /\ Entered(l) /\ queue[l] # NULL /\ Quiet(l)
    <3>1. PICK c, l \in Blocks :
               /\ cur[a] = <<c, l>> /\ c # l /\ Reached(a, c)
               /\ pc[a] \notin {"wrlock", "passive"} /\ ~ctx[c].listening
               /\ writer = a
               /\ Entered(l) /\ queue[l] # NULL /\ Quiet(l)
      BY <2>4
    <3>2. On(a, c) /\ On(a, l)
      BY <3>1, StackMembers
    <3>3. Still(c) /\ Still(l)
      BY <3>2
    <3>4. Reached(a, c)' /\ ctx[c] # NULL
      BY <2>2, <3>1, <3>2
    <3>5. Entered(l)' /\ queue'[l] # NULL /\ Quiet(l)'
      BY <3>1, <3>3 DEF Still, Entered, Quiet
    <3>6. ~ctx'[c].listening
      BY <3>1, <3>3, <3>4 DEF Still
    <3> QED  BY <3>1, <3>4, <3>5, <3>6 DEF Stack
  <2> QED  BY <1>1, <2>1, <2>3, <2>4 DEF Stack
<1> QED  BY <1>2, <1>3

\* The same of a receive thread.
LEMMA ListenerFrame ==
  ASSUME TypeOK, Ownership, NEW c \in Blocks,
         pc'[c] = pc[c], cur'[c] = cur[c], k'[c] = k[c], slot'[c] = slot[c],
         Still(c), \A d \in Blocks : On(c, d) => Still(d),
         pc[c] \in {"scan", "store", "pass"} =>
           /\ slot[c] \in DOMAIN queue'[c].slots
           /\ queue'[c].slots[slot[c]] = -1
  PROVE  Listener(c)'
<1>1. Listener(c)
  BY OwnershipParts
<1>2. pc[c] \in {"scan", "store", "pass"} => queue'[c] # NULL
  BY <1>1 DEF Listener, Still
<1>3. pc[c] = "pass" =>
        \E n \in Blocks : /\ cur[c] = <<n>> /\ Blank(n)' /\ Entered(n)'
                          /\ ctx'[n].my_sd = k[c]
  <2>1. SUFFICES ASSUME pc[c] = "pass"
                 PROVE  \E n \in Blocks : /\ cur[c] = <<n>> /\ Blank(n)' /\ Entered(n)'
                                          /\ ctx'[n].my_sd = k[c]
    OBVIOUS
  <2>2. PICK n \in Blocks : cur[c] = <<n>> /\ Blank(n) /\ Entered(n) /\ ctx[n].my_sd = k[c]
    BY <1>1, <2>1 DEF Listener
  <2>3. Still(n)
    BY <2>2, StackMembers
  <2>4. Blank(n)'
    BY <2>2, <2>3, StillBlank
  <2> QED  BY <2>2, <2>3, <2>4 DEF Still, Entered
<1> QED  BY <1>1, <1>2, <1>3 DEF Listener, Still

\* Context d is in the table and only a queue, if anything, can get at it.
Loose(d) ==
  /\ Entered(d)
  /\ \A t \in Threads : ~On(t, d)
  /\ \A a \in Apps : ctx[d].my_sd \notin held[a]

LEMMA PendingLoose ==
  ASSUME TypeOK, Table, NEW c \in Blocks, NEW sd \in Sds, Pending(c, sd)
  PROVE  /\ global_ctx[sd] \in Blocks /\ Loose(global_ctx[sd])
         /\ ctx[global_ctx[sd]] # NULL /\ ctx[global_ctx[sd]].my_sd = sd
BY TableFacts DEF Pending, Loose

\* Queues stay as they are, and so does what only they can get at.
QueuesStill ==
  /\ queue' = queue
  /\ \A c \in Blocks : queue[c] # NULL =>
       /\ ctx'[c].my_sd = ctx[c].my_sd
       /\ \A j : Scanned(c, j)' = Scanned(c, j)
       /\ (writer' # NULL /\ On(writer, c)') = (writer # NULL /\ On(writer, c))
  /\ \A d \in Blocks : Loose(d) => Loose(d)' /\ Kept(d) /\ tr'[d] = tr[d]

LEMMA QueueFrame ==
  ASSUME TypeOK, Ownership, QueuesStill
  PROVE  /\ Slots' /\ Completions'
         /\ \A c \in Blocks : \A j, sd : Holds(c, j, sd)' = Holds(c, j, sd)
         /\ \A c \in Blocks : \A j, sd : Waiting(c, j, sd)' = Waiting(c, j, sd)
<1> USE OwnershipParts
<1>1. \A c \in Blocks : \A j, sd : Holds(c, j, sd)' = Holds(c, j, sd)
  BY DEF Holds, QueuesStill
<1>2. \A c \in Blocks : \A j, sd : Waiting(c, j, sd)' = Waiting(c, j, sd)
  BY <1>1 DEF Waiting, Holds, QueuesStill
<1>3. ASSUME NEW c \in Blocks, NEW sd \in Sds, queue[c] # NULL, Pending(c, sd)
      PROVE  Pending(c, sd)' /\ global_ctx'[sd] = global_ctx[sd] /\ tr'[global_ctx[sd]] = tr[global_ctx[sd]]
  <2>1. /\ global_ctx[sd] \in Blocks /\ Loose(global_ctx[sd])
        /\ ctx[global_ctx[sd]] # NULL /\ ctx[global_ctx[sd]].my_sd = sd
    BY <1>3, PendingLoose
  <2>2. PICK d \in Blocks : d = global_ctx[sd]
    BY <2>1
  <2>3. Loose(d)' /\ Kept(d) /\ tr'[d] = tr[d]
    BY <2>1, <2>2 DEF QueuesStill
  <2>4. ctx'[d].my_sd = sd /\ global_ctx'[sd] = d
    BY <2>1, <2>2, <2>3 DEF Loose, Kept, Entered
  <2>5. ctx'[c].my_sd = ctx[c].my_sd
    BY <1>3 DEF QueuesStill
  <2>6. /\ ctx[d].listen_sd = ctx[c].my_sd /\ ~ctx[d].listening /\ ~ctx[d].is_active
        /\ tr[d] # "none"
    BY <1>3, <2>2 DEF Pending
  <2>7. Pending(c, sd)'
    BY <2>1, <2>2, <2>3, <2>4, <2>5, <2>6, SdsFacts DEF Pending, Loose, Kept
  <2> QED  BY <2>2, <2>3, <2>4, <2>7
<1>4. \A c \in Blocks : \A j, sd : Waiting(c, j, sd) => queue[c] # NULL
  BY DEF Waiting, Holds
<1>5. Slots'
  BY <1>2, <1>3, <1>4 DEF Slots
<1>6. Completions'
  <2>1. SUFFICES ASSUME NEW c \in Blocks, queue'[c] # NULL, ~(writer' # NULL /\ On(writer, c)')
                 PROVE  /\ \A i \in DOMAIN queue'[c].completed :
                             /\ \E j \in Nat : Holds(c, j, queue[c].completed[i])'
                             /\ tr'[global_ctx'[queue'[c].completed[i]]] # "handshake"
                        /\ \A i, j \in DOMAIN queue'[c].completed :
                             queue'[c].completed[i] = queue'[c].completed[j] => i = j
    BY DEF Completions
  <2>2. queue' = queue /\ queue[c] # NULL /\ ~(writer # NULL /\ On(writer, c))
    BY <2>1 DEF QueuesStill
  <2>3. \A i, j \in DOMAIN queue[c].completed :
          queue[c].completed[i] = queue[c].completed[j] => i = j
    BY <2>2 DEF Completions
  <2>4. ASSUME NEW i \in DOMAIN queue[c].completed
        PROVE  /\ \E j \in Nat : Holds(c, j, queue[c].completed[i])'
               /\ tr'[global_ctx'[queue[c].completed[i]]] # "handshake"
    <3> DEFINE sd == queue[c].completed[i]
    <3>1. PICK j \in Nat : Holds(c, j, sd)
      BY <2>2 DEF Completions
    <3>2. tr[global_ctx[sd]] # "handshake"
      BY <2>2 DEF Completions
    <3>3. Waiting(c, j, sd) /\ sd \in Sds
      <4>1. queue[c] \in Queues
        BY <2>2 DEF Owned
      <4>2. ~Scanned(c, j)
        BY <2>2 DEF Scanned
      <4> QED  BY <3>1, <4>1, <4>2 DEF Waiting, Holds, Queues
    <3> HIDE DEF sd
    <3>4. Pending(c, sd)
      BY <3>3 DEF Slots
    <3>5. global_ctx'[sd] = global_ctx[sd] /\ tr'[global_ctx[sd]] = tr[global_ctx[sd]]
      BY <1>3, <2>2, <3>3, <3>4
    <3>6. Holds(c, j, sd)'
      BY <2>2, <3>1 DEF Holds, sd
    <3> QED  BY <2>2, <3>2, <3>5, <3>6 DEF sd
  <2> QED  BY <2>2, <2>3, <2>4
<1> QED  BY <1>1, <1>2, <1>5, <1>6

LEMMA TransportFrame ==
  ASSUME TypeOK, Ownership, queue' = queue,
         \A c \in Blocks : tr'[c] # "none" => Entered(c)',
         \A c \in Blocks : tr'[c] = "handshake" =>
           \/ tr[c] = "handshake" /\ Kept(c)
           \/ ctx'[c].is_active /\ \E a \in Apps : pc'[a] = "connect" /\ On(a, c)',
         \A l \in Blocks : queue[l] # NULL =>
           ctx'[l].my_sd = ctx[l].my_sd /\ \A j : Scanned(l, j)' = Scanned(l, j),
         \A c, l \in Blocks : writer # NULL /\ tr[c] = "handshake" /\ cur[writer] = <<c, l>> =>
           cur'[writer'] = <<c, l>>,
         \A a \in Apps, c \in Blocks : tr'[c] = "handshake" /\ pc[a] = "connect" /\ On(a, c) =>
           pc'[a] = "connect" /\ On(a, c)'
  PROVE  Transports'
<1> USE OwnershipParts
<1>1. ASSUME NEW c \in Blocks, tr'[c] = "handshake", ~ctx'[c].is_active
      PROVE  Reports(c)'
  <2>1. ctx[c] # NULL /\ tr[c] = "handshake" /\ Kept(c)
    BY <1>1 DEF Transports, Entered
  <2>2. PICK l \in Blocks, j \in Nat :
               /\ Holds(l, j, ctx[c].my_sd) /\ ctx[c].listen_sd = ctx[l].my_sd
               /\ Scanned(l, j) => cur[writer] = <<c, l>>
    BY <1>1, <2>1 DEF Transports, Kept, Reports
  <2>3. ctx'[l].my_sd = ctx[l].my_sd /\ Scanned(l, j)' = Scanned(l, j)
    BY <2>2 DEF Holds
  <2>4. Holds(l, j, ctx[c].my_sd)'
    BY <2>1, <2>2 DEF Holds, Kept
  <2>5. ctx'[c].listen_sd = ctx[c].listen_sd
    BY <2>1 DEF Kept
  <2>6. Scanned(l, j)' => cur'[writer'] = <<c, l>>
    BY <2>1, <2>2, <2>3 DEF Scanned
  <2> QED  BY <2>2, <2>3, <2>4, <2>5, <2>6 DEF Reports
<1>2. ASSUME NEW c \in Blocks, tr'[c] = "handshake", ctx'[c].is_active
      PROVE  \E a \in Apps : pc'[a] = "connect" /\ On(a, c)'
  <2>1. CASE tr[c] = "handshake" /\ Kept(c)
    <3>1. ctx[c] # NULL
      BY <2>1 DEF Transports, Entered
    <3>2. PICK a \in Apps : pc[a] = "connect" /\ On(a, c)
      BY <1>2, <2>1, <3>1 DEF Transports, Kept
    <3> QED  BY <1>2, <3>2
  <2> QED  BY <1>2, <2>1
<1> QED  BY <1>1, <1>2 DEF Transports

LEMMA OwnedFrame ==
  ASSUME TypeOK, Ownership, queue' = queue,
         \A c \in Blocks : queue[c] # NULL => Entered(c)' /\ ctx'[c].listening,
         \A c \in Blocks : ctx'[c] # NULL /\ ctx'[c].listening /\ queue[c] = NULL =>
           ctx[c] # NULL /\ ctx[c].listening,
         \A a \in Apps, c \in Blocks : pc[a] = "free" /\ On(a, c) /\ queue[c] = NULL /\ ctx'[c] # NULL =>
           pc'[a] = "free" /\ On(a, c)',
         \A a \in Apps, c \in Blocks : queue[c] # NULL /\ Closing(a) /\ On(a, c) =>
           Closing(a)' /\ On(a, c)',
         \A c \in Blocks : queue[c] # NULL /\ ctx[c].recv_thread_started =>
           ctx'[c].recv_thread_started \/ \E a \in Apps : Closing(a)' /\ On(a, c)'
  PROVE  Owned'
<1> USE OwnershipParts
<1>1. ASSUME NEW c \in Blocks, ctx'[c] # NULL, ctx'[c].listening, queue'[c] = NULL
      PROVE  \E a \in Apps : pc'[a] = "free" /\ On(a, c)'
  <2>1. PICK a \in Apps : pc[a] = "free" /\ On(a, c)
    BY <1>1 DEF Owned
  <2> QED  BY <1>1, <2>1
<1>2. ASSUME NEW c \in Blocks, queue'[c] # NULL
      PROVE  \/ ctx'[c].recv_thread_started
             \/ \E a \in Apps : Closing(a)' /\ On(a, c)'
             \/ /\ queue'[c].completed = <<>>
                /\ \A j \in DOMAIN queue'[c].slots : queue'[c].slots[j] = -1
  <2>1. \/ ctx[c].recv_thread_started
        \/ \E a \in Apps : Closing(a) /\ On(a, c)
        \/ /\ queue[c].completed = <<>>
           /\ \A j \in DOMAIN queue[c].slots : queue[c].slots[j] = -1
    BY <1>2 DEF Owned
  <2>2. CASE \E a \in Apps : Closing(a) /\ On(a, c)
    <3>1. PICK a \in Apps : Closing(a) /\ On(a, c)
      BY <2>2
    <3> QED  BY <1>2, <3>1
  <2> QED  BY <1>2, <2>1, <2>2
<1> QED  BY <1>1, <1>2 DEF Owned

LEMMA HashedFrame ==
  ASSUME TypeOK, Ownership, queue' = queue, listen_table' = listen_table,
         \A sd \in Sds : \/ global_ctx'[sd] = global_ctx[sd]
                         \/ /\ global_ctx[sd] # NULL => queue[global_ctx[sd]] = NULL
                            /\ global_ctx'[sd] # NULL => queue[global_ctx'[sd]] = NULL
  PROVE  Hashed'
<1>1. Hashed
  BY OwnershipParts
<1>2. ASSUME NEW sd \in Sds
      PROVE  IF global_ctx'[sd] # NULL /\ queue'[global_ctx'[sd]] # NULL
             THEN listen_table'[sd] = <<[key |-> sd, data |-> global_ctx'[sd]]>>
             ELSE listen_table'[sd] = <<>>
  <2>1. CASE global_ctx'[sd] = global_ctx[sd]
    BY <1>1, <2>1 DEF Hashed
  <2>2. CASE /\ global_ctx[sd] # NULL => queue[global_ctx[sd]] = NULL
             /\ global_ctx'[sd] # NULL => queue[global_ctx'[sd]] = NULL
    <3>1. listen_table[sd] = <<>>
      BY <1>1, <2>2 DEF Hashed
    <3> QED  BY <2>2, <3>1
  <2> QED  BY <2>1, <2>2
<1> QED  BY <1>1, <1>2 DEF Hashed

\* The thread that holds listen_lock is not t.
LEMMA NotWriter ==
  ASSUME Ownership, NEW t, ~Closing(t)
  PROVE  writer # t \/ writer = NULL
BY OwnershipParts DEF Locked

-----------------------------------------------------------------------------
(* Ownership, step by step *)

\* Thread t, which is not in myclose, puts c on its stack or takes it off, or
\* works on c; no other thread works on c, and other contexts stay as they are.
OneContext(t, c) ==
  /\ t # c /\ ~Closing(t) /\ pc[t] \notin {"none", "done"} /\ UNCHANGED queueVars
  /\ \A d \in Blocks : On(t, d) \/ On(t, d)' => d = c
  /\ \A u \in Threads : On(u, c) => u = t
  /\ \A u \in Threads : u # t =>
       /\ cur'[u] = cur[u] /\ k'[u] = k[u] /\ slot'[u] = slot[u]
       /\ u # c => pc'[u] = pc[u]
  /\ \A a \in Apps : a # t => held'[a] = held[a]
  /\ \A d \in Blocks : d # c =>
       /\ ctx'[d] = ctx[d] /\ tr'[d] = tr[d] /\ Entered(d)' = Entered(d)
       /\ t \in Apps /\ Entered(d) => (ctx[d].my_sd \in held'[t]) = (ctx[d].my_sd \in held[t])
  /\ queue[c] # NULL => Still(c)
  /\ \A sd \in Sds : \/ global_ctx'[sd] = global_ctx[sd]
                     \/ queue[c] = NULL /\ {global_ctx[sd], global_ctx'[sd]} \subseteq {c, NULL}
  /\ \A d \in Blocks : ctx'[d] # NULL /\ ctx'[d].listening => ctx[d] # NULL /\ ctx[d].listening
  /\ ~Loose(c)

LEMMA OneContextOthers ==
  ASSUME TypeOK, TypeOK', Ownership, NEW t \in Threads, NEW c \in Blocks, OneContext(t, c)
  PROVE  /\ \A a \in Apps : a # t => Calling(a)' /\ Stack(a)'
         /\ \A d \in Blocks : d # t /\ d # c => Listener(d)'
         /\ Slots' /\ Completions' /\ Hashed' /\ Owned'
         /\ \A d \in Blocks : d # c /\ ctx'[d] # NULL => Closable(d)'
         /\ \A u, w \in Threads : \A d \in Blocks : On(u, d)' /\ On(w, d)' => u = w
         /\ (writer # NULL => Closing(writer)' /\ k'[writer] # 0)
         /\ \A d \in Blocks : \A j, sd : Waiting(d, j, sd)' = Waiting(d, j, sd)
<1> USE OwnershipParts
<1>1. /\ listen_table' = listen_table /\ queue' = queue /\ writer' = writer
  BY DEF queueVars, OneContext
<1>2. \A u \in Threads, d \in Blocks : u # t => On(u, d)' = On(u, d)
  BY DEF OneContext, On
<1>3. \A d \in Blocks : d # c =>
        Kept(d) /\ KeptStarted(d) /\ Entered(d)' = Entered(d) /\ ctx'[d] = ctx[d] /\ tr'[d] = tr[d]
  BY DEF Kept, KeptStarted, OneContext
<1>4. \A d \in Blocks : d # c => Still(d)
  <2>1. \A d \in Blocks : d # c /\ pc[d] \in {"none", "done"} => pc'[d] \in {"none", "done"}
    BY ThreadFacts DEF OneContext
  <2> QED  BY <1>1, <1>3, <2>1 DEF Still
<1>5. \A u \in Threads, d \in Blocks : u # t /\ On(u, d) => Still(d)
  BY <1>4 DEF OneContext
<1>6. writer # NULL => /\ writer \in Threads /\ writer # t
                       /\ cur'[writer] = cur[writer] /\ k'[writer] = k[writer] /\ pc'[writer] = pc[writer]
  <2>1. writer # NULL => writer \in Apps /\ Closing(writer)
    BY DEF Locked
  <2> QED  BY <2>1, ThreadFacts DEF OneContext
<1>7. writer # NULL => Closing(writer)' /\ k'[writer] # 0
  BY <1>1, <1>6 DEF Locked, Closing
<1>8. \A u, w \in Threads : \A d \in Blocks : On(u, d)' /\ On(w, d)' => u = w
  <2>1. ASSUME NEW u \in Threads, NEW d \in Blocks, u # t, On(t, d)', On(u, d)' PROVE FALSE
    <3>1. d = c /\ On(u, d)
      BY <1>2, <2>1 DEF OneContext
    <3> QED  BY <2>1, <3>1 DEF OneContext
  <2> QED  BY <1>2, <2>1 DEF Exclusive
<1>9. ASSUME NEW a \in Apps, a # t PROVE Calling(a)' /\ Stack(a)'
  <2>1. /\ pc'[a] = pc[a] /\ cur'[a] = cur[a] /\ held[a] \subseteq held'[a]
    BY <1>9, ThreadFacts DEF OneContext
  <2> QED  BY <1>1, <1>5, <1>9, <2>1, AppFrame, ThreadFacts
<1>10. ASSUME NEW d \in Blocks, d # t, d # c PROVE Listener(d)'
  <2>1. pc'[d] = pc[d] /\ cur'[d] = cur[d] /\ k'[d] = k[d] /\ slot'[d] = slot[d]
    BY <1>10, ThreadFacts DEF OneContext
  <2>2. Listener(d)
    OBVIOUS
  <2>3. pc[d] \in {"scan", "store", "pass"} =>
          /\ slot[d] \in DOMAIN queue'[d].slots
          /\ queue'[d].slots[slot[d]] = -1
    BY <1>1, <2>2 DEF Listener
  <2> QED  BY <1>4, <1>5, <1>10, <2>1, <2>3, ListenerFrame, ThreadFacts
<1>11. \A d \in Blocks : queue[d] # NULL => Still(d) /\ Entered(d)
  BY <1>4 DEF Owned, OneContext
<1>12. \A d \in Blocks : queue[d] # NULL =>
         /\ ctx'[d].my_sd = ctx[d].my_sd /\ \A j : Scanned(d, j)' = Scanned(d, j)
         /\ (writer' # NULL /\ On(writer, d)') = (writer # NULL /\ On(writer, d))
  <2>1. ASSUME NEW d \in Blocks, queue[d] # NULL
        PROVE  /\ ctx'[d].my_sd = ctx[d].my_sd /\ \A j : Scanned(d, j)' = Scanned(d, j)
               /\ (writer' # NULL /\ On(writer, d)') = (writer # NULL /\ On(writer, d))
    <3>1. ctx'[d].my_sd = ctx[d].my_sd
      BY <1>11, <2>1 DEF Still, Entered
    <3> QED  BY <1>1, <1>6, <3>1 DEF Scanned, On
  <2> QED  BY <2>1
<1>13. QueuesStill
  <2>1. ASSUME NEW d \in Blocks, Loose(d) PROVE Loose(d)' /\ Kept(d) /\ tr'[d] = tr[d]
    <3>1. d # c
      BY <2>1 DEF OneContext
    <3>2. \A u \in Threads : ~On(u, d)'
      BY <1>2, <2>1, <3>1 DEF Loose, OneContext
    <3>3. \A a \in Apps : ctx'[d].my_sd \notin held'[a]
      BY <1>3, <2>1, <3>1 DEF Loose, OneContext
    <3> QED  BY <1>3, <2>1, <3>1, <3>2, <3>3 DEF Loose
  <2> QED  BY <1>1, <1>12, <2>1 DEF QueuesStill
<1>14. /\ Slots' /\ Completions'
       /\ \A d \in Blocks : \A j, sd : Waiting(d, j, sd)' = Waiting(d, j, sd)
  BY <1>13, QueueFrame
<1>15. Hashed'
  <2>1. \A sd \in Sds : \/ global_ctx'[sd] = global_ctx[sd]
                        \/ /\ global_ctx[sd] # NULL => queue[global_ctx[sd]] = NULL
                           /\ global_ctx'[sd] # NULL => queue[global_ctx'[sd]] = NULL
    BY DEF OneContext
  <2> QED  BY <1>1, <2>1, HashedFrame
<1>16. Owned'
  <2>1. \A a \in Apps, d \in Blocks : Closing(a) /\ On(a, d) =>
          Closing(a)' /\ On(a, d)' /\ pc'[a] = pc[a]
    <3>1. \A a \in Apps : Closing(a) => a # t /\ a # c /\ pc'[a] = pc[a]
      BY ThreadFacts DEF OneContext
    <3> QED  BY <1>2, <3>1, ThreadFacts DEF Closing
  <2>2. \A a \in Apps : pc[a] = "free" => Closing(a)
    BY DEF Closing, CloseStates
  <2>3. \A d \in Blocks : queue[d] # NULL =>
          /\ Entered(d)' /\ ctx'[d].listening
          /\ ctx'[d].recv_thread_started = ctx[d].recv_thread_started
    BY <1>11 DEF Owned, Still, Entered
  <2>4. \A d \in Blocks : ctx'[d] # NULL /\ ctx'[d].listening /\ queue[d] = NULL =>
           ctx[d] # NULL /\ ctx[d].listening
    BY <1>3 DEF OneContext
  <2> QED  BY <1>1, <2>1, <2>2, <2>3, <2>4, OwnedFrame
<1>17. ASSUME NEW d \in Blocks, d # c, ctx'[d] # NULL PROVE Closable(d)'
  <2>1. ctx[d] # NULL /\ Closable(d) /\ ctx'[d] = ctx[d]
    BY <1>3, <1>17
  <2>2. CASE Entered(d) /\ \E a \in Apps : ctx[d].my_sd \in held[a]
    <3>1. PICK a \in Apps : ctx[d].my_sd \in held[a]
      BY <2>2
    <3>2. ctx[d].my_sd \in held'[a]
      BY <1>17, <2>2, <3>1 DEF OneContext
    <3> QED  BY <2>1, <3>2 DEF Closable
  <2>3. CASE \E u \in Threads : On(u, d)
    BY <1>2, <1>17, <2>3 DEF Closable, OneContext
  <2>4. Entered(d) \/ \E u \in Threads : On(u, d)
    BY <2>1 DEF Table
  <2> QED  BY <1>14, <2>1, <2>2, <2>3, <2>4 DEF Closable, Unaccepted
<1> QED  BY <1>7, <1>8, <1>9, <1>10, <1>14, <1>15, <1>16, <1>17

\* What is left to show of such a step is about t and c.
LEMMA OneContextStep ==
  ASSUME TypeOK, TypeOK', Ownership, NEW t \in Threads, NEW c \in Blocks, OneContext(t, c),
         pc'[c] = pc[c] \/ (pc[c] \in {"none", "done"} /\ pc'[c] = "poll"),
         \A sd \in Sds : global_ctx'[sd] = c => ctx'[c] # NULL /\ ctx'[c].my_sd = sd,
         ctx'[c] # NULL => Closable(c)' /\ (Entered(c)' \/ (Creating(t)' /\ On(t, c)')),
         Creating(t)' => cur'[t] = <<c>> /\ Blank(c)' /\ ~Entered(c)',
         \A a \in Apps : a # t => \A sd \in held[a] : global_ctx[sd] # c,
         t \in Apps => /\ \A sd \in held'[t] :
                            \/ sd \in held[t] /\ global_ctx'[sd] = global_ctx[sd]
                            \/ global_ctx'[sd] = c /\ \A a \in Apps : sd \notin held[a]
                       /\ \/ ~On(t, c)' \/ pc'[t] \in {"connect", "accept"}
                          \/ \A sd \in held'[t] : global_ctx'[sd] # c
                       /\ Calling(t)' /\ Stack(t)',
         t \in Blocks => Listener(t)' /\ held' = held,
         Listener(c)', writer # NULL => t \notin Readers',
         tr'[c] # "none" => Entered(c)',
         tr'[c] = "handshake" =>
           \/ tr[c] = "handshake" /\ Kept(c) /\ pc[t] # "connect"
           \/ ctx'[c].is_active /\ \E a \in Apps : pc'[a] = "connect" /\ On(a, c)'
  PROVE  Ownership'
<1> USE OwnershipParts
<1>1. /\ \A a \in Apps : a # t => Calling(a)' /\ Stack(a)'
      /\ \A d \in Blocks : d # t /\ d # c => Listener(d)'
      /\ Slots' /\ Completions' /\ Hashed' /\ Owned'
      /\ \A d \in Blocks : d # c /\ ctx'[d] # NULL => Closable(d)'
      /\ \A u, w \in Threads : \A d \in Blocks : On(u, d)' /\ On(w, d)' => u = w
      /\ (writer # NULL => Closing(writer)' /\ k'[writer] # 0)
  BY OneContextOthers
<1>2. queue' = queue /\ writer' = writer
  BY DEF queueVars, OneContext
<1>3. \A u \in Threads, d \in Blocks : u # t => On(u, d)' = On(u, d)
  BY DEF OneContext, On
<1>4. \A d \in Blocks : d # c => Entered(d)' = Entered(d) /\ ctx'[d] = ctx[d] /\ tr'[d] = tr[d]
  BY DEF OneContext
<1>5. \A sd \in Sds : global_ctx'[sd] \in {c, NULL} \/ global_ctx'[sd] = global_ctx[sd]
  BY DEF OneContext
<1>6. \A u \in Threads : u # t => Creating(u)' = Creating(u)
  <2>1. \A u \in Threads : u # t /\ u # c => pc'[u] = pc[u]
    BY DEF OneContext
  <2> QED  BY <2>1 DEF Creating
<1>7. Table'
  <2>1. ASSUME NEW sd \in Sds, global_ctx'[sd] # NULL
        PROVE  ctx'[global_ctx'[sd]] # NULL /\ ctx'[global_ctx'[sd]].my_sd = sd
    <3>1. CASE global_ctx'[sd] = c
      BY <3>1
    <3>2. CASE global_ctx'[sd] # c
      <4>1. global_ctx'[sd] = global_ctx[sd]
        BY <1>5, <2>1, <3>2
      <4>2. global_ctx[sd] \in Blocks /\ ctx[global_ctx[sd]] # NULL /\ ctx[global_ctx[sd]].my_sd = sd
        BY <2>1, <4>1, TableFacts
      <4> QED  BY <1>4, <3>2, <4>1, <4>2
    <3> QED  BY <3>1, <3>2
  <2>2. ASSUME NEW d \in Blocks, ctx'[d] # NULL
        PROVE  Entered(d)' \/ \E u \in Threads : Creating(u)' /\ On(u, d)'
    <3>1. CASE d = c
      BY <2>2, <3>1
    <3>2. CASE d # c /\ ~Entered(d)
      <4>1. PICK u \in Threads : Creating(u) /\ On(u, d)
        BY <1>4, <2>2, <3>2 DEF Table
      <4>2. u # t
        BY <3>2, <4>1 DEF OneContext
      <4> QED  BY <1>3, <1>6, <4>1, <4>2
    <3> QED  BY <1>4, <3>1, <3>2
  <2>3. ASSUME NEW u \in Threads, Creating(u)'
        PROVE  \E d \in Blocks : cur'[u] = <<d>> /\ Blank(d)' /\ ~Entered(d)'
    <3>1. CASE u # t
      <4>1. PICK d \in Blocks : cur[u] = <<d>> /\ Blank(d) /\ ~Entered(d)
        BY <1>6, <2>3, <3>1 DEF Table
      <4>2. d # c /\ cur'[u] = cur[u]
        BY <3>1, <4>1, StackMembers DEF OneContext
      <4>3. pc[d] \in {"none", "done"} => pc'[d] \in {"none", "done"}
        BY <4>2, ThreadFacts DEF OneContext
      <4> QED  BY <1>4, <4>1, <4>2, <4>3 DEF Blank
    <3> QED  BY <2>3, <3>1
  <2> QED  BY <2>1, <2>2, <2>3 DEF Table
<1>8. Exclusive'
  <2>1. ASSUME NEW a \in Apps, NEW sd \in held'[a]
        PROVE  /\ sd \in Sds /\ global_ctx'[sd] # NULL
               /\ \A u \in Threads : On(u, global_ctx[sd])' => u = a /\ pc'[a] \in {"connect", "accept"}
               /\ \A b \in Apps : sd \in held'[b] => a = b
    <3>1. sd \in Sds
      BY DEF TypeOK
    <3>2. \A b \in Apps : b # t => held'[b] = held[b]
      BY DEF OneContext
    <3>3. \A b \in Apps : sd \in held'[b] => a = b
      <4>1. ASSUME NEW b \in Apps, sd \in held[a], sd \in held[b] PROVE a = b
        BY <3>1, <4>1 DEF Exclusive
      <4>2. ASSUME NEW b \in Apps, NEW x \in held'[b], x \notin held[b]
            PROVE  b = t /\ \A e \in Apps : x \notin held[e]
        BY <3>2, <4>2
      <4> QED  BY <3>2, <4>1, <4>2
    <3>4. ASSUME sd \in held[a], global_ctx[sd] # c
          PROVE  /\ global_ctx'[sd] = global_ctx[sd] /\ global_ctx'[sd] # NULL
                 /\ \A u \in Threads : On(u, global_ctx[sd])' => u = a /\ pc'[a] \in {"connect", "accept"}
      <4>1. global_ctx[sd] # NULL /\ global_ctx[sd] \in Blocks
        BY <3>1, <3>4, TableFacts DEF Exclusive
      <4>2. global_ctx'[sd] = global_ctx[sd]
        BY <3>1, <3>4, <4>1 DEF OneContext
      <4>3. PICK d \in Blocks : d = global_ctx[sd] /\ d = global_ctx'[sd]
        BY <4>1, <4>2
      <4>4. ASSUME NEW u \in Threads, On(u, d)' PROVE u = a /\ pc'[a] \in {"connect", "accept"}
        <5>1. u # t
          BY <3>4, <4>3, <4>4 DEF OneContext
        <5>2. On(u, global_ctx[sd])
          BY <1>3, <4>3, <4>4, <5>1
        <5>3. u = a /\ pc[a] \in {"connect", "accept"}
          BY <3>4, <5>2 DEF Exclusive
        <5> QED  BY <5>1, <5>3, ThreadFacts DEF OneContext
      <4>5. \A u \in Threads : On(u, global_ctx[sd])' = On(u, d)'
        BY <4>3 DEF On
      <4> QED  BY <4>1, <4>2, <4>4, <4>5
    <3>5. CASE a # t
      BY <3>1, <3>2, <3>3, <3>4, <3>5
    <3>6. CASE a = t /\ global_ctx'[sd] # c
      <4>1. sd \in held[t] /\ global_ctx[sd] # c
        BY <3>6
      <4> QED  BY <3>1, <3>3, <3>4, <3>6, <4>1
    <3>7. CASE a = t /\ global_ctx'[sd] = c
      <4>1. \A u \in Threads : On(u, global_ctx[sd])' = On(u, c)'
        BY <3>7 DEF On
      <4>2. ASSUME NEW u \in Threads, On(u, c)' PROVE u = t /\ pc'[t] \in {"connect", "accept"}
        <5>1. u = t
          BY <1>3, <4>2 DEF OneContext
        <5> QED  BY <3>7, <4>2, <5>1
      <4>3. c # NULL
        BY SdsFacts
      <4> QED  BY <3>1, <3>3, <3>7, <4>1, <4>2, <4>3
    <3> QED  BY <3>5, <3>6, <3>7
  <2> QED  BY <1>1, <2>1 DEF Exclusive
<1>9. Locked'
  <2>1. writer # NULL => Readers' = {}
    <3>1. \A u \in Threads : u # t /\ u \in Readers' => u \in Readers
      <4>1. ASSUME NEW u \in Threads, u # t, u \in Readers' PROVE u \in Readers
        <5>1. pc'[u] = pc[u]
          BY <4>1 DEF OneContext, Readers
        <5> QED  BY <4>1, <5>1 DEF Readers
      <4> QED  BY <4>1
    <3>2. Readers' \subseteq Threads
      BY ThreadFacts DEF Readers
    <3> QED  BY <3>1, <3>2 DEF Locked
  <2> QED  BY <1>1, <1>2, <2>1 DEF Locked
<1>10. Transports'
  <2>1. \A d \in Blocks : tr'[d] # "none" => Entered(d)'
    BY <1>4 DEF Transports
  <2>2. ASSUME NEW d \in Blocks, tr'[d] = "handshake"
        PROVE  \/ tr[d] = "handshake" /\ Kept(d)
               \/ ctx'[d].is_active /\ \E a \in Apps : pc'[a] = "connect" /\ On(a, d)'
    BY <1>4, <2>2 DEF Kept
  <2>3. \A d \in Blocks : queue[d] # NULL => ctx'[d].my_sd = ctx[d].my_sd
    BY <1>4 DEF OneContext, Still, Owned, Entered
  <2>4. writer # NULL => cur'[writer] = cur[writer] /\ k'[writer] = k[writer]
    <3>1. writer # NULL => writer \in Threads /\ writer # t
      BY ThreadFacts DEF Locked, OneContext
    <3> QED  BY <3>1 DEF OneContext
  <2>5. \A d \in Blocks : \A j : Scanned(d, j)' = Scanned(d, j)
    BY <1>2, <2>4 DEF Scanned, On
  <2>6. ASSUME NEW a \in Apps, NEW d \in Blocks, tr'[d] = "handshake", pc[a] = "connect", On(a, d)
        PROVE  pc'[a] = "connect" /\ On(a, d)'
    <3>1. CASE a # t
      BY <1>3, <2>6, <3>1, ThreadFacts DEF OneContext
    <3>2. CASE a = t
      <4>1. d = c
        BY <2>6, <3>2 DEF OneContext
      <4>2. PICK b \in Apps : pc'[b] = "connect" /\ On(b, c)'
        BY <2>6, <3>2, <4>1
      <4>3. b = t
        BY <1>3, <4>2, ThreadFacts DEF OneContext
      <4> QED  BY <3>2, <4>1, <4>2, <4>3
    <3> QED  BY <3>1, <3>2
  <2> QED  BY <1>2, <2>1, <2>2, <2>3, <2>4, <2>5, <2>6, TransportFrame
<1>11. ASSUME NEW d \in Blocks, ctx'[d] # NULL PROVE Closable(d)'
  BY <1>1, <1>11
<1>12. \A a \in Apps : Calling(a)' /\ Stack(a)'
  BY <1>1
<1>13. \A d \in Blocks : Listener(d)'
  BY <1>1
<1> QED  BY <1>1, <1>7, <1>8, <1>9, <1>10, <1>11, <1>12, <1>13 DEF Ownership

\* A context that is being created.
LEMMA CreatingFacts ==
  ASSUME TypeOK, Ownership, NEW t \in Threads, Creating(t), Works(t)
  PROVE  \E c \in Blocks :
           /\ c = Top(t) /\ t # c /\ cur[t] = <<c>> /\ Blank(c) /\ ~Entered(c)
           /\ ctx[c] # NULL /\ queue[c] = NULL /\ tr[c] = "none"
           /\ \A d \in Blocks : On(t, d) <=> d = c
           /\ \A u \in Threads : On(u, c) => u = t
           /\ \A sd \in Sds : global_ctx[sd] # c
<1> USE OwnershipParts
<1>1. PICK c \in Blocks : c = Top(t) /\ On(t, c)
  BY TopFacts
<1>2. cur[t] = <<c>> /\ Blank(c) /\ ~Entered(c)
  BY <1>1, OnFacts
<1>3. t # c
  BY <1>2 DEF Blank, Creating
<1>4. queue[c] = NULL
  BY <1>1, <1>2 DEF Owned
<1>5. \A sd \in Sds : global_ctx[sd] # c
  BY <1>1, <1>2, SdsFacts, TableFacts
<1>6. \A d \in Blocks : On(t, d) <=> d = c
  BY <1>2, StackMembers
<1>7. \A u \in Threads : On(u, c) => u = t
  BY <1>1 DEF Exclusive
<1> QED  BY <1>1, <1>2, <1>3, <1>4, <1>5, <1>6, <1>7 DEF Blank

LEMMA OwnScan ==
  ASSUME TypeOK, TypeOK', SocketsOwned, DOMAIN slot = Threads, Ownership, NEW t \in Threads, Scan(t)
  PROVE  Ownership'
<1> USE OwnershipParts
<1>1. /\ pc[t] = "scan" /\ Works(t) /\ Creating(t) /\ UNCHANGED <<queueVars, slot, held, clashed>>
  BY DEF Scan, Creating
<1>2. PICK c \in Blocks :
      /\ c = Top(t) /\ t # c /\ cur[t] = <<c>> /\ Blank(c) /\ ~Entered(c)
      /\ ctx[c] # NULL /\ queue[c] = NULL /\ tr[c] = "none"
      /\ \A d \in Blocks : On(t, d) <=> d = c
      /\ \A u \in Threads : On(u, c) => u = t
      /\ \A sd \in Sds : global_ctx[sd] # c
  BY <1>1, CreatingFacts
<1>3. CASE k[t] \in Sds /\ UNCHANGED <<tableVars, cur>>
  <2>1. MinorStep
    BY <1>3, UnchangedMinor DEF tableVars
  <2>2. \/ pc' = pc /\ k' = [k EXCEPT ![t] = @ + 1]
        \/ pc' = [pc EXCEPT ![t] = "store"] /\ k' = k
    BY <1>3 DEF Scan
  <2>3. \A u \in Threads : u # t => pc'[u] = pc[u] /\ k'[u] = k[u]
    BY <2>2 DEF TypeOK
  <2>4. Walks(t)
    BY <1>1, <2>2 DEF TypeOK, Walks
  <2> QED  BY <1>1, <1>3, <2>1, <2>3, <2>4, MinorKept, WalkStep DEF tableVars, queueVars
<1>4. CASE k[t] \notin Sds
  <2>1. /\ FreeContext(c) /\ global_ctx' = ClearEntry(c)
        /\ pc' = [pc EXCEPT ![t] = IF t \in Apps THEN "idle" ELSE "poll"]
        /\ cur' = [cur EXCEPT ![t] = <<>>] /\ k' = [k EXCEPT ![t] = 0]
    BY <1>2, <1>4 DEF Scan
  <2>2. ctx'[c] = NULL /\ \A d \in Blocks : d # c => ctx'[d] = ctx[d]
    BY <1>2, <2>1, SocketsClosed
  <2>3. global_ctx' = global_ctx
    <3>1. ctx[c].my_sd \in Sds
      BY <1>2, LiveFacts
    <3> QED  BY <1>2, <2>1, <3>1 DEF ClearEntry, TypeOK
  <2>4. tr' = tr
    BY <1>2, <2>1 DEF FreeContext, TypeOK
  <2>5. pc'[t] = (IF t \in Apps THEN "idle" ELSE "poll") /\ \A u \in Threads : u # t => pc'[u] = pc[u]
    BY <2>1 DEF TypeOK
  <2>6. /\ cur'[t] = <<>> /\ \A u \in Threads : u # t => cur'[u] = cur[u]
        /\ \A u \in Threads : u # t => k'[u] = k[u]
    BY <2>1, Stacks
  <2>7. \A d \in Blocks : ~On(t, d)'
    BY <2>6, StackMembersNext
  <2>8. \A d \in Blocks : d # c => Entered(d)' = Entered(d)
    BY <2>2, <2>3 DEF Entered
  <2>9. OneContext(t, c)
    <3>1. ~Loose(c) /\ ~Closing(t)
      BY <1>1, <1>2 DEF Loose, Closing, CloseStates
    <3> QED  BY <1>1, <1>2, <2>2, <2>3, <2>4, <2>5, <2>6, <2>7, <2>8, <3>1 DEF OneContext
  <2>10. t \in Apps => Calling(t)' /\ Stack(t)'
    BY <2>5, <2>6 DEF Calling, Stack, Closing, CloseStates
  <2>11. t \in Blocks => Listener(t)'
    <3>1. t \in Blocks => Entered(t) /\ pc'[t] = "poll" /\ cur'[t] = <<>>
      BY <1>1, <2>5, <2>6, ThreadFacts DEF Listener
    <3>2. t \in Blocks => Entered(t)'
      BY <1>2, <2>8, <3>1
    <3> QED  BY <3>1, <3>2 DEF Listener
  <2>12. pc'[c] = pc[c] /\ cur'[c] = cur[c] /\ pc[c] \in {"none", "done"}
    BY <1>2, <2>5, <2>6, ThreadFacts DEF Blank
  <2>13. Listener(c)'
    <3>1. Listener(c)
      BY <1>2
    <3> QED  BY <2>12, <3>1 DEF Listener
  <2>14. t \notin Readers' /\ ~Creating(t)'
    BY <2>5, ThreadFacts DEF Readers, Creating
  <2>15. \A a \in Apps : \A sd \in held[a] : global_ctx[sd] # c /\ sd \in Sds
    BY <1>2 DEF TypeOK
  <2> QED  BY <1>1, <1>2, <2>2, <2>3, <2>4, <2>7, <2>9, <2>10, <2>11, <2>12, <2>13, <2>14, <2>15,
              OneContextStep
<1> QED  BY <1>3, <1>4 DEF Scan

LEMMA OwnStore ==
  ASSUME TypeOK, TypeOK', SocketsOwned, DOMAIN slot = Threads, Ownership,
         NEW t \in Threads, Store(t), ~clashed'
  PROVE  Ownership'
<1> USE OwnershipParts
<1>1. pc[t] = "store" /\ Works(t) /\ Creating(t) /\ k[t] \in Sds
  BY DEF Store, Creating, TypeOK
<1>2. PICK c \in Blocks :
      /\ c = Top(t) /\ t # c /\ cur[t] = <<c>> /\ Blank(c) /\ ~Entered(c)
      /\ ctx[c] # NULL /\ queue[c] = NULL /\ tr[c] = "none"
      /\ \A d \in Blocks : On(t, d) <=> d = c
      /\ \A u \in Threads : On(u, c) => u = t
      /\ \A x \in Sds : global_ctx[x] # c
  BY <1>1, CreatingFacts
<1>. PICK sd \in Sds : sd = k[t]
  BY <1>1
<1>3. /\ global_ctx' = [global_ctx EXCEPT ![sd] = c] /\ clashed' = (clashed \/ global_ctx[sd] # NULL)
      /\ \/ /\ t \in Apps
            /\ pc' = [pc EXCEPT ![t] = "idle"]
            /\ held' = [held EXCEPT ![t] = @ \cup {sd}]
            /\ cur' = [cur EXCEPT ![t] = <<>>] /\ k' = [k EXCEPT ![t] = 0]
         \/ /\ t \in Blocks
            /\ pc' = [pc EXCEPT ![t] = "pass"]
            /\ UNCHANGED <<held, cur, k>>
      /\ tr' = tr /\ slot' = slot /\ UNCHANGED queueVars
  BY <1>2 DEF Store
<1>4. sd \in Sds /\ global_ctx[sd] = NULL
  BY <1>3
<1>5. PICK r \in Contexts :
              /\ Becomes(c, r) /\ r.my_sd = sd
              /\ r.listening = ctx[c].listening
              /\ r.is_active = ctx[c].is_active
              /\ r.recv_thread_started = ctx[c].recv_thread_started
  BY <1>2, StoreEffect
<1>6. /\ ctx'[c] # NULL /\ ctx'[c].my_sd = sd /\ ctx'[c].listening = ctx[c].listening
      /\ ctx'[c].is_active = ctx[c].is_active /\ ctx'[c].recv_thread_started = ctx[c].recv_thread_started
      /\ \A d \in Blocks : d # c => ctx'[d] = ctx[d]
  BY <1>5 DEF Becomes
<1>7. global_ctx'[sd] = c /\ \A x \in Sds : x # sd => global_ctx'[x] = global_ctx[x]
  BY <1>1, <1>3, <1>4 DEF TypeOK
<1>8. Entered(c)'
  BY <1>6, <1>7 DEF Entered
<1>9. \A d \in Blocks : d # c => Entered(d)' = Entered(d)
  <2>1. ASSUME NEW d \in Blocks, d # c PROVE Entered(d)' = Entered(d)
    <3>1. CASE ctx[d] = NULL
      BY <1>6, <2>1, <3>1 DEF Entered
    <3>2. CASE ctx[d] # NULL
      <4>1. ctx[d].my_sd \in Sds /\ d # NULL
        BY <3>2, LiveFacts, SdsFacts
      <4> QED  BY <1>4, <1>6, <1>7, <2>1, <3>2, <4>1 DEF Entered
    <3> QED  BY <3>1, <3>2
  <2> QED  BY <2>1
<1>10. pc'[c] = pc[c] /\ pc'[c] \in {"none", "done"} /\ Blank(c)'
  <2>1. pc'[c] = pc[c]
    BY <1>1, <1>3, <1>2, ThreadFacts DEF TypeOK
  <2> QED  BY <1>1, <1>3, <1>2, <1>6, <2>1 DEF Blank
<1>11. \A u \in Threads : u # t => pc'[u] = pc[u] /\ cur'[u] = cur[u] /\ k'[u] = k[u]
  BY <1>1, <1>3, Stacks DEF TypeOK
<1>12. \A d \in Blocks : On(t, d)' => d = c
  <2>1. cur'[t] = <<>> \/ cur'[t] = <<c>>
    BY <1>1, <1>3, <1>2, Stacks
  <2> QED  BY <2>1, StackMembersNext
<1>13. \A a \in Apps : a # t => held'[a] = held[a]
  BY <1>1, <1>3 DEF TypeOK
<1>14. \A a \in Apps : sd \notin held[a] /\ \A x \in held[a] : x \in Sds /\ global_ctx[x] # c
  <2>1. \A a \in Apps : \A x \in held[a] : global_ctx[x] # NULL /\ x \in Sds
    BY DEF Exclusive, TypeOK
  <2> QED  BY <1>2, <1>4, <2>1
<1>15. t \in Apps => held'[t] = held[t] \cup {sd}
  BY <1>1, <1>3, ThreadFacts DEF TypeOK
<1>16. OneContext(t, c)
  <2>1. ~Loose(c) /\ ~Closing(t)
    BY <1>1, <1>3, <1>2 DEF Loose, Closing, CloseStates
  <2>2. ASSUME NEW d \in Blocks, t \in Apps, Entered(d)
        PROVE  (ctx[d].my_sd \in held'[t]) = (ctx[d].my_sd \in held[t])
    <3>1. global_ctx[ctx[d].my_sd] # NULL
      BY <2>2, SdsFacts DEF Entered
    <3> QED  BY <1>4, <1>15, <2>2, <3>1
  <2>3. \A x \in Sds : \/ global_ctx'[x] = global_ctx[x]
                       \/ queue[c] = NULL /\ {global_ctx[x], global_ctx'[x]} \subseteq {c, NULL}
    BY <1>2, <1>4, <1>7
  <2>4. \A d \in Blocks : ctx'[d] # NULL /\ ctx'[d].listening => ctx[d] # NULL /\ ctx[d].listening
    BY <1>2, <1>6
  <2>5. slot' = slot /\ tr' = tr /\ UNCHANGED queueVars /\ pc[t] \notin {"none", "done"}
    BY <1>1, <1>3
  <2> QED  BY <1>2, <1>6, <1>9, <1>11, <1>12, <1>13, <2>1, <2>2, <2>3, <2>4, <2>5 DEF OneContext
<1>17. t \in Apps => /\ pc'[t] = "idle" /\ cur'[t] = <<>> /\ ~On(t, c)'
  <2>1. t \in Apps => pc'[t] = "idle" /\ cur'[t] = <<>>
    BY <1>1, <1>3, Stacks, ThreadFacts DEF TypeOK
  <2> QED  BY <2>1, StackMembersNext
<1>18. t \in Blocks => pc'[t] = "pass" /\ cur'[t] = <<c>> /\ k'[t] = sd /\ On(t, c)' /\ held' = held
  <2>1. t \in Blocks => pc'[t] = "pass" /\ cur'[t] = <<c>> /\ k'[t] = sd /\ held' = held
    BY <1>1, <1>3, <1>2, ThreadFacts DEF TypeOK
  <2> QED  BY <2>1, StackMembersNext
<1>19. Closable(c)'
  <2>1. CASE t \in Apps
    BY <1>6, <1>15, <2>1 DEF Closable
  <2>2. CASE t \in Blocks
    BY <1>18, <2>2 DEF Closable
  <2> QED  BY <2>1, <2>2 DEF Threads
<1>20. t \in Apps => Calling(t)' /\ Stack(t)'
  BY <1>17 DEF Calling, Stack, Closing, CloseStates
<1>21. t \in Blocks => Listener(t)'
  <2>1. SUFFICES ASSUME t \in Blocks PROVE Listener(t)'
    OBVIOUS
  <2>2. Listener(t) /\ queue' = queue /\ slot' = slot
    BY <1>1, <1>3, <2>1 DEF queueVars
  <2>3. Entered(t)'
    BY <1>1, <1>3, <1>2, <1>9, <2>1, <2>2 DEF Listener
  <2>4. /\ queue[t] # NULL /\ slot[t] \in DOMAIN queue[t].slots
        /\ queue[t].slots[slot[t]] = -1
    BY <1>1, <1>3, <2>2 DEF Listener
  <2> QED  BY <1>2, <1>6, <1>8, <1>10, <1>18, <2>1, <2>2, <2>3, <2>4 DEF Listener
<1>22. Listener(c)'
  <2>1. cur[c] = <<>> /\ cur'[c] = cur[c]
    BY <1>2, <1>10, <1>11, ThreadFacts DEF Listener
  <2> QED  BY <1>10, <2>1 DEF Listener
<1>23. writer # NULL => t \notin Readers'
  <2>1. CASE t \in Apps
    BY <1>17, <2>1, ThreadFacts DEF Readers
  <2>2. CASE t \in Blocks
    BY <1>1, <1>3, <2>2 DEF Locked, Readers
  <2> QED  BY <2>1, <2>2 DEF Threads
<1>24. ~Creating(t)'
  BY <1>17, <1>18 DEF Creating, Threads
<1>25. t \in Apps => \A x \in held'[t] :
         \/ x \in held[t] /\ global_ctx'[x] = global_ctx[x]
         \/ global_ctx'[x] = c /\ \A a \in Apps : x \notin held[a]
  BY <1>7, <1>14, <1>15
<1>26. \A x \in Sds : global_ctx'[x] = c => ctx'[c] # NULL /\ ctx'[c].my_sd = x
  BY <1>2, <1>6, <1>7
<1>27. tr'[c] = "none"
  BY <1>1, <1>3, <1>2
<1> QED  BY <1>2, <1>8, <1>10, <1>14, <1>16, <1>17, <1>18, <1>19, <1>20, <1>21, <1>22, <1>23,
            <1>24, <1>25, <1>26, <1>27, OneContextStep

LEMMA OwnAllocate ==
  ASSUME TypeOK, TypeOK', SocketsOwned, Ownership, NEW t \in Threads,
         Allocate(t), pc' = [pc EXCEPT ![t] = "scan"], UNCHANGED <<queueVars, held>>,
         \A u \in Threads : u # t => slot'[u] = slot[u],
         \/ t \in Apps /\ pc[t] = "idle"
         \/ /\ t \in Blocks /\ pc[t] = "read" /\ writer = NULL /\ queue[t] # NULL
            /\ slot'[t] \in DOMAIN queue[t].slots /\ queue[t].slots[slot'[t]] = -1
  PROVE  Ownership'
<1> USE OwnershipParts
<1>1. PICK c \in Blocks :
           /\ ctx[c] = NULL /\ tr[c] = "none" /\ pc[c] \in {"none", "done"}
           /\ Becomes(c, NewContext(LowestFd)) /\ LowestFd \in Nat
           /\ cur' = [cur EXCEPT ![t] = <<c>>] /\ k' = [k EXCEPT ![t] = 0]
           /\ global_ctx' = global_ctx /\ tr' = tr
  BY AllocateEffect
<1>2. /\ ctx'[c] # NULL /\ ~ctx'[c].listening /\ ~ctx'[c].is_active /\ ~ctx'[c].recv_thread_started
      /\ \A d \in Blocks : d # c => ctx'[d] = ctx[d]
  BY <1>1, NewContextFacts DEF Becomes
<1>3. \A d \in Blocks : Entered(d) => d # c
  BY <1>1 DEF Entered
<1>4. queue[c] = NULL
  BY <1>3 DEF Owned
<1>5. t # c /\ cur[t] = <<>>
  <2>1. CASE t \in Apps
    BY <1>1, <2>1, ThreadFacts DEF Calling
  <2>2. CASE t \in Blocks
    BY <1>3, <2>2, ThreadFacts DEF Listener
  <2> QED  BY <2>1, <2>2 DEF Threads
<1>6. \A u \in Threads : ~On(u, c)
  BY <1>1, OnFacts
<1>7. \A sd \in Sds : global_ctx[sd] # c
  BY <1>3, SdsFacts, TableFacts
<1>8. ~Entered(c)' /\ \A d \in Blocks : d # c => Entered(d)' = Entered(d)
  <2>1. ctx'[c].my_sd \in Sds
    BY <1>1, SdsFacts, NewContextFacts DEF Becomes
  <2>2. ~Entered(c)'
    BY <1>1, <1>7, <2>1 DEF Entered
  <2> QED  BY <1>1, <1>2, <2>2 DEF Entered
<1>9. /\ cur'[t] = <<c>> /\ \A u \in Threads : u # t => cur'[u] = cur[u] /\ k'[u] = k[u]
      /\ pc'[t] = "scan" /\ \A u \in Threads : u # t => pc'[u] = pc[u]
  BY <1>1, Stacks DEF TypeOK
<1>10. \A d \in Blocks : On(t, d)' <=> d = c
  BY <1>9, StackMembersNext
<1>11. Blank(c)' /\ pc'[c] = pc[c] /\ cur'[c] = <<>>
  <2>1. pc'[c] = pc[c] /\ cur'[c] = cur[c]
    BY <1>5, <1>9, ThreadFacts
  <2>2. cur[c] = <<>>
    BY <1>1 DEF Listener
  <2> QED  BY <1>1, <1>2, <2>1, <2>2 DEF Blank
<1>12. OneContext(t, c)
  <2>1. ~Loose(c) /\ ~Closing(t) /\ pc[t] \notin {"none", "done"}
    BY <1>3 DEF Loose, Closing, CloseStates
  <2>2. \A d \in Blocks : ctx'[d] # NULL /\ ctx'[d].listening => ctx[d] # NULL /\ ctx[d].listening
    BY <1>2
  <2>3. \A d \in Blocks : ~On(t, d)
    BY <1>5, StackMembers
  <2> QED  BY <1>1, <1>2, <1>4, <1>5, <1>6, <1>8, <1>9, <1>10, <2>1, <2>2, <2>3 DEF OneContext
<1>13. t \in Apps => Calling(t)' /\ Stack(t)'
  BY <1>9 DEF Calling, Stack, Closing, CloseStates
<1>14. t \in Blocks => Listener(t)'
  <2>1. SUFFICES ASSUME t \in Blocks PROVE Listener(t)'
    OBVIOUS
  <2>2. pc[t] = "read" /\ Listener(t) /\ queue' = queue
    BY <2>1, ThreadFacts DEF queueVars
  <2>3. Entered(t)'
    BY <1>5, <1>8, <2>1, <2>2 DEF Listener
  <2>4. /\ queue[t] # NULL /\ slot'[t] \in DOMAIN queue[t].slots
        /\ queue[t].slots[slot'[t]] = -1
    BY <2>1, ThreadFacts
  <2> QED  BY <1>9, <2>2, <2>3, <2>4 DEF Listener
<1>15. Listener(c)'
  BY <1>1, <1>11 DEF Listener
<1>16. writer # NULL => t \notin Readers'
  BY <1>9, ThreadFacts DEF Readers
<1>17. Closable(c)'
  BY <1>10 DEF Closable
<1>18. \A a \in Apps : \A sd \in held[a] : global_ctx[sd] # c
  BY <1>7 DEF TypeOK
<1>19. Creating(t)' /\ On(t, c)'
  BY <1>9, <1>10 DEF Creating
<1> QED  BY <1>1, <1>7, <1>8, <1>9, <1>11, <1>12, <1>13, <1>14, <1>15, <1>16, <1>17, <1>18, <1>19,
            OneContextStep

LEMMA OwnMysocket ==
  ASSUME TypeOK, TypeOK', SocketsOwned, Ownership, NEW t \in Apps, Mysocket(t)
  PROVE  Ownership'
<1>1. /\ pc[t] = "idle" /\ Allocate(t) /\ pc' = [pc EXCEPT ![t] = "scan"]
      /\ UNCHANGED <<queueVars, held>> /\ slot' = slot
  BY DEF Mysocket, Go
<1> QED  BY <1>1, OwnAllocate, ThreadFacts

\* A step of a receive thread that changes no context as far as others see it.
LEMMA OwnReceive ==
  ASSUME TypeOK, TypeOK', Ownership, NEW c \in Blocks, NEW s, pc' = [pc EXCEPT ![c] = s],
         \/ pc[c] = "poll" /\ s \in {"read", "done"}
         \/ pc[c] = "read" /\ s \in {"poll", "done"},
         \A d \in Blocks : Kept(d) /\ KeptStarted(d),
         UNCHANGED <<global_ctx, tr, queueVars, cur, k, slot, held>>
  PROVE  Ownership'
<1>1. c \in Threads /\ pc'[c] = s /\ \A u \in Threads : u # c => pc'[u] = pc[u]
  BY ThreadFacts DEF TypeOK
<1>2. Walks(c)
  BY <1>1 DEF Walks
<1> QED  BY <1>1, <1>2, WalkStep DEF queueVars

LEMMA OwnPoll ==
  ASSUME TypeOK, TypeOK', SocketsOwned, Ownership, NEW c \in Blocks, Poll(c)
  PROVE  Ownership'
<1>1. pc[c] = "poll" /\ ctx[c] # NULL /\ UNCHANGED <<queueVars, cur, k, slot, held>>
  BY DEF Poll
<1>2. CASE Go(c, "poll", "done") /\ UNCHANGED tableVars
  <2>1. \A d \in Blocks : Kept(d) /\ KeptStarted(d)
    BY <1>2, UnchangedMinor, MinorKept DEF tableVars
  <2> QED  BY <1>1, <1>2, <2>1, OwnReceive DEF Go, tableVars
<1>3. CASE /\ ctx' = [ctx EXCEPT ![c].new_socket = LowestFd]
           /\ Go(c, "poll", "read") /\ UNCHANGED <<global_ctx, tr>>
  <2>1. PICK r \in Contexts :
           /\ Becomes(c, r) /\ r.my_sd = ctx[c].my_sd
           /\ r.listen_sd = ctx[c].listen_sd /\ r.listening = ctx[c].listening
           /\ r.is_active = ctx[c].is_active /\ r.stcp_errno = ctx[c].stcp_errno
           /\ r.recv_thread_started = ctx[c].recv_thread_started
    BY <1>1, <1>3, AcceptEffect
  <2>2. \A d \in Blocks : Kept(d) /\ KeptStarted(d)
    BY <1>1, <2>1 DEF Becomes, Kept, KeptStarted
  <2> QED  BY <1>1, <1>3, <2>2, OwnReceive DEF Go
<1> QED  BY <1>2, <1>3 DEF Poll

\* An empty slot that the search for one finds.
LEMMA FreeSlotFacts ==
  ASSUME NEW q \in Queues, FreeSlots(q) # {}
  PROVE  LET j == CHOOSE j \in FreeSlots(q) : \A i \in FreeSlots(q) : j <= i
         IN j \in DOMAIN q.slots /\ q.slots[j] = -1
<1>1. q.slots \in Seq(Sds \cup {-1})
  BY DEF Queues
<1>2. FreeSlots(q) \subseteq Nat
  BY <1>1 DEF FreeSlots
<1>3. PICK f \in FreeSlots(q) : \A g \in FreeSlots(q) : f <= g
  BY <1>2, LeastNatural
<1>4. (CHOOSE j \in FreeSlots(q) : \A i \in FreeSlots(q) : j <= i) \in FreeSlots(q)
  BY <1>3
<1> QED  BY <1>4 DEF FreeSlots

LEMMA OwnPacket ==
  ASSUME TypeOK, TypeOK', SocketsOwned, DOMAIN slot = Threads, Ownership, NEW c \in Blocks, Packet(c)
  PROVE  Ownership'
<1> USE OwnershipParts
<1>1. pc[c] = "read" /\ ctx[c] # NULL /\ UNCHANGED <<queueVars, held>> /\ c \in Threads
  BY ThreadFacts DEF Packet
<1>2. ASSUME NEW s \in {"poll", "done"}, Go(c, "read", s), UNCHANGED <<tableVars, cur, k, slot>>
      PROVE  Ownership'
  <2>1. \A d \in Blocks : Kept(d) /\ KeptStarted(d)
    BY <1>2, UnchangedMinor, MinorKept DEF tableVars
  <2> QED  BY <1>1, <1>2, <2>1, OwnReceive DEF Go, tableVars
<1>3. ASSUME writer = NULL, QueueOf(c) # NULL, FreeSlots(queue[QueueOf(c)]) # {},
             slot' = [slot EXCEPT ![c] = CHOOSE j \in FreeSlots(queue[QueueOf(c)]) :
                                           \A i \in FreeSlots(queue[QueueOf(c)]) : j <= i],
             Go(c, "read", "scan"), Allocate(c)
      PROVE  Ownership'
  <2>1. Entered(c)
    BY <1>1 DEF Listener
  <2>2. QueueOf(c) = c /\ queue[c] # NULL
    BY <1>3, <2>1, QueueFacts
  <2>3. queue[c] \in Queues /\ FreeSlots(queue[c]) # {}
    BY <1>3, <2>2 DEF Owned
  <2>4. PICK j : j = CHOOSE h \in FreeSlots(queue[c]) : \A i \in FreeSlots(queue[c]) : h <= i
    OBVIOUS
  <2>5. j \in DOMAIN queue[c].slots /\ queue[c].slots[j] = -1
    BY <2>3, <2>4, FreeSlotFacts
  <2>6. slot' = [slot EXCEPT ![c] = j]
    BY <1>3, <2>2, <2>4
  <2>7. slot'[c] = j /\ \A u \in Threads : u # c => slot'[u] = slot[u]
    BY <1>1, <2>6
  <2> QED  BY <1>1, <1>3, <2>2, <2>5, <2>7, OwnAllocate DEF Go
<1> QED  BY <1>2, <1>3 DEF Packet

LEMMA OwnBind ==
  ASSUME TypeOK, TypeOK', Ownership, NEW t \in Apps, NEW sd \in Sds, Mybind(t, sd)
  PROVE  Ownership'
<1>1. /\ pc[t] = "idle" /\ pc' = pc /\ cur' = cur /\ k' = k /\ slot' = slot /\ held' = held
      /\ UNCHANGED <<global_ctx, tr, queueVars>>
  BY DEF Mybind, threadVars
<1>2. PICK c \in Blocks : c = Context(sd) /\ ctx[c] # NULL
  BY ContextFacts DEF Mybind, Valid
<1>3. \/ ctx' = [ctx EXCEPT ![c].bound = TRUE]
      \/ ctx' = [ctx EXCEPT ![c].bound = TRUE, ![c].port = TRUE]
  BY <1>2 DEF Mybind
<1>4. \A d \in Blocks : Kept(d) /\ KeptStarted(d)
  BY <1>2, <1>3, MinorUpdate, MinorKept
<1>5. t \in Threads /\ Walks(t)
  BY <1>1, ThreadFacts DEF Walks
<1> QED  BY <1>1, <1>4, <1>5, WalkStep DEF queueVars

LEMMA OwnCloseWait ==
  ASSUME TypeOK, TypeOK', Ownership, NEW t \in Apps, CloseJoin(t) \/ CloseStop(t)
  PROVE  Ownership'
<1>1. /\ \/ pc[t] = "join" /\ pc' = [pc EXCEPT ![t] = "stop"] /\ tr[Top(t)] \in {"none", "exited"}
         \/ pc[t] = "stop" /\ pc' = [pc EXCEPT ![t] = "joinrx"]
      /\ Works(t) /\ t \in Threads
      /\ UNCHANGED <<global_ctx, tr, queueVars, cur, k, slot, held>>
  BY ThreadFacts DEF CloseJoin, CloseStop, Go, tableVars
<1>2. PICK c \in Blocks : c = Top(t) /\ ctx[c] # NULL
  BY <1>1, TopFacts
<1>3. PICK b \in BOOLEAN : b = ctx[c].recv_thread_started
  BY <1>2, LiveFacts
<1>4. ctx' = ctx \/ ctx' = [ctx EXCEPT ![c].exit_pipe = b]
  BY <1>2, <1>3 DEF CloseJoin, CloseStop, tableVars
<1>5. \A d \in Blocks : Kept(d) /\ KeptStarted(d)
  BY <1>2, <1>4, UnchangedMinor, MinorUpdate, MinorKept
<1>6. /\ \A u \in Threads : u # t => pc'[u] = pc[u]
      /\ Walks(t)
  BY <1>1 DEF Walks, TypeOK
<1> QED  BY <1>1, <1>5, <1>6, WalkStep DEF queueVars

\* The mysocket that an idle application thread passes to a call.
LEMMA HeldFacts ==
  ASSUME TypeOK, Ownership, NEW t \in Apps, NEW sd \in held[t], pc[t] = "idle"
  PROVE  \E c \in Blocks :
           /\ sd \in Sds /\ c = Context(sd) /\ c = global_ctx[sd]
           /\ ctx[c] # NULL /\ ctx[c].my_sd = sd /\ Entered(c)
           /\ t # c /\ cur[t] = <<>> /\ ~Loose(c)
           /\ \A d \in Blocks : ~On(t, d)
           /\ \A u \in Threads : ~On(u, c)
           /\ \A a \in Apps : a # t => \A x \in held[a] : global_ctx[x] # c
           /\ \A x \in held[t] : global_ctx[x] = c => x = sd
           /\ (queue[c] # NULL) => ctx[c].listening
           /\ writer # t
<1> USE OwnershipParts
<1>1. sd \in Sds /\ global_ctx[sd] # NULL
  BY DEF TypeOK, Exclusive
<1>2. PICK c \in Blocks : c = global_ctx[sd] /\ ctx[c] # NULL /\ ctx[c].my_sd = sd /\ Entered(c)
  BY <1>1, TableFacts
<1>3. c = Context(sd)
  BY <1>1, <1>2 DEF Context
<1>4. cur[t] = <<>> /\ t # c
  BY <1>2, ThreadFacts DEF Calling
<1>5. \A u \in Threads : ~On(u, c)
  BY <1>2 DEF Exclusive
<1>6. \A a \in Apps : \A x \in held[a] : global_ctx[x] = c => x = sd
  <2>1. ASSUME NEW a \in Apps, NEW x \in held[a], global_ctx[x] = c PROVE x = sd
    <3>1. x \in Sds /\ c # NULL
      BY <1>1, <1>2 DEF TypeOK
    <3> QED  BY <1>2, <2>1, <3>1, TableFacts
  <2> QED  BY <2>1
<1>7. \A a \in Apps : a # t => \A x \in held[a] : global_ctx[x] # c
  BY <1>1, <1>6 DEF Exclusive
<1>8. writer # t
  BY NotWriter, SdsFacts DEF Closing, CloseStates, Locked
<1>9. \A d \in Blocks : ~On(t, d)
  BY <1>4, StackMembers
<1>10. ~Loose(c) /\ ((queue[c] # NULL) => ctx[c].listening)
  BY <1>2 DEF Loose, Owned
<1> QED  BY <1>1, <1>2, <1>3, <1>4, <1>5, <1>6, <1>7, <1>8, <1>9, <1>10

LEMMA OwnConnect ==
  ASSUME TypeOK, TypeOK', Receiving, Ownership, NEW t \in Apps, NEW sd \in held[t], Myconnect(t, sd)
  PROVE  Ownership'
<1> USE OwnershipParts
<1>1. pc[t] = "idle" /\ t \in Threads
  BY ThreadFacts DEF Myconnect
<1>2. PICK c \in Blocks :
           /\ sd \in Sds /\ c = Context(sd) /\ c = global_ctx[sd]
           /\ ctx[c] # NULL /\ ctx[c].my_sd = sd /\ Entered(c)
           /\ t # c /\ cur[t] = <<>> /\ ~Loose(c)
           /\ \A d \in Blocks : ~On(t, d)
           /\ \A u \in Threads : ~On(u, c)
           /\ \A a \in Apps : a # t => \A x \in held[a] : global_ctx[x] # c
           /\ (queue[c] # NULL) => ctx[c].listening
  BY <1>1, HeldFacts
<1>3. /\ ~ctx[c].listening /\ ~ctx[c].recv_thread_started
      /\ tr' = [tr EXCEPT ![c] = "handshake"]
      /\ pc' = [pc EXCEPT ![t] = "connect", ![c] = "poll"]
      /\ cur' = [cur EXCEPT ![t] = <<c>>]
      /\ global_ctx' = global_ctx /\ UNCHANGED queueVars /\ k' = k /\ slot' = slot /\ held' = held
  BY <1>2 DEF Myconnect
<1>4. PICK r \in Contexts :
                 /\ Becomes(c, r) /\ r.my_sd = ctx[c].my_sd
                 /\ r.listening = ctx[c].listening
                 /\ r.is_active /\ r.recv_thread_started
  BY <1>2, ConnectEffect
<1>5. /\ ctx'[c] # NULL /\ ctx'[c].my_sd = sd /\ ~ctx'[c].listening /\ ctx'[c].is_active
      /\ \A d \in Blocks : d # c => ctx'[d] = ctx[d]
  BY <1>2, <1>3, <1>4 DEF Becomes
<1>6. /\ pc'[t] = "connect" /\ pc'[c] = "poll" /\ pc[c] \in {"none", "done"}
      /\ \A u \in Threads : u # t /\ u # c => pc'[u] = pc[u]
  BY <1>1, <1>2, <1>3, ThreadFacts DEF TypeOK, Receiving
<1>7. cur'[t] = <<c>> /\ \A u \in Threads : u # t => cur'[u] = cur[u]
  BY <1>1, <1>2, <1>3, Stacks
<1>8. \A d \in Blocks : On(t, d)' <=> d = c
  BY <1>7, StackMembersNext
<1>9. Entered(c)' /\ \A d \in Blocks : d # c => Entered(d)' = Entered(d)
  BY <1>2, <1>3, <1>5 DEF Entered
<1>10. tr'[c] = "handshake" /\ \A d \in Blocks : d # c => tr'[d] = tr[d]
  BY <1>3 DEF TypeOK
<1>11. OneContext(t, c)
  <2>1. ~Closing(t) /\ pc[t] \notin {"none", "done"}
    BY <1>1 DEF Closing, CloseStates
  <2>2. \A d \in Blocks : ctx'[d] # NULL /\ ctx'[d].listening => ctx[d] # NULL /\ ctx[d].listening
    BY <1>5
  <2> QED  BY <1>2, <1>3, <1>5, <1>6, <1>7, <1>8, <1>9, <1>10, <2>1, <2>2 DEF OneContext
<1>12. Calling(t)' /\ Stack(t)'
  BY <1>2, <1>3, <1>5, <1>6, <1>7, <1>9 DEF Calling, Stack, Closing, CloseStates
<1>13. Listener(c)'
  <2>1. cur'[c] = <<>>
    BY <1>2, <1>6, <1>7, ThreadFacts DEF Listener
  <2> QED  BY <1>6, <1>9, <2>1 DEF Listener
<1>14. Closable(c)'
  BY <1>2, <1>3, <1>5 DEF Closable
<1>15. ~Creating(t)' /\ t \notin Readers' /\ t \notin Blocks
  BY <1>6, ThreadFacts DEF Creating, Readers
<1>16. \A x \in Sds : global_ctx'[x] = c => ctx'[c] # NULL /\ ctx'[c].my_sd = x
  BY <1>2, <1>3, <1>5, TableFacts, SdsFacts
<1> QED  BY <1>1, <1>2, <1>3, <1>5, <1>6, <1>8, <1>9, <1>10, <1>11, <1>12, <1>13, <1>14, <1>15, <1>16,
            OneContextStep

LEMMA OwnConnected ==
  ASSUME TypeOK, TypeOK', Ownership, NEW t \in Apps, ConnectReturns(t)
  PROVE  Ownership'
<1> USE OwnershipParts
<1>1. /\ pc[t] = "connect" /\ t \in Threads /\ pc' = [pc EXCEPT ![t] = "idle"]
      /\ cur' = [cur EXCEPT ![t] = <<>>] /\ tr[Top(t)] # "handshake"
      /\ UNCHANGED queueVars /\ k' = k /\ slot' = slot /\ held' = held
      /\ global_ctx' = global_ctx /\ ctx' = ctx /\ tr' = tr
  BY ThreadFacts DEF ConnectReturns, Go, tableVars
<1>2. PICK c \in Blocks : cur[t] = <<c>> /\ Entered(c) /\ ctx[c].my_sd \in held[t]
  BY <1>1 DEF Calling
<1>3. t # c /\ tr[c] # "handshake" /\ ctx[c] # NULL /\ ctx[c].my_sd \in Sds /\ global_ctx[ctx[c].my_sd] = c
  BY <1>1, <1>2, ThreadFacts, TableFacts DEF Top
<1>4. /\ pc'[t] = "idle" /\ \A u \in Threads : u # t => pc'[u] = pc[u]
      /\ cur'[t] = <<>> /\ \A u \in Threads : u # t => cur'[u] = cur[u]
  BY <1>1, Stacks DEF TypeOK
<1>5. \A d \in Blocks : (On(t, d) <=> d = c) /\ ~On(t, d)'
  BY <1>2, <1>4, StackMembers, StackMembersNext
<1>6. \A u \in Threads : On(u, c) => u = t
  BY <1>1, <1>5 DEF Exclusive
<1>7. \A d \in Blocks : Entered(d)' = Entered(d)
  BY <1>1 DEF Entered
<1>8. pc'[c] = pc[c] /\ cur'[c] = cur[c]
  BY <1>3, <1>4, ThreadFacts
<1>9. Still(c)
  <2>1. queue' = queue
    BY <1>1 DEF queueVars
  <2> QED  BY <1>1, <1>7, <1>8, <2>1 DEF Still
<1>10. OneContext(t, c)
  <2>1. ~Closing(t) /\ pc[t] \notin {"none", "done"} /\ ~Loose(c)
    BY <1>1, <1>2 DEF Closing, CloseStates, Loose
  <2> QED  BY <1>1, <1>3, <1>4, <1>5, <1>6, <1>7, <1>9, <2>1 DEF OneContext
<1>11. Calling(t)' /\ Stack(t)'
  BY <1>4 DEF Calling, Stack, Closing, CloseStates
<1>12. Listener(c)'
  <2>1. queue' = queue /\ \A d \in Blocks : On(c, d) => Still(d)
    <3>1. ASSUME NEW d \in Blocks PROVE Still(d)
      <4>1. pc[d] \in {"none", "done"} => pc'[d] \in {"none", "done"}
        BY <1>1, <1>4, ThreadFacts
      <4> QED  BY <1>1, <1>7, <4>1 DEF Still, queueVars
    <3> QED  BY <1>1, <3>1 DEF queueVars
  <2>2. pc[c] \in {"scan", "store", "pass"} =>
           slot[c] \in DOMAIN queue[c].slots /\ queue[c].slots[slot[c]] = -1
    BY DEF Listener
  <2> QED  BY <1>1, <1>8, <1>9, <2>1, <2>2, ListenerFrame
<1>13. Closable(c)'
  BY <1>1, <1>2 DEF Closable
<1>14. ~Creating(t)' /\ t \notin Readers' /\ t \notin Blocks
  BY <1>4, ThreadFacts DEF Creating, Readers
<1>15. \A a \in Apps : a # t => \A x \in held[a] : global_ctx[x] # c
  <2>1. \A a \in Apps : \A x \in held[a] : global_ctx[x] = c => a = t
    BY <1>1, <1>5 DEF Exclusive
  <2> QED  BY <2>1
<1>16. \A x \in Sds : global_ctx[x] = c => ctx[c] # NULL /\ ctx[c].my_sd = x
  BY <1>3, TableFacts, SdsFacts
<1> QED  BY <1>1, <1>2, <1>3, <1>4, <1>5, <1>7, <1>8, <1>10, <1>11, <1>12, <1>13, <1>14, <1>15, <1>16,
            OneContextStep

LEMMA OwnAccept ==
  ASSUME TypeOK, TypeOK', Ownership, NEW t \in Apps, NEW sd \in held[t], Myaccept(t, sd)
  PROVE  Ownership'
<1> USE OwnershipParts
<1>1. pc[t] = "idle" /\ t \in Threads
  BY ThreadFacts DEF Myaccept
<1>2. PICK c \in Blocks :
           /\ sd \in Sds /\ c = Context(sd) /\ c = global_ctx[sd]
           /\ ctx[c] # NULL /\ ctx[c].my_sd = sd /\ Entered(c)
           /\ t # c /\ cur[t] = <<>> /\ ~Loose(c)
           /\ \A d \in Blocks : ~On(t, d)
           /\ \A u \in Threads : ~On(u, c)
           /\ \A a \in Apps : a # t => \A x \in held[a] : global_ctx[x] # c
  BY <1>1, HeldFacts
<1>3. /\ writer = NULL /\ QueueOf(c) # NULL
      /\ pc' = [pc EXCEPT ![t] = "accept"] /\ cur' = [cur EXCEPT ![t] = <<c>>]
      /\ UNCHANGED queueVars /\ k' = k /\ slot' = slot /\ held' = held
      /\ global_ctx' = global_ctx /\ ctx' = ctx /\ tr' = tr /\ queue' = queue
  BY <1>2 DEF Myaccept, tableVars, queueVars
<1>4. queue[c] # NULL
  BY <1>2, <1>3, QueueFacts
<1>5. /\ pc'[t] = "accept" /\ \A u \in Threads : u # t => pc'[u] = pc[u]
      /\ cur'[t] = <<c>> /\ \A u \in Threads : u # t => cur'[u] = cur[u]
  BY <1>1, <1>2, <1>3, Stacks DEF TypeOK
<1>6. \A d \in Blocks : On(t, d)' <=> d = c
  BY <1>5, StackMembersNext
<1>7. \A d \in Blocks : Entered(d)' = Entered(d)
  BY <1>3 DEF Entered
<1>8. \A d \in Blocks : Still(d)
  <2>1. ASSUME NEW d \in Blocks PROVE pc[d] \in {"none", "done"} => pc'[d] \in {"none", "done"}
    BY <1>1, <1>5, ThreadFacts
  <2> QED  BY <1>3, <1>7, <2>1 DEF Still
<1>9. OneContext(t, c)
  <2>1. ~Closing(t) /\ pc[t] \notin {"none", "done"}
    BY <1>1 DEF Closing, CloseStates
  <2> QED  BY <1>2, <1>3, <1>5, <1>6, <1>7, <1>8, <2>1 DEF OneContext
<1>10. Calling(t)' /\ Stack(t)'
  BY <1>2, <1>3, <1>4, <1>5 DEF Calling, Stack, Closing, CloseStates
<1>11. pc'[c] = pc[c] /\ cur'[c] = cur[c] /\ Listener(c)'
  <2>1. pc'[c] = pc[c] /\ cur'[c] = cur[c]
    BY <1>2, <1>5, ThreadFacts
  <2>2. pc[c] \in {"scan", "store", "pass"} =>
           slot[c] \in DOMAIN queue[c].slots /\ queue[c].slots[slot[c]] = -1
    BY DEF Listener
  <2> QED  BY <1>3, <1>8, <2>1, <2>2, ListenerFrame
<1>12. Closable(c)'
  BY <1>2, <1>3 DEF Closable
<1>13. ~Creating(t)' /\ t \notin Blocks
  BY <1>5, ThreadFacts DEF Creating
<1>14. \A x \in Sds : global_ctx[x] = c => ctx[c] # NULL /\ ctx[c].my_sd = x
  BY <1>2, TableFacts, SdsFacts
<1>15. tr'[c] = "handshake" => tr[c] = "handshake" /\ Kept(c) /\ pc[t] # "connect"
  BY <1>1, <1>3 DEF Kept
<1>16. tr'[c] # "none" => Entered(c)'
  BY <1>2, <1>7
<1> QED  BY <1>1, <1>2, <1>3, <1>5, <1>6, <1>7, <1>9, <1>10, <1>11, <1>12, <1>13, <1>14, <1>15, <1>16,
            OneContextStep

LEMMA OwnClose ==
  ASSUME TypeOK, TypeOK', Ownership, NEW t \in Apps, NEW sd \in held[t], Myclose(t, sd)
  PROVE  Ownership'
<1> USE OwnershipParts
<1>1. pc[t] = "idle" /\ t \in Threads /\ CloseRequest(t, sd)
  BY ThreadFacts DEF Myclose
<1>2. PICK c \in Blocks :
           /\ sd \in Sds /\ c = Context(sd) /\ c = global_ctx[sd]
           /\ ctx[c] # NULL /\ ctx[c].my_sd = sd /\ Entered(c)
           /\ t # c /\ cur[t] = <<>> /\ ~Loose(c)
           /\ \A d \in Blocks : ~On(t, d)
           /\ \A u \in Threads : ~On(u, c)
           /\ \A a \in Apps : a # t => \A x \in held[a] : global_ctx[x] # c
           /\ \A x \in held[t] : global_ctx[x] = c => x = sd
           /\ writer # t
  BY <1>1, HeldFacts
<1>3. /\ held' = [held EXCEPT ![t] = @ \ {sd}]
      /\ UNCHANGED queueVars /\ k' = k /\ slot' = slot
      /\ global_ctx' = global_ctx /\ tr' = tr /\ queue' = queue /\ writer' = writer
  BY DEF Myclose, queueVars
<1>4. /\ MinorStep /\ cur'[t] = <<c>> \o cur[t] /\ pc' = [pc EXCEPT ![t] = "join"]
      /\ \A u \in Threads : u # t => cur'[u] = cur[u]
  <2>1. /\ MinorStep /\ cur'[t] = <<Context(sd)>> \o cur[t] /\ pc' = [pc EXCEPT ![t] = "join"]
        /\ \A u \in Threads : u # t => cur'[u] = cur[u]
    BY <1>1, RequestEffect
  <2> QED  BY <1>2, <2>1
<1>5. cur'[t] = <<c>>
  BY <1>2, <1>4
<1>6. pc'[t] = "join" /\ \A u \in Threads : u # t => pc'[u] = pc[u]
  BY <1>1, <1>4 DEF TypeOK
<1>7. \A d \in Blocks : d # c => ctx'[d] = ctx[d]
  BY <1>1, <1>2 DEF CloseRequest, TypeOK
<1>8. \A d \in Blocks : Kept(d) /\ KeptStarted(d)
  BY <1>4, MinorKept
<1>9. \A d \in Blocks : Entered(d)' = Entered(d)
  BY <1>3, <1>8 DEF Entered, Kept
<1>10. \A d \in Blocks : On(t, d)' <=> d = c
  BY <1>5, StackMembersNext
<1>11. \A d \in Blocks : Still(d)
  <2>1. ASSUME NEW d \in Blocks PROVE pc[d] \in {"none", "done"} => pc'[d] \in {"none", "done"}
    BY <1>1, <1>6, ThreadFacts
  <2> QED  BY <1>3, <1>8, <1>9, <2>1 DEF Still, Kept, KeptStarted
<1>12. held'[t] = held[t] \ {sd} /\ \A a \in Apps : a # t => held'[a] = held[a]
  BY <1>3 DEF TypeOK
<1>13. OneContext(t, c)
  <2>1. ~Closing(t) /\ pc[t] \notin {"none", "done"}
    BY <1>1 DEF Closing, CloseStates
  <2>2. \A d \in Blocks : d # c /\ Entered(d) => (ctx[d].my_sd \in held'[t]) = (ctx[d].my_sd \in held[t])
    BY <1>2, <1>12, TableFacts
  <2>3. \A d \in Blocks : ctx'[d] # NULL /\ ctx'[d].listening => ctx[d] # NULL /\ ctx[d].listening
    BY <1>8 DEF Kept
  <2> QED  BY <1>2, <1>3, <1>4, <1>6, <1>7, <1>9, <1>10, <1>11, <1>12, <2>1, <2>2, <2>3 DEF OneContext
<1>14. Calling(t)' /\ Stack(t)'
  <2>1. Reached(t, c)'
    BY <1>2, <1>6, <1>9 DEF Reached
  <2> QED  BY <1>2, <1>3, <1>5, <1>6, <2>1 DEF Calling, Stack
<1>15. pc'[c] = pc[c] /\ cur'[c] = cur[c] /\ Listener(c)'
  <2>1. pc'[c] = pc[c] /\ cur'[c] = cur[c]
    BY <1>2, <1>4, <1>6, ThreadFacts
  <2>2. pc[c] \in {"scan", "store", "pass"} =>
           slot[c] \in DOMAIN queue[c].slots /\ queue[c].slots[slot[c]] = -1
    BY DEF Listener
  <2> QED  BY <1>3, <1>11, <2>1, <2>2, ListenerFrame
<1>16. Closable(c)'
  BY <1>1, <1>10 DEF Closable
<1>17. ~Creating(t)' /\ t \notin Blocks /\ t \notin Readers'
  BY <1>6, ThreadFacts DEF Creating, Readers
<1>18. \A x \in Sds : global_ctx'[x] = c => ctx'[c] # NULL /\ ctx'[c].my_sd = x
  BY <1>2, <1>3, <1>8, TableFacts, SdsFacts DEF Kept
<1>19. tr'[c] = "handshake" => tr[c] = "handshake" /\ Kept(c) /\ pc[t] # "connect"
  BY <1>1, <1>3, <1>8
<1>20. tr'[c] # "none" => Entered(c)'
  BY <1>2, <1>9
<1>21. \A x \in held'[t] : x \in held[t] /\ global_ctx'[x] = global_ctx[x] /\ global_ctx'[x] # c
  BY <1>2, <1>3, <1>12
<1> QED  BY <1>1, <1>2, <1>9, <1>13, <1>14, <1>15, <1>16, <1>17, <1>18, <1>19, <1>20, <1>21,
            OneContextStep

LEMMA HashedKept ==
  ASSUME Hashed, TypeOK, global_ctx' = global_ctx, listen_table' = listen_table,
         \A c \in Blocks : (queue'[c] = NULL) = (queue[c] = NULL)
  PROVE  Hashed'
<1>1. \A sd \in Sds : global_ctx[sd] # NULL => global_ctx[sd] \in Blocks
  BY DEF TypeOK
<1> QED  BY <1>1 DEF Hashed

\* Queue d keeps its slots, and connection sd, which has one, may be completed.
Reported(d, c) ==
  \/ queue'[d] = queue[d]
  \/ /\ queue[d] # NULL /\ queue'[d] \in Queues /\ queue'[d].slots = queue[d].slots
     /\ queue'[d].completed = Append(queue[d].completed, ctx[c].my_sd)
     /\ tr[c] = "handshake" /\ \E j \in Nat : Holds(d, j, ctx[c].my_sd)

\* The transport thread of c moves on.
LEMMA TransportStep ==
  ASSUME TypeOK, TypeOK', Ownership, NEW c \in Blocks,
         tr[c] \in {"handshake", "run"}, tr'[c] \in {"run", "exited"},
         \A d \in Blocks : d # c => tr'[d] = tr[d] /\ ctx'[d] = ctx[d],
         ctx'[c] # NULL, ctx'[c].my_sd = ctx[c].my_sd, ctx'[c].listen_sd = ctx[c].listen_sd,
         ctx'[c].listening = ctx[c].listening, ctx'[c].is_active = ctx[c].is_active,
         ctx'[c].recv_thread_started = ctx[c].recv_thread_started,
         UNCHANGED <<global_ctx, listen_table, writer, threadVars>>,
         queue' \in [Blocks -> Queues \cup {NULL}], \A d \in Blocks : Reported(d, c),
         \/ ctx'[c].stcp_errno = ctx[c].stcp_errno
         \/ \E a \in Apps : On(a, c)
         \/ \E l \in Blocks, j \in Nat : Waiting(l, j, ctx[c].my_sd)
  PROVE  Ownership'
<1> USE OwnershipParts
<1>1. pc' = pc /\ cur' = cur /\ k' = k /\ slot' = slot /\ held' = held /\ writer' = writer
  BY DEF threadVars
<1>2. Entered(c) /\ ctx[c] # NULL /\ ctx[c].my_sd \in Sds /\ global_ctx[ctx[c].my_sd] = c
  BY TableFacts DEF Transports
<1>3. \A d \in Blocks : /\ (queue'[d] = NULL) = (queue[d] = NULL)
                        /\ queue[d] # NULL => queue'[d].slots = queue[d].slots
  BY SdsFacts DEF Reported
<1>4. \A t, d : On(t, d)' = On(t, d)
  BY <1>1 DEF On
<1>5. /\ \A d \in Blocks : Entered(d)' = Entered(d)
      /\ \A d \in Blocks : ctx[d] # NULL => ctx'[d] # NULL /\ ctx'[d].my_sd = ctx[d].my_sd
  BY <1>2 DEF Entered
<1>6. \A d \in Blocks : Still(d)
  BY <1>1, <1>2, <1>3, <1>5 DEF Still
<1>7. /\ \A d \in Blocks : \A j, sd : Holds(d, j, sd)' = Holds(d, j, sd)
      /\ \A d, j : Scanned(d, j)' = Scanned(d, j)
  BY <1>1, <1>3, <1>4 DEF Holds, Scanned
<1>8. \A d \in Blocks : \A j, sd : Waiting(d, j, sd)' = Waiting(d, j, sd)
  BY <1>7 DEF Waiting
<1>9. \A d \in Blocks : Blank(d) => Blank(d)'
  BY <1>6, StillBlank
<1>10. Table'
  <2>1. \A sd \in Sds : global_ctx'[sd] # NULL =>
          ctx'[global_ctx'[sd]] # NULL /\ ctx'[global_ctx'[sd]].my_sd = sd
    BY <1>5, TableFacts
  <2>2. \A d \in Blocks : ctx'[d] # NULL => Entered(d)' \/ \E t \in Threads : Creating(t)' /\ On(t, d)'
    BY <1>1, <1>2, <1>4, <1>5 DEF Table, Creating
  <2>3. \A t \in Threads : Creating(t)' =>
          \E d \in Blocks : cur'[t] = <<d>> /\ Blank(d)' /\ ~Entered(d)'
    BY <1>1, <1>5, <1>9 DEF Table, Creating
  <2> QED  BY <2>1, <2>2, <2>3 DEF Table
<1>11. Exclusive'
  BY <1>1, <1>4 DEF Exclusive
<1>12. \A a \in Apps : Calling(a)' /\ Stack(a)'
  BY <1>1, <1>6, AppFrame
<1>13. ASSUME NEW d \in Blocks PROVE Listener(d)'
  <2>1. pc[d] \in {"scan", "store", "pass"} =>
          slot[d] \in DOMAIN queue'[d].slots /\ queue'[d].slots[slot[d]] = -1
    BY <1>3 DEF Listener
  <2> QED  BY <1>1, <1>6, <2>1, ListenerFrame
<1>14. Locked'
  BY <1>1 DEF Locked, Closing, Readers
<1>15. Hashed'
  BY <1>3, HashedKept
<1>16. Owned'
  <2>1. \A d \in Blocks : queue'[d] # NULL => Entered(d)' /\ ctx'[d].listening
    BY <1>3, <1>5 DEF Owned
  <2>2. \A d \in Blocks : ctx'[d] # NULL /\ ctx'[d].listening /\ queue'[d] = NULL =>
          \E a \in Apps : pc'[a] = "free" /\ On(a, d)'
    BY <1>1, <1>2, <1>3, <1>4 DEF Owned
  <2>3. ASSUME NEW d \in Blocks, queue'[d] # NULL
        PROVE  \/ ctx'[d].recv_thread_started
               \/ \E a \in Apps : Closing(a)' /\ On(a, d)'
               \/ /\ queue'[d].completed = <<>>
                  /\ \A j \in DOMAIN queue'[d].slots : queue'[d].slots[j] = -1
    <3>1. \/ ctx[d].recv_thread_started
          \/ \E a \in Apps : Closing(a) /\ On(a, d)
          \/ /\ queue[d].completed = <<>>
             /\ \A j \in DOMAIN queue[d].slots : queue[d].slots[j] = -1
      BY <1>3, <2>3 DEF Owned
    <3>2. CASE queue'[d] = queue[d]
      BY <1>1, <1>4, <3>1, <3>2 DEF Closing
    <3>3. CASE \E j \in Nat : Holds(d, j, ctx[c].my_sd)
      BY <1>1, <1>4, <3>1, <3>3 DEF Closing, Holds
    <3> QED  BY <3>2, <3>3 DEF Reported
  <2> QED  BY <2>1, <2>2, <2>3 DEF Owned
<1>17. Slots'
  <2>1. ASSUME NEW d \in Blocks, NEW sd \in Sds, queue[d] # NULL, Pending(d, sd) PROVE Pending(d, sd)'
    <3>1. global_ctx[sd] \in Blocks /\ ctx[global_ctx[sd]] # NULL /\ ctx'[d].my_sd = ctx[d].my_sd
      BY <1>5, <2>1, PendingLoose DEF Owned, Entered
    <3>2. PICK e \in Blocks : e = global_ctx[sd]
      BY <3>1
    <3>3. /\ ctx'[e].listen_sd = ctx[e].listen_sd /\ ctx'[e].listening = ctx[e].listening
          /\ ctx'[e].is_active = ctx[e].is_active /\ (tr[e] # "none" => tr'[e] # "none")
      OBVIOUS
    <3> QED  BY <1>1, <1>4, <2>1, <3>1, <3>2, <3>3 DEF Pending
  <2>2. \A d \in Blocks : \A j, sd : Waiting(d, j, sd) => queue[d] # NULL
    BY DEF Waiting, Holds
  <2> QED  BY <1>8, <2>1, <2>2 DEF Slots
<1>18. Completions'
  <2>1. SUFFICES ASSUME NEW d \in Blocks, queue[d] # NULL, ~(writer # NULL /\ On(writer, d))
                 PROVE  /\ \A i \in DOMAIN queue'[d].completed :
                             /\ \E j \in Nat : Holds(d, j, queue'[d].completed[i])
                             /\ tr'[global_ctx[queue'[d].completed[i]]] # "handshake"
                        /\ \A i, j \in DOMAIN queue'[d].completed :
                             queue'[d].completed[i] = queue'[d].completed[j] => i = j
    <3>1. \A d \in Blocks : \A i : (\E j \in Nat : Holds(d, j, queue'[d].completed[i])) =>
                                 \E j \in Nat : Holds(d, j, queue[d].completed[i])'
      BY <1>3 DEF Holds
    <3> QED  BY <1>1, <1>3, <1>4, <3>1 DEF Completions
  <2>2. /\ \A i \in DOMAIN queue[d].completed :
             /\ \E j \in Nat : Holds(d, j, queue[d].completed[i])
             /\ tr[global_ctx[queue[d].completed[i]]] # "handshake"
        /\ \A i, j \in DOMAIN queue[d].completed :
             queue[d].completed[i] = queue[d].completed[j] => i = j
    BY <2>1 DEF Completions
  <2>3. queue[d].completed \in Seq(Sds)
    BY <2>1 DEF Owned, Queues
  <2>4. ASSUME NEW i \in DOMAIN queue[d].completed
        PROVE  tr'[global_ctx[queue[d].completed[i]]] # "handshake"
    <3>1. PICK x \in Sds : x = queue[d].completed[i]
      BY <2>3
    <3>2. PICK j \in Nat : Holds(d, j, x)
      BY <2>2, <3>1
    <3>3. Waiting(d, j, x)
      BY <2>1, <3>2 DEF Waiting, Scanned
    <3>4. Pending(d, x)
      BY <3>3 DEF Slots
    <3>5. PICK e \in Blocks : e = global_ctx[x]
      BY <3>4, PendingLoose
    <3>6. tr[e] # "handshake"
      BY <2>2, <3>1, <3>5
    <3> QED  BY <3>1, <3>5, <3>6
  <2>5. CASE queue'[d] = queue[d]
    BY <2>2, <2>3, <2>4, <2>5
  <2>6. CASE /\ queue'[d].completed = Append(queue[d].completed, ctx[c].my_sd)
             /\ tr[c] = "handshake" /\ \E j \in Nat : Holds(d, j, ctx[c].my_sd)
    <3>1. PICK s \in Seq(Sds) : s = queue[d].completed
      BY <2>3
    <3>2. PICK sd \in Sds : sd = ctx[c].my_sd
      BY <1>2
    <3>3. queue'[d].completed = Append(s, sd)
      BY <2>6, <3>1, <3>2
    <3>4. \A i \in DOMAIN s : s[i] # sd
      BY <1>2, <2>2, <2>6, <3>1, <3>2
    <3>5. \A i \in DOMAIN Append(s, sd) : \/ i \in DOMAIN s /\ Append(s, sd)[i] = s[i]
                                          \/ i = Len(s) + 1 /\ Append(s, sd)[i] = sd
      OBVIOUS
    <3>6. \A i, j \in DOMAIN Append(s, sd) : Append(s, sd)[i] = Append(s, sd)[j] => i = j
      BY <2>2, <3>1, <3>4, <3>5
    <3>7. \A i \in DOMAIN Append(s, sd) :
             /\ \E j \in Nat : Holds(d, j, Append(s, sd)[i])
             /\ tr'[global_ctx[Append(s, sd)[i]]] # "handshake"
      <4>1. ASSUME NEW i \in DOMAIN s
            PROVE  (\E j \in Nat : Holds(d, j, s[i])) /\ tr'[global_ctx[s[i]]] # "handshake"
        BY <2>2, <2>4, <3>1
      <4>2. (\E j \in Nat : Holds(d, j, sd)) /\ tr'[global_ctx[sd]] # "handshake"
        BY <1>2, <2>6, <3>2
      <4> QED  BY <3>5, <4>1, <4>2
    <3> QED  BY <3>3, <3>6, <3>7
  <2> QED  BY <2>5, <2>6 DEF Reported
<1>19. Transports'
  <2>1. \A d \in Blocks : tr'[d] # "none" => Entered(d)'
    BY <1>2, <1>5 DEF Transports
  <2>2. \A d \in Blocks : tr'[d] = "handshake" => d # c /\ tr[d] = "handshake" /\ ctx'[d] = ctx[d]
    OBVIOUS
  <2>3. ASSUME NEW d \in Blocks, tr'[d] = "handshake", ~ctx'[d].is_active PROVE Reports(d)'
    <3>1. Reports(d) /\ ctx'[d] = ctx[d]
      BY <2>2, <2>3 DEF Transports
    <3>2. PICK l \in Blocks, j \in Nat :
                 /\ Holds(l, j, ctx[d].my_sd) /\ ctx[d].listen_sd = ctx[l].my_sd
                 /\ Scanned(l, j) => cur[writer] = <<d, l>>
      BY <3>1 DEF Reports
    <3>3. ctx'[l].my_sd = ctx[l].my_sd
      BY <1>5, <3>2 DEF Holds, Owned, Entered
    <3>4. Holds(l, j, ctx[d].my_sd)'
      BY <1>3, <3>1, <3>2 DEF Holds
    <3> QED  BY <1>1, <1>7, <3>1, <3>2, <3>3, <3>4 DEF Reports
  <2>4. \A d \in Blocks : tr'[d] = "handshake" /\ ctx'[d].is_active =>
          \E a \in Apps : pc'[a] = "connect" /\ On(a, d)'
    BY <1>1, <1>4, <2>2 DEF Transports
  <2> QED  BY <2>1, <2>3, <2>4 DEF Transports
<1>20. ASSUME NEW d \in Blocks, ctx'[d] # NULL PROVE Closable(d)'
  <2>1. ctx[d] # NULL /\ Closable(d) /\ ctx'[d].my_sd = ctx[d].my_sd
    BY <1>2, <1>5, <1>20
  <2>2. \/ \E a \in Apps : ctx[d].my_sd \in held[a]
        \/ \E t \in Threads : On(t, d)
        \/ \E l \in Blocks, j \in Nat : Waiting(l, j, ctx[d].my_sd)
        \/ Unaccepted(d)'
    <3>1. CASE d = c
      BY <2>1, <3>1, ThreadFacts DEF Closable, Unaccepted
    <3>2. CASE d # c
      BY <2>1, <3>2 DEF Closable, Unaccepted
    <3> QED  BY <3>1, <3>2
  <2>3. (\E l \in Blocks, j \in Nat : Waiting(l, j, ctx[d].my_sd)) =>
           \E l \in Blocks, j \in Nat : Waiting(l, j, ctx[d].my_sd)'
    BY <1>3, <1>7, <2>1 DEF Waiting, Holds
  <2> QED  BY <1>1, <1>4, <2>1, <2>2, <2>3 DEF Closable
<1> QED  BY <1>10, <1>11, <1>12, <1>13, <1>14, <1>15, <1>16, <1>17, <1>18, <1>19, <1>20 DEF Ownership

LEMMA OwnTransportExits ==
  ASSUME TypeOK, TypeOK', Ownership, NEW c \in Blocks, TransportExits(c)
  PROVE  Ownership'
<1>1. /\ tr[c] = "run" /\ ctx[c] # NULL /\ tr' = [tr EXCEPT ![c] = "exited"]
      /\ ctx' = ctx /\ queue' = queue /\ UNCHANGED <<global_ctx, listen_table, writer, threadVars>>
  BY DEF TransportExits, queueVars
<1>2. tr'[c] = "exited" /\ \A d \in Blocks : d # c => tr'[d] = tr[d]
  BY <1>1 DEF TypeOK
<1>3. queue' \in [Blocks -> Queues \cup {NULL}] /\ \A d \in Blocks : Reported(d, c)
  BY <1>1, OwnershipParts DEF Owned, Reported
<1> QED  BY <1>1, <1>2, <1>3, TransportStep

LEMMA CompletedField ==
  ASSUME NEW q \in Queues, NEW s \in Seq(Sds)
  PROVE  LET r == [q EXCEPT !.completed = s]
         IN r \in Queues /\ r.slots = q.slots /\ r.completed = s
BY DEF Queues

LEMMA OwnEstablished ==
  ASSUME TypeOK, TypeOK', Ownership, NEW c \in Blocks, Established(c)
  PROVE  Ownership'
<1> USE OwnershipParts
<1>1. /\ tr[c] = "handshake" /\ ctx[c] # NULL /\ Outcome(c) /\ ctx[c].my_sd \in Sds
      /\ UNCHANGED <<global_ctx, listen_table, writer, threadVars>>
  BY LiveFacts DEF Established
<1>2. PICK r \in Contexts :
           /\ Becomes(c, r) /\ r.my_sd = ctx[c].my_sd
           /\ r.listen_sd = ctx[c].listen_sd /\ r.listening = ctx[c].listening
           /\ r.is_active = ctx[c].is_active
           /\ r.recv_thread_started = ctx[c].recv_thread_started
           /\ tr' = [tr EXCEPT ![c] = IF r.stcp_errno = 0 THEN "run" ELSE "exited"]
  BY <1>1, OutcomeEffect
<1>3. /\ ctx'[c] # NULL /\ ctx'[c].my_sd = ctx[c].my_sd /\ ctx'[c].listen_sd = ctx[c].listen_sd
      /\ ctx'[c].listening = ctx[c].listening /\ ctx'[c].is_active = ctx[c].is_active
      /\ ctx'[c].recv_thread_started = ctx[c].recv_thread_started
      /\ \A d \in Blocks : d # c => ctx'[d] = ctx[d]
  BY <1>2 DEF Becomes
<1>4. tr'[c] \in {"run", "exited"} /\ \A d \in Blocks : d # c => tr'[d] = tr[d]
  BY <1>2 DEF TypeOK
<1>5. CASE ctx[c].is_active /\ UNCHANGED queue
  <2>1. \E a \in Apps : On(a, c)
    BY <1>1, <1>5 DEF Transports
  <2>2. queue' \in [Blocks -> Queues \cup {NULL}] /\ \A d \in Blocks : Reported(d, c)
    BY <1>5 DEF Owned, Reported
  <2> QED  BY <1>1, <1>3, <1>4, <2>1, <2>2, TransportStep
<1>6. CASE /\ ~ctx[c].is_active /\ writer = NULL
           /\ queue' = IF QueueOf(Context(ctx[c].listen_sd)) = NULL THEN queue
                       ELSE [queue EXCEPT ![QueueOf(Context(ctx[c].listen_sd))].completed =
                               Append(@, ctx[c].my_sd)]
  <2>1. PICK l \in Blocks, j \in Nat :
           Holds(l, j, ctx[c].my_sd) /\ ctx[c].listen_sd = ctx[l].my_sd
    BY <1>1, <1>6 DEF Transports, Reports
  <2>2. queue[l] # NULL /\ Entered(l)
    BY <2>1 DEF Holds, Owned
  <2>3. Context(ctx[c].listen_sd) = l /\ QueueOf(l) = l /\ l # NULL
    BY <2>1, <2>2, TableFacts, QueueFacts, SdsFacts DEF Context
  <2>4. queue[l] \in Queues /\ queue \in [Blocks -> Queues \cup {NULL}]
    BY <2>2 DEF Owned
  <2>5. PICK s \in Seq(Sds) : s = Append(queue[l].completed, ctx[c].my_sd)
    <3>1. queue[l].completed \in Seq(Sds)
      BY <2>4 DEF Queues
    <3>2. Append(queue[l].completed, ctx[c].my_sd) \in Seq(Sds)
      BY <1>1, <3>1
    <3> QED  BY <3>2
  <2>6. queue' = [queue EXCEPT ![l] = [queue[l] EXCEPT !.completed = s]]
    BY <1>6, <2>3, <2>4, <2>5
  <2>7. PICK q \in Queues : /\ q = [queue[l] EXCEPT !.completed = s]
                            /\ q.slots = queue[l].slots /\ q.completed = s
    BY <2>4, CompletedField
  <2>8. /\ queue' \in [Blocks -> Queues \cup {NULL}] /\ queue'[l] = q
        /\ \A d \in Blocks : d # l => queue'[d] = queue[d]
    BY <2>4, <2>6, <2>7
  <2>9. \A d \in Blocks : Reported(d, c)
    BY <1>1, <2>1, <2>2, <2>5, <2>7, <2>8 DEF Reported
  <2>10. Waiting(l, j, ctx[c].my_sd)
    BY <1>6, <2>1 DEF Waiting, Scanned
  <2> QED  BY <1>1, <1>3, <1>4, <2>8, <2>9, <2>10, TransportStep
<1> QED  BY <1>5, <1>6 DEF Established

LEMMA OwnCloseJoinRecv ==
  ASSUME TypeOK, TypeOK', Receiving, Ownership, NEW t \in Apps, CloseJoinRecv(t)
  PROVE  Ownership'
<1> USE OwnershipParts
<1>1. pc[t] = "joinrx" /\ Works(t) /\ t \in Threads /\ Closing(t)
  BY ThreadFacts DEF CloseJoinRecv, Closing, CloseStates
<1>2. PICK c \in Blocks : c = Top(t) /\ ctx[c] # NULL /\ On(t, c)
  BY <1>1, TopFacts
<1>3. /\ RecvJoined(c) /\ ctx' = [ctx EXCEPT ![c].recv_thread_started = FALSE]
      /\ pc' = [pc EXCEPT ![t] = IF ctx[c].listening THEN "wrlock" ELSE "free"]
      /\ global_ctx' = global_ctx /\ tr' = tr /\ listen_table' = listen_table /\ queue' = queue
      /\ writer' = writer /\ cur' = cur /\ k' = k /\ slot' = slot /\ held' = held
  BY <1>2 DEF CloseJoinRecv, queueVars
<1>4. PICK r \in Contexts :
           /\ Becomes(c, r) /\ r.my_sd = ctx[c].my_sd
           /\ r.listen_sd = ctx[c].listen_sd /\ r.listening = ctx[c].listening
           /\ r.is_active = ctx[c].is_active /\ r.stcp_errno = ctx[c].stcp_errno
           /\ ~r.recv_thread_started
  BY <1>2, <1>3, JoinEffect
<1>5. ctx'[c] # NULL /\ ~ctx'[c].recv_thread_started /\ \A d \in Blocks : d # c => ctx'[d] = ctx[d]
  BY <1>4 DEF Becomes
<1>6. \A d \in Blocks : Kept(d)
  BY <1>2, <1>4 DEF Becomes, Kept
<1>7. /\ Hashed' /\ Slots' /\ Completions'
      /\ \A d \in Blocks : ctx'[d] # NULL => Closable(d)'
      /\ \A d \in Blocks : tr'[d] # "none" => Entered(d)'
      /\ \A d \in Blocks : Entered(d)' = Entered(d)
      /\ \A u, d : On(u, d)' = On(u, d)
  BY <1>3, <1>6, StaticFrame
<1>8. /\ pc'[t] = IF ctx[c].listening THEN "wrlock" ELSE "free"
      /\ \A u \in Threads : u # t => pc'[u] = pc[u]
      /\ \A d \in Blocks : pc'[d] = pc[d]
  BY <1>1, <1>3, ThreadFacts DEF TypeOK
<1>9. \A d \in Blocks : d # c => Still(d)
  BY <1>3, <1>5, <1>7, <1>8 DEF Still
<1>10. \A u \in Threads, d \in Blocks : u # t /\ On(u, d) => Still(d)
  BY <1>1, <1>2, <1>9 DEF Exclusive
<1>11. \A u \in Threads : Creating(u)' = Creating(u) /\ Closing(u)' = Closing(u)
  BY <1>1, <1>8 DEF Creating, Closing, CloseStates
<1>12. Table'
  <2>1. \A sd \in Sds : global_ctx'[sd] # NULL =>
          ctx'[global_ctx'[sd]] # NULL /\ ctx'[global_ctx'[sd]].my_sd = sd
    BY <1>3, <1>6, TableFacts DEF Kept
  <2>2. \A d \in Blocks : ctx'[d] # NULL => Entered(d)' \/ \E u \in Threads : Creating(u)' /\ On(u, d)'
    BY <1>6, <1>7, <1>11 DEF Table, Kept
  <2>3. ASSUME NEW u \in Threads, Creating(u)'
        PROVE  \E d \in Blocks : cur'[u] = <<d>> /\ Blank(d)' /\ ~Entered(d)'
    <3>1. PICK d \in Blocks : cur[u] = <<d>> /\ Blank(d) /\ ~Entered(d)
      BY <1>11, <2>3 DEF Table
    <3>2. u # t /\ On(u, d)
      BY <1>1, <1>11, <2>3, <3>1, StackMembers DEF Creating
    <3> QED  BY <1>3, <1>7, <1>10, <3>1, <3>2, StillBlank
  <2> QED  BY <2>1, <2>2, <2>3 DEF Table
<1>13. Exclusive'
  <2>1. \A a \in Apps : pc[a] \in {"connect", "accept"} => pc'[a] = pc[a]
    BY <1>1, <1>8, ThreadFacts
  <2> QED  BY <1>3, <1>7, <2>1 DEF Exclusive
<1>14. ASSUME NEW a \in Apps, a # t PROVE Calling(a)' /\ Stack(a)'
  BY <1>3, <1>8, <1>10, <1>14, AppFrame, ThreadFacts
<1>15. Calling(t)'
  BY <1>8 DEF Calling
<1>16. Reached(t, c) => Reached(t, c)'
  <2>1. SUFFICES ASSUME Reached(t, c) PROVE Reached(t, c)'
    OBVIOUS
  <2>2. Entered(c)' /\ tr'[c] \in {"none", "exited"}
    BY <1>1, <1>3, <1>7, <2>1 DEF Reached
  <2>3. ctx[c].listening => ctx'[c].listening /\ queue[c] # NULL
    <3>1. ~\E a \in Apps : pc[a] = "free" /\ On(a, c)
      BY <1>1, <1>2, ThreadFacts DEF Exclusive
    <3> QED  BY <1>2, <1>6, <3>1 DEF Owned, Kept
  <2>4. ~ctx[c].listening => queue[c] = NULL
    BY DEF Owned
  <2> QED  BY <1>3, <1>5, <1>8, <2>2, <2>3, <2>4 DEF Reached
<1>17. Stack(t)'
  <2>1. CASE \E d \in Blocks : /\ cur[t] = <<d>> /\ Reached(t, d)
                               /\ (writer = t) = (pc[t] = "passive")
    <3>1. cur[t] = <<c>> /\ Reached(t, c) /\ writer # t
      BY <1>1, <1>2, <2>1 DEF Top
    <3> QED  BY <1>3, <1>8, <1>16, <3>1 DEF Stack
  <2>2. CASE \E d, l \in Blocks :
               /\ cur[t] = <<d, l>> /\ d # l /\ Reached(t, d)
               /\ pc[t] \notin {"wrlock", "passive"} /\ ~ctx[d].listening
               /\ writer = t
               /\ Entered(l) /\ queue[l] # NULL /\ Quiet(l)
    <3>1. PICK l \in Blocks :
               /\ cur[t] = <<c, l>> /\ c # l /\ Reached(t, c)
               /\ ~ctx[c].listening /\ writer = t
               /\ Entered(l) /\ queue[l] # NULL /\ Quiet(l)
      BY <1>2, <2>2 DEF Top
    <3>2. Quiet(l)' /\ Entered(l)' /\ ~ctx'[c].listening
      BY <1>2, <1>3, <1>5, <1>6, <1>7, <3>1 DEF Quiet, Kept
    <3> QED  BY <1>3, <1>8, <1>16, <3>1, <3>2 DEF Stack
  <2> QED  BY <1>1, <2>1, <2>2 DEF Stack
<1>18. ASSUME NEW d \in Blocks PROVE Listener(d)'
  <2>1. pc'[d] = pc[d] /\ d \in Threads /\ d # t
    BY <1>8, ThreadFacts
  <2>2. CASE d = c
    <3>1. pc[c] \in {"none", "done"}
      BY <1>2, <1>3 DEF RecvJoined, Receiving
    <3> QED  BY <1>3, <2>1, <2>2, <3>1 DEF Listener
  <2>3. CASE d # c
    <3>1. pc[d] \in {"scan", "store", "pass"} =>
            slot[d] \in DOMAIN queue[d].slots /\ queue[d].slots[slot[d]] = -1
      BY DEF Listener
    <3> QED  BY <1>3, <1>9, <1>10, <2>1, <2>3, <3>1, ListenerFrame
  <2> QED  BY <2>2, <2>3
<1>19. Locked'
  <2>1. Readers' = Readers
    BY <1>1, <1>8, ThreadFacts DEF Readers
  <2> QED  BY <1>3, <1>11, <2>1, ThreadFacts DEF Locked
<1>20. Owned'
  <2>1. \A a \in Apps, d \in Blocks : pc[a] = "free" /\ On(a, d) => pc'[a] = "free" /\ On(a, d)'
    BY <1>1, <1>7, <1>8, ThreadFacts
  <2>2. \A d \in Blocks : queue[d] # NULL => Entered(d)' /\ ctx'[d].listening
    BY <1>6, <1>7 DEF Owned, Kept, Entered
  <2>3. \A d \in Blocks : ctx[d].recv_thread_started =>
          ctx'[d].recv_thread_started \/ \E a \in Apps : Closing(a)' /\ On(a, d)'
    BY <1>1, <1>2, <1>5, <1>7, <1>11
  <2>4. \A d \in Blocks : ctx'[d] # NULL /\ ctx'[d].listening => ctx[d] # NULL /\ ctx[d].listening
    BY <1>6 DEF Kept
  <2>5. \A a \in Apps, d \in Blocks : Closing(a) /\ On(a, d) => Closing(a)' /\ On(a, d)'
    BY <1>7, <1>11, ThreadFacts
  <2> QED  BY <1>3, <2>1, <2>2, <2>3, <2>4, <2>5, OwnedFrame
<1>21. Transports'
  <2>1. \A l \in Blocks : queue[l] # NULL => ctx'[l].my_sd = ctx[l].my_sd
    BY <1>6 DEF Owned, Kept, Entered
  <2>2. \A l, j : Scanned(l, j)' = Scanned(l, j)
    BY <1>3, <1>7 DEF Scanned
  <2>3. \A a \in Apps, d \in Blocks : pc[a] = "connect" /\ On(a, d) => pc'[a] = "connect" /\ On(a, d)'
    BY <1>1, <1>7, <1>8, ThreadFacts
  <2> QED  BY <1>3, <1>6, <1>7, <2>1, <2>2, <2>3, TransportFrame
<1> QED  BY <1>7, <1>12, <1>13, <1>14, <1>15, <1>17, <1>18, <1>19, <1>20, <1>21 DEF Ownership

\* Slots are numbered from 1.
LEMMA SlotFacts ==
  ASSUME Owned, NEW c \in Blocks, queue[c] # NULL
  PROVE  /\ queue[c] \in Queues /\ queue[c].slots \in Seq(Sds \cup {-1}) /\ queue[c].completed \in Seq(Sds)
         /\ \A j \in DOMAIN queue[c].slots :
              j \in Nat /\ j >= 1 /\ (queue[c].slots[j] = -1 \/ queue[c].slots[j] \in Sds)
<1>1. queue[c] \in Queues
  BY DEF Owned
<1>2. queue[c].slots \in Seq(Sds \cup {-1}) /\ queue[c].completed \in Seq(Sds)
  BY <1>1 DEF Queues
<1> QED  BY <1>1, <1>2

LEMMA OwnCloseWrLock ==
  ASSUME TypeOK, TypeOK', Ownership, NEW t \in Apps, CloseWrLock(t)
  PROVE  Ownership'
<1> USE OwnershipParts
<1>1. /\ pc[t] = "wrlock" /\ t \in Threads /\ Closing(t) /\ pc' = [pc EXCEPT ![t] = "passive"]
      /\ writer = NULL /\ Readers = {} /\ writer' = t /\ k' = [k EXCEPT ![t] = 1] /\ t # NULL
      /\ global_ctx' = global_ctx /\ ctx' = ctx /\ tr' = tr /\ listen_table' = listen_table
      /\ queue' = queue /\ cur' = cur /\ slot' = slot /\ held' = held
  BY ThreadFacts, SdsFacts DEF CloseWrLock, Go, Closing, CloseStates, tableVars
<1>2. /\ pc'[t] = "passive" /\ \A u \in Threads : u # t => pc'[u] = pc[u]
      /\ k'[t] = 1 /\ \A u \in Threads : u # t => k'[u] = k[u]
      /\ \A d \in Blocks : pc'[d] = pc[d] /\ k'[d] = k[d]
  BY <1>1, ThreadFacts, Stacks DEF TypeOK
<1>3. \A u, d : On(u, d)' = On(u, d)
  BY <1>1 DEF On
<1>4. \A d \in Blocks : Entered(d)' = Entered(d)
  BY <1>1 DEF Entered
<1>5. \A d \in Blocks : Still(d)
  BY <1>1, <1>2, <1>4 DEF Still
<1>6. \A u \in Threads : Creating(u)' = Creating(u) /\ Closing(u)' = Closing(u)
  BY <1>1, <1>2 DEF Creating, Closing, CloseStates
<1>7. \A d \in Blocks : \A j, sd : /\ Holds(d, j, sd)' = Holds(d, j, sd)
                                   /\ Holds(d, j, sd) => ~Scanned(d, j) /\ ~Scanned(d, j)'
  <2>1. ASSUME NEW d \in Blocks, NEW j, NEW sd, Holds(d, j, sd) PROVE ~Scanned(d, j) /\ ~Scanned(d, j)'
    <3>1. j \in Nat /\ j >= 1
      BY <2>1, SlotFacts DEF Holds
    <3> QED  BY <1>1, <1>2, <3>1 DEF Scanned
  <2> QED  BY <1>1, <2>1 DEF Holds
<1>8. \A d \in Blocks : \A j, sd : Waiting(d, j, sd)' = Waiting(d, j, sd)
  BY <1>7 DEF Waiting
<1>9. Table'
  <2>1. \A u \in Threads : Creating(u)' => \E d \in Blocks : cur'[u] = <<d>> /\ Blank(d)' /\ ~Entered(d)'
    BY <1>1, <1>4, <1>5, <1>6, StillBlank DEF Table
  <2> QED  BY <1>1, <1>3, <1>4, <1>6, <2>1 DEF Table
<1>10. Exclusive'
  <2>1. \A a \in Apps : pc[a] \in {"connect", "accept"} => pc'[a] = pc[a]
    BY <1>1, <1>2, ThreadFacts
  <2> QED  BY <1>1, <1>3, <2>1 DEF Exclusive
<1>11. ASSUME NEW a \in Apps, a # t PROVE Calling(a)' /\ Stack(a)'
  <2>1. (writer' = a) = (writer = a)
    BY <1>1, <1>11, SdsFacts
  <2> QED  BY <1>1, <1>2, <1>5, <1>11, <2>1, AppFrame, ThreadFacts
<1>12. Calling(t)' /\ Stack(t)'
  <2>1. PICK c \in Blocks : cur[t] = <<c>> /\ Reached(t, c)
    BY <1>1 DEF Stack
  <2>2. Reached(t, c)'
    BY <1>1, <1>2, <1>4, <2>1 DEF Reached
  <2> QED  BY <1>1, <1>2, <2>1, <2>2 DEF Calling, Stack
<1>13. ASSUME NEW d \in Blocks PROVE Listener(d)'
  <2>1. pc[d] \in {"scan", "store", "pass"} =>
          slot[d] \in DOMAIN queue[d].slots /\ queue[d].slots[slot[d]] = -1
    BY DEF Listener
  <2> QED  BY <1>1, <1>2, <1>5, <2>1, ListenerFrame
<1>14. Locked'
  <2>1. Readers' = {}
    BY <1>1, <1>2, ThreadFacts DEF Readers
  <2> QED  BY <1>1, <1>2, <1>6, <2>1 DEF Locked
<1>15. Hashed'
  BY <1>1, HashedKept
<1>16. Owned'
  <2>1. \A a \in Apps, d \in Blocks : pc[a] = "free" /\ On(a, d) => pc'[a] = "free" /\ On(a, d)'
    BY <1>1, <1>2, <1>3, ThreadFacts
  <2>2. \A d \in Blocks : queue[d] # NULL => Entered(d)' /\ ctx'[d].listening
    BY <1>1, <1>4 DEF Owned
  <2>3. \A a \in Apps, d \in Blocks : Closing(a) /\ On(a, d) => Closing(a)' /\ On(a, d)'
    BY <1>3, <1>6, ThreadFacts
  <2> QED  BY <1>1, <2>1, <2>2, <2>3, OwnedFrame
<1>17. Slots'
  <2>1. \A d \in Blocks, sd \in Sds : Pending(d, sd) => Pending(d, sd)'
    BY <1>1, <1>3 DEF Pending
  <2> QED  BY <1>8, <2>1 DEF Slots
<1>18. Completions'
  <2>1. SUFFICES ASSUME NEW d \in Blocks, queue[d] # NULL
                 PROVE  /\ \A i \in DOMAIN queue[d].completed :
                             /\ \E j \in Nat : Holds(d, j, queue[d].completed[i])'
                             /\ tr[global_ctx[queue[d].completed[i]]] # "handshake"
                        /\ \A i, j \in DOMAIN queue[d].completed :
                             queue[d].completed[i] = queue[d].completed[j] => i = j
    BY <1>1 DEF Completions
  <2>2. /\ \A i \in DOMAIN queue[d].completed :
             /\ \E j \in Nat : Holds(d, j, queue[d].completed[i])
             /\ tr[global_ctx[queue[d].completed[i]]] # "handshake"
        /\ \A i, j \in DOMAIN queue[d].completed :
             queue[d].completed[i] = queue[d].completed[j] => i = j
    BY <1>1, <2>1 DEF Completions
  <2> QED  BY <1>1, <2>2 DEF Holds
<1>19. Transports'
  <2>1. ASSUME NEW d \in Blocks, tr[d] = "handshake", ~ctx[d].is_active PROVE Reports(d)'
    <3>1. PICK l \in Blocks, j \in Nat :
             Holds(l, j, ctx[d].my_sd) /\ ctx[d].listen_sd = ctx[l].my_sd
      BY <2>1 DEF Transports, Reports
    <3>2. Holds(l, j, ctx[d].my_sd)' /\ ~Scanned(l, j)'
      BY <1>1, <1>7, <3>1 DEF Holds
    <3> QED  BY <1>1, <3>1, <3>2 DEF Reports
  <2>2. \A a \in Apps : pc[a] = "connect" => pc'[a] = "connect"
    BY <1>1, <1>2, ThreadFacts
  <2> QED  BY <1>1, <1>3, <1>4, <2>1, <2>2 DEF Transports
<1>20. ASSUME NEW d \in Blocks, ctx'[d] # NULL PROVE Closable(d)'
  <2>1. Closable(d)
    BY <1>1, <1>20
  <2>2. (\E l \in Blocks, j \in Nat : Waiting(l, j, ctx[d].my_sd)) =>
           \E l \in Blocks, j \in Nat : Waiting(l, j, ctx[d].my_sd)'
    BY <1>1, <1>7 DEF Waiting, Holds
  <2> QED  BY <1>1, <1>3, <2>1, <2>2 DEF Closable, Unaccepted
<1> QED  BY <1>9, <1>10, <1>11, <1>12, <1>13, <1>14, <1>15, <1>16, <1>17, <1>18, <1>19, <1>20 DEF Ownership

\* What myaccept takes from a queue: a connection that only the queue knew of.
LEMMA TakeFacts ==
  ASSUME TypeOK, Ownership, NEW t \in Apps, AcceptReturns(t)
  PROVE  \E c \in Blocks, d \in Blocks, sd \in Sds :
           /\ cur[t] = <<c>> /\ ctx[c] # NULL /\ Entered(c) /\ ctx[c].my_sd \in held[t] /\ queue[c] # NULL
           /\ d = global_ctx[sd] /\ ctx[d] # NULL /\ ctx[d].my_sd = sd
           /\ ctx[d].listen_sd = ctx[c].my_sd /\ ctx[d].listen_sd # -1 /\ tr[d] # "handshake"
           /\ \E j \in Nat : Waiting(c, j, sd)
           /\ (\A u \in Threads : ~On(u, d)) /\ \A a \in Apps : sd \notin held[a]
           /\ writer = NULL /\ queue[c].completed # <<>> /\ sd = Head(queue[c].completed)
           /\ queue' \in [Blocks -> Queues \cup {NULL}] /\ \A e \in Blocks : e # c => queue'[e] = queue[e]
           /\ queue'[c] \in Queues /\ queue'[c].completed = Tail(queue[c].completed)
           /\ DOMAIN queue'[c].slots = DOMAIN queue[c].slots
           /\ \A j \in DOMAIN queue[c].slots :
                queue'[c].slots[j] = IF queue[c].slots[j] = sd THEN -1 ELSE queue[c].slots[j]
           /\ held[t] \subseteq held'[t] /\ held'[t] \subseteq held[t] \cup {sd}
           /\ (ctx[d].stcp_errno = 0 => sd \in held'[t])
           /\ \A a \in Apps : a # t => held'[a] = held[a]
<1> USE OwnershipParts
<1>1. pc[t] = "accept" /\ Works(t) /\ t \in Threads
  BY ThreadFacts DEF AcceptReturns
<1>2. PICK c \in Blocks : cur[t] = <<c>> /\ queue[c] # NULL /\ ctx[c].my_sd \in held[t]
  BY <1>1 DEF Calling
<1>3. Top(t) = c /\ Entered(c) /\ ctx[c] # NULL /\ ctx[c].my_sd \in Sds
  BY <1>1, <1>2, TopFacts, TableFacts DEF Owned
<1>4. QueueOf(c) = c
  BY <1>2, <1>3, QueueFacts
<1>5. /\ queue[c] \in Queues /\ queue[c].completed \in Seq(Sds)
      /\ queue \in [Blocks -> Queues \cup {NULL}] /\ queue[c].completed # <<>>
  BY <1>2, <1>3, <1>4, SlotFacts DEF AcceptReturns, Owned
<1>6. PICK sd \in Sds : sd = Head(queue[c].completed) /\ sd = queue[c].completed[1] /\ 1 \in DOMAIN queue[c].completed
  BY <1>5
<1>7. writer = NULL
  BY <1>1 DEF Locked, Readers
<1>8. PICK j \in Nat : Holds(c, j, sd)
  BY <1>2, <1>6, <1>7 DEF Completions
<1>9. tr[global_ctx[sd]] # "handshake"
  BY <1>2, <1>6, <1>7 DEF Completions
<1>10. Waiting(c, j, sd) /\ Pending(c, sd)
  BY <1>7, <1>8 DEF Waiting, Scanned, Slots
<1>11. PICK d \in Blocks : d = global_ctx[sd] /\ ctx[d] # NULL /\ ctx[d].my_sd = sd
  BY <1>10, PendingLoose
<1>12. /\ ctx[d].listen_sd = ctx[c].my_sd /\ ctx[d].listen_sd # -1
       /\ (\A u \in Threads : ~On(u, d)) /\ \A a \in Apps : sd \notin held[a]
  BY <1>3, <1>10, <1>11, SdsFacts DEF Pending
<1>13. Context(sd) = d
  BY <1>11 DEF Context
<1> DEFINE z == [i \in DOMAIN queue[c].slots |->
                   IF queue[c].slots[i] = sd THEN -1 ELSE queue[c].slots[i]]
           e == Tail(queue[c].completed)
<1>14. queue' = [queue EXCEPT ![c].completed = e, ![c].slots = z]
  BY <1>3, <1>4, <1>6 DEF AcceptReturns
<1>15. /\ z \in Seq(Sds \cup {-1}) /\ e \in Seq(Sds) /\ DOMAIN z = DOMAIN queue[c].slots
       /\ \A i \in DOMAIN z : z[i] = IF queue[c].slots[i] = sd THEN -1 ELSE queue[c].slots[i]
  <2>1. PICK s \in Seq(Sds \cup {-1}) : s = queue[c].slots
    BY <1>2, SlotFacts
  <2>2. [i \in DOMAIN s |-> IF s[i] = sd THEN -1 ELSE s[i]] \in Seq(Sds \cup {-1})
    OBVIOUS
  <2>3. e \in Seq(Sds)
    BY <1>5
  <2> QED  BY <2>1, <2>2, <2>3
<1> HIDE DEF z, e
<1>16. PICK r \in Queues : /\ r = [queue[c] EXCEPT !.completed = e, !.slots = z]
                           /\ r.completed = e /\ r.slots = z
  <2>1. PICK q \in Queues : q = queue[c]
    BY <1>5
  <2>2. /\ [q EXCEPT !.completed = e, !.slots = z] \in Queues
        /\ [q EXCEPT !.completed = e, !.slots = z].completed = e
        /\ [q EXCEPT !.completed = e, !.slots = z].slots = z
    BY <1>15 DEF Queues
  <2> QED  BY <2>1, <2>2
<1>17. /\ queue' \in [Blocks -> Queues \cup {NULL}] /\ queue'[c] = r
       /\ \A b \in Blocks : b # c => queue'[b] = queue[b]
  BY <1>5, <1>14, <1>16
<1>18. /\ held[t] \subseteq held'[t] /\ held'[t] \subseteq held[t] \cup {sd}
       /\ (ctx[d].stcp_errno = 0 => sd \in held'[t])
       /\ \A a \in Apps : a # t => held'[a] = held[a]
  BY <1>3, <1>4, <1>6, <1>13 DEF AcceptReturns, TypeOK
<1>19. /\ queue'[c] \in Queues /\ queue'[c].completed = Tail(queue[c].completed)
       /\ DOMAIN queue'[c].slots = DOMAIN queue[c].slots
       /\ \A i \in DOMAIN queue[c].slots :
            queue'[c].slots[i] = IF queue[c].slots[i] = sd THEN -1 ELSE queue[c].slots[i]
  BY <1>15, <1>16, <1>17 DEF e
<1>20. \E i \in Nat : Waiting(c, i, sd)
  BY <1>10
<1> QED  BY <1>2, <1>3, <1>5, <1>6, <1>7, <1>9, <1>11, <1>12, <1>17, <1>18, <1>19, <1>20

LEMMA OwnAccepted ==
  ASSUME TypeOK, TypeOK', Ownership, NEW t \in Apps, AcceptReturns(t)
  PROVE  Ownership'
<1> USE OwnershipParts
<1>1. /\ pc[t] = "accept" /\ t \in Threads /\ pc' = [pc EXCEPT ![t] = "idle"]
      /\ cur' = [cur EXCEPT ![t] = <<>>] /\ k' = k /\ slot' = slot /\ writer' = writer
      /\ global_ctx' = global_ctx /\ ctx' = ctx /\ tr' = tr /\ listen_table' = listen_table
  BY ThreadFacts DEF AcceptReturns, tableVars
<1>2. PICK c \in Blocks, d \in Blocks, sd \in Sds :
        /\ cur[t] = <<c>> /\ ctx[c] # NULL /\ Entered(c) /\ ctx[c].my_sd \in held[t] /\ queue[c] # NULL
        /\ d = global_ctx[sd] /\ ctx[d] # NULL /\ ctx[d].my_sd = sd
        /\ ctx[d].listen_sd = ctx[c].my_sd /\ ctx[d].listen_sd # -1 /\ tr[d] # "handshake"
        /\ \E j \in Nat : Waiting(c, j, sd)
        /\ (\A u \in Threads : ~On(u, d)) /\ \A a \in Apps : sd \notin held[a]
        /\ writer = NULL /\ queue[c].completed # <<>> /\ sd = Head(queue[c].completed)
        /\ queue' \in [Blocks -> Queues \cup {NULL}] /\ \A e \in Blocks : e # c => queue'[e] = queue[e]
        /\ queue'[c] \in Queues /\ queue'[c].completed = Tail(queue[c].completed)
        /\ DOMAIN queue'[c].slots = DOMAIN queue[c].slots
        /\ \A j \in DOMAIN queue[c].slots :
             queue'[c].slots[j] = IF queue[c].slots[j] = sd THEN -1 ELSE queue[c].slots[j]
        /\ held[t] \subseteq held'[t] /\ held'[t] \subseteq held[t] \cup {sd}
        /\ (ctx[d].stcp_errno = 0 => sd \in held'[t])
        /\ \A a \in Apps : a # t => held'[a] = held[a]
  BY TakeFacts
<1>3. /\ pc'[t] = "idle" /\ \A u \in Threads : u # t => pc'[u] = pc[u]
      /\ cur'[t] = <<>> /\ \A u \in Threads : u # t => cur'[u] = cur[u]
      /\ \A e \in Blocks : pc'[e] = pc[e] /\ cur'[e] = cur[e]
  BY <1>1, ThreadFacts, Stacks DEF TypeOK
<1>4. /\ \A e \in Blocks : (On(t, e) <=> e = c) /\ ~On(t, e)'
      /\ \A u \in Threads, e \in Blocks : u # t => On(u, e)' = On(u, e)
      /\ \A u \in Threads, e \in Blocks : On(u, e)' => u # t /\ On(u, e)
  <2>1. \A e \in Blocks : (On(t, e) <=> e = c) /\ ~On(t, e)'
    BY <1>2, <1>3, StackMembers, StackMembersNext
  <2>2. \A u \in Threads, e \in Blocks : u # t => On(u, e)' = On(u, e)
    BY <1>3 DEF On
  <2> QED  BY <2>1, <2>2
<1>5. \A e \in Blocks : Entered(e)' = Entered(e)
  BY <1>1 DEF Entered
<1>6. \A e \in Blocks : (queue'[e] = NULL) = (queue[e] = NULL)
  BY <1>2, SdsFacts
<1>7. \A e \in Blocks : Still(e)
  BY <1>1, <1>3, <1>5, <1>6 DEF Still
<1>8. \A u \in Threads : Creating(u)' = Creating(u) /\ Closing(u)' = Closing(u)
  BY <1>1, <1>3 DEF Creating, Closing, CloseStates
<1>9. \A e, j : ~Scanned(e, j) /\ ~Scanned(e, j)'
  BY <1>1, <1>2 DEF Scanned
<1>10. \A e \in Blocks : \A j, x : /\ Holds(e, j, x)' => Holds(e, j, x)
                                   /\ Holds(c, j, x)' => x # sd
                                   /\ Holds(e, j, x) /\ x # sd => Holds(e, j, x)'
  <2>1. \A j, x : Holds(c, j, x)' <=> Holds(c, j, x) /\ x # sd
    BY <1>2, <1>6 DEF Holds
  <2>2. \A e \in Blocks : \A j, x : e # c => Holds(e, j, x)' = Holds(e, j, x)
    BY <1>2 DEF Holds
  <2> QED  BY <2>1, <2>2
<1>11. \A e \in Blocks, j \in Nat, x \in Sds : Waiting(e, j, x)' => Waiting(e, j, x) /\ x # sd
  <2>1. \A e \in Blocks, j \in Nat : Waiting(e, j, sd) => e = c
    BY <1>2 DEF Slots
  <2> QED  BY <1>9, <1>10, <2>1 DEF Waiting
<1>12. Table'
  <2>1. \A u \in Threads : Creating(u)' => \E e \in Blocks : cur'[u] = <<e>> /\ Blank(e)' /\ ~Entered(e)'
    <3>1. \A u \in Threads : Creating(u) => cur'[u] = cur[u]
      BY <1>1, <1>3 DEF Creating
    <3> QED  BY <1>5, <1>7, <1>8, <3>1, StillBlank DEF Table
  <2>2. \A u \in Threads, e \in Blocks : Creating(u) /\ On(u, e) => Creating(u)' /\ On(u, e)'
    BY <1>1, <1>4, <1>8 DEF Creating
  <2> QED  BY <1>1, <1>5, <2>1, <2>2 DEF Table
<1>13. Exclusive'
  <2>1. \A u, v \in Threads : \A e \in Blocks : On(u, e)' /\ On(v, e)' => u = v
    BY <1>4 DEF Exclusive
  <2>2. \A a \in Apps, x \in Sds : x \in held'[a] => x \in held[a] \/ (a = t /\ x = sd)
    BY <1>2
  <2>3. \A a, b \in Apps : \A x \in Sds : x \in held'[a] /\ x \in held'[b] => a = b
    BY <1>2, <2>2 DEF Exclusive
  <2>4. ASSUME NEW a \in Apps, NEW x \in held'[a]
        PROVE  /\ global_ctx[x] # NULL
               /\ \A u \in Threads : On(u, global_ctx[x])' => u = a /\ pc'[a] \in {"connect", "accept"}
    <3>1. CASE x = sd
      <4>1. \A u \in Threads : ~On(u, d)'
        BY <1>2, <1>4
      <4> QED  BY <1>1, <1>2, <3>1, <4>1, SdsFacts DEF On
    <3>2. CASE x \in held[a]
      <4>1. x \in Sds /\ global_ctx[x] # NULL
        BY <3>2 DEF Exclusive, TypeOK
      <4>2. PICK e \in Blocks : e = global_ctx[x]
        BY <4>1, TableFacts
      <4>3. \A u \in Threads : On(u, e) => u = a /\ pc[a] \in {"connect", "accept"}
        BY <3>2, <4>2 DEF Exclusive
      <4>4. \A u \in Threads : On(u, e)' => u = a /\ pc'[a] \in {"connect", "accept"}
        BY <1>3, <1>4, <4>3
      <4> QED  BY <1>1, <4>1, <4>2, <4>4 DEF On
    <3> QED  BY <1>2, <3>1, <3>2
  <2> QED  BY <1>1, <2>1, <2>3, <2>4 DEF Exclusive
<1>14. ASSUME NEW a \in Apps, a # t PROVE Calling(a)' /\ Stack(a)'
  BY <1>1, <1>2, <1>3, <1>7, <1>14, AppFrame, ThreadFacts
<1>15. Calling(t)' /\ Stack(t)'
  BY <1>3 DEF Calling, Stack, Closing, CloseStates
<1>16. ASSUME NEW e \in Blocks PROVE Listener(e)'
  <2>1. pc[e] \in {"scan", "store", "pass"} =>
          slot[e] \in DOMAIN queue'[e].slots /\ queue'[e].slots[slot[e]] = -1
    BY <1>2 DEF Listener
  <2> QED  BY <1>1, <1>3, <1>7, <2>1, ListenerFrame
<1>17. Locked'
  BY <1>1, <1>2 DEF Locked
<1>18. Hashed'
  BY <1>1, <1>6, HashedKept
<1>19. Owned'
  <2>1. \A a \in Apps, e \in Blocks : pc[a] = "free" /\ On(a, e) => pc'[a] = "free" /\ On(a, e)'
    BY <1>1, <1>3, <1>4, ThreadFacts
  <2>2. \A a \in Apps, e \in Blocks : Closing(a) /\ On(a, e) => Closing(a)' /\ On(a, e)'
    BY <1>1, <1>4, <1>8, ThreadFacts DEF Closing, CloseStates
  <2>3. ctx[c].recv_thread_started
    <3>1. ~\E a \in Apps : Closing(a) /\ On(a, c)
      BY <1>1, <1>4, ThreadFacts DEF Exclusive, Closing, CloseStates
    <3> QED  BY <1>2, <3>1 DEF Owned
  <2>4. ASSUME NEW e \in Blocks, queue'[e] # NULL
        PROVE  \/ ctx'[e].recv_thread_started
               \/ \E a \in Apps : Closing(a)' /\ On(a, e)'
               \/ /\ queue'[e].completed = <<>>
                  /\ \A j \in DOMAIN queue'[e].slots : queue'[e].slots[j] = -1
    <3>1. CASE e = c
      BY <1>1, <2>3, <3>1
    <3>2. CASE e # c
      <4>1. queue'[e] = queue[e] /\ queue[e] # NULL
        BY <1>2, <2>4, <3>2
      <4>2. \/ ctx[e].recv_thread_started
            \/ \E a \in Apps : Closing(a) /\ On(a, e)
            \/ queue[e].completed = <<>> /\ \A j \in DOMAIN queue[e].slots : queue[e].slots[j] = -1
        BY <4>1 DEF Owned
      <4> QED  BY <1>1, <2>2, <4>1, <4>2
    <3> QED  BY <3>1, <3>2
  <2>5. \A e \in Blocks : queue'[e] # NULL => Entered(e)' /\ ctx'[e].listening
    BY <1>1, <1>5, <1>6 DEF Owned
  <2>6. \A e \in Blocks : ctx'[e] # NULL /\ ctx'[e].listening /\ queue'[e] = NULL =>
          \E a \in Apps : pc'[a] = "free" /\ On(a, e)'
    BY <1>1, <1>6, <2>1 DEF Owned
  <2> QED  BY <1>2, <2>4, <2>5, <2>6 DEF Owned
<1>20. Slots'
  <2>1. ASSUME NEW e \in Blocks, NEW x \in Sds, x # sd, Pending(e, x) PROVE Pending(e, x)'
    <3>1. global_ctx[x] \in Blocks
      BY <2>1, PendingLoose
    <3>2. \A a \in Apps : x \notin held'[a]
      BY <1>2, <2>1 DEF Pending
    <3> QED  BY <1>1, <1>4, <2>1, <3>1, <3>2 DEF Pending
  <2> QED  BY <1>11, <2>1 DEF Slots
<1>21. Completions'
  <2>1. SUFFICES ASSUME NEW e \in Blocks, queue[e] # NULL
                 PROVE  /\ \A i \in DOMAIN queue'[e].completed :
                             /\ \E j \in Nat : Holds(e, j, queue[e].completed[i])'
                             /\ tr[global_ctx[queue'[e].completed[i]]] # "handshake"
                        /\ \A i, j \in DOMAIN queue'[e].completed :
                             queue'[e].completed[i] = queue'[e].completed[j] => i = j
    BY <1>1, <1>6 DEF Completions
  <2>2. /\ \A i \in DOMAIN queue[e].completed :
             /\ \E j \in Nat : Holds(e, j, queue[e].completed[i])
             /\ tr[global_ctx[queue[e].completed[i]]] # "handshake"
        /\ \A i, j \in DOMAIN queue[e].completed :
             queue[e].completed[i] = queue[e].completed[j] => i = j
    BY <1>2, <2>1 DEF Completions
  <2>3. CASE e # c
    BY <1>2, <2>2, <2>3 DEF Holds
  <2>4. CASE e = c
    <3>1. PICK s \in Seq(Sds) : s = queue[c].completed /\ s # <<>>
      BY <1>2, SlotFacts
    <3>2. queue'[c].completed = Tail(s) /\ sd = s[1]
      BY <1>2, <3>1
    <3>3. 1 \in DOMAIN s /\ \A i \in DOMAIN Tail(s) : i + 1 \in DOMAIN s /\ i + 1 # 1 /\ Tail(s)[i] = s[i + 1]
      BY <3>1
    <3>4. \A i, j \in DOMAIN Tail(s) : Tail(s)[i] = Tail(s)[j] => i = j
      BY <2>2, <2>4, <3>1, <3>3
    <3>5. ASSUME NEW i \in DOMAIN Tail(s)
          PROVE  /\ Tail(s)[i] # sd /\ tr[global_ctx[Tail(s)[i]]] # "handshake"
                 /\ \E j \in Nat : Holds(c, j, Tail(s)[i])
      BY <2>2, <2>4, <3>1, <3>2, <3>3
    <3>6. ASSUME NEW i \in DOMAIN Tail(s)
          PROVE  \E j \in Nat : Holds(c, j, queue[c].completed[i])'
      <4>1. PICK x \in Sds, j \in Nat : x = Tail(s)[i] /\ Holds(c, j, x)
        BY <3>1, <3>3, <3>5
      <4>2. Holds(c, j, x)'
        BY <1>10, <3>5, <4>1
      <4> QED  BY <3>2, <4>1, <4>2 DEF Holds
    <3> QED  BY <2>4, <3>2, <3>4, <3>5, <3>6
  <2> QED  BY <2>3, <2>4
<1>22. Transports'
  <2>1. ASSUME NEW e \in Blocks, tr[e] = "handshake", ~ctx[e].is_active PROVE Reports(e)'
    <3>1. PICK l \in Blocks, j \in Nat :
             Holds(l, j, ctx[e].my_sd) /\ ctx[e].listen_sd = ctx[l].my_sd
      BY <2>1 DEF Transports, Reports
    <3>2. ctx[e].my_sd # sd
      BY <1>2, <2>1, TableFacts DEF Transports
    <3>3. PICK x : x = ctx[e].my_sd
      OBVIOUS
    <3>4. Holds(l, j, x)'
      BY <1>10, <3>1, <3>2, <3>3
    <3>5. Holds(l, j, ctx[e].my_sd)'
      BY <1>1, <3>3, <3>4 DEF Holds
    <3> QED  BY <1>1, <1>9, <3>1, <3>5 DEF Reports
  <2>2. \A a \in Apps, e \in Blocks : pc[a] = "connect" /\ On(a, e) => pc'[a] = "connect" /\ On(a, e)'
    BY <1>1, <1>3, <1>4, ThreadFacts
  <2> QED  BY <1>1, <1>5, <2>1, <2>2 DEF Transports
<1>23. ASSUME NEW e \in Blocks, ctx'[e] # NULL PROVE Closable(e)'
  <2>1. ctx[e] # NULL /\ Closable(e)
    BY <1>1, <1>23
  <2>2. CASE \E u \in Threads : On(u, e)
    <3>1. PICK u \in Threads : On(u, e)
      BY <2>2
    <3>2. CASE u = t
      BY <1>1, <1>2, <1>4, <3>1, <3>2 DEF Closable
    <3>3. CASE u # t
      BY <1>4, <3>1, <3>3 DEF Closable
    <3> QED  BY <3>2, <3>3
  <2>3. CASE (\A u \in Threads : ~On(u, e)) /\ ctx[e].my_sd = sd
    <3>1. Entered(e)
      BY <2>1, <2>3 DEF Table
    <3>2. e = d
      BY <1>2, <2>3, <3>1 DEF Entered
    <3> QED  BY <1>1, <1>2, <3>2 DEF Closable, Unaccepted
  <2>4. CASE (\A u \in Threads : ~On(u, e)) /\ ctx[e].my_sd # sd
    <3>1. (\E l \in Blocks, j \in Nat : Waiting(l, j, ctx[e].my_sd)) =>
            \E l \in Blocks, j \in Nat : Waiting(l, j, ctx[e].my_sd)'
      <4>1. SUFFICES ASSUME NEW l \in Blocks, NEW j \in Nat, Waiting(l, j, ctx[e].my_sd)
                     PROVE  Waiting(l, j, ctx[e].my_sd)'
        OBVIOUS
      <4>2. PICK x : x = ctx[e].my_sd
        OBVIOUS
      <4>3. Holds(l, j, x)'
        BY <1>10, <2>4, <4>1, <4>2 DEF Waiting
      <4>4. Holds(l, j, ctx[e].my_sd)'
        BY <1>1, <4>2, <4>3 DEF Holds
      <4> QED  BY <1>9, <4>4 DEF Waiting
    <3>2. \A a \in Apps : held[a] \subseteq held'[a]
      BY <1>2
    <3> QED  BY <1>1, <2>1, <2>4, <3>1, <3>2 DEF Closable, Unaccepted
  <2> QED  BY <2>2, <2>3, <2>4
<1> QED  BY <1>12, <1>13, <1>14, <1>15, <1>16, <1>17, <1>18, <1>19, <1>20, <1>21, <1>22, <1>23 DEF Ownership

\* What the end of _mysock_enqueue_connection does to contexts and queue when c
\* passes its socket on to n, whose descriptor sd it enters into slot j.
Passed(c, n, sd, j) ==
  /\ c # n /\ cur[c] = <<n>> /\ Blank(n) /\ Entered(n) /\ Entered(c)
  /\ sd = k[c] /\ n = global_ctx[sd] /\ ctx[n] # NULL /\ ctx[n].my_sd = sd /\ ctx[c] # NULL
  /\ queue[c] # NULL /\ j = slot[c] /\ j \in DOMAIN queue[c].slots /\ queue[c].slots[j] = -1
  /\ \A d \in Blocks : d # c /\ d # n => ctx'[d] = ctx[d]
  /\ ctx'[c] # NULL /\ ctx'[n] # NULL /\ ctx[c].recv_thread_started
  /\ \A d \in Blocks : ctx[d] # NULL =>
       /\ ctx'[d].my_sd = ctx[d].my_sd /\ ctx'[d].listening = ctx[d].listening
       /\ ctx'[d].is_active = ctx[d].is_active /\ ctx'[d].stcp_errno = ctx[d].stcp_errno
       /\ d # n => /\ ctx'[d].listen_sd = ctx[d].listen_sd
                   /\ ctx'[d].recv_thread_started = ctx[d].recv_thread_started
  /\ ctx'[n].listen_sd = ctx[c].my_sd
  /\ tr' = [tr EXCEPT ![n] = "handshake"]
  /\ pc' = [pc EXCEPT ![c] = "poll", ![n] = "poll"]
  /\ queue' \in [Blocks -> Queues \cup {NULL}] /\ \A e \in Blocks : e # c => queue'[e] = queue[e]
  /\ queue'[c] \in Queues /\ queue'[c].completed = queue[c].completed
  /\ DOMAIN queue'[c].slots = DOMAIN queue[c].slots
  /\ \A i \in DOMAIN queue[c].slots : queue'[c].slots[i] = IF i = j THEN sd ELSE queue[c].slots[i]
  /\ \A u \in Threads : u # c => slot'[u] = slot[u]

\* Pass does it, for the context and the slot that the listener has in hand.
LEMMA PassFacts ==
  ASSUME TypeOK, Receiving, SocketsOwned, DOMAIN slot = Threads, Ownership, NEW c \in Blocks, Pass(c)
  PROVE  \E n \in Blocks, sd \in Sds, j \in Nat : Passed(c, n, sd, j)
<1> USE OwnershipParts
<1>1. /\ pc[c] = "pass" /\ ctx[c] # NULL /\ c \in Threads /\ k[c] \in Sds
      /\ ctx' = PassSocket(Context(k[c]), c) /\ open' = open \ {ctx[Context(k[c])].socket}
      /\ tr' = [tr EXCEPT ![Context(k[c])] = "handshake"]
      /\ pc' = [pc EXCEPT ![c] = "poll", ![Context(k[c])] = "poll"]
      /\ queue' = [queue EXCEPT ![QueueOf(c)].slots[slot[c]] = k[c]]
      /\ slot' = [slot EXCEPT ![c] = 0]
  BY ThreadFacts DEF Pass, TypeOK
<1>2. PICK n \in Blocks : cur[c] = <<n>> /\ Blank(n) /\ Entered(n) /\ ctx[n].my_sd = k[c]
  BY <1>1 DEF Listener
<1>3. PICK sd \in Sds : sd = k[c]
  BY <1>1
<1>4. n = global_ctx[sd] /\ ctx[n] # NULL /\ ctx[n].my_sd = sd /\ Context(sd) = n /\ c # n
  BY <1>1, <1>2, <1>3 DEF Entered, Context, Blank
<1>5. Entered(c) /\ queue[c] # NULL /\ slot[c] \in DOMAIN queue[c].slots /\ queue[c].slots[slot[c]] = -1
  BY <1>1 DEF Listener
<1>6. QueueOf(c) = c
  BY <1>5, QueueFacts
<1>7. queue[c] \in Queues /\ queue[c].slots \in Seq(Sds \cup {-1}) /\ queue \in [Blocks -> Queues \cup {NULL}]
  BY <1>5, SlotFacts DEF Owned
<1>8. PICK j \in Nat : j = slot[c] /\ j \in DOMAIN queue[c].slots
  BY <1>5, SlotFacts
<1>9. ctx[c].new_socket # -1 /\ ctx[c].recv_thread_started
  BY <1>1 DEF Receiving
<1>10. /\ ctx'[c] = [ctx[c] EXCEPT !.new_socket = -1]
       /\ ctx'[n] = [ctx[n] EXCEPT !.socket = ctx[c].new_socket,
                                   !.listen_sd = ctx[c].my_sd, !.recv_thread_started = TRUE]
       /\ \A d \in Blocks : d # c /\ d # n => ctx'[d] = ctx[d]
       /\ ctx'[c] # NULL /\ ctx'[n] # NULL
  <2>1. ctx' = PassSocket(n, c) /\ open' = open \ {ctx[n].socket}
    BY <1>1, <1>3, <1>4
  <2>2. c # n /\ ctx[c] # NULL /\ ctx[n] # NULL /\ ctx[c].new_socket # -1
    BY <1>1, <1>4, <1>9
  <2> QED  BY <2>1, <2>2, SocketPassed
<1>11. ctx[c] \in Contexts /\ ctx[n] \in Contexts
  BY <1>1, <1>4, LiveFacts
<1>12. /\ ctx'[c].my_sd = ctx[c].my_sd /\ ctx'[c].listening = ctx[c].listening
       /\ ctx'[c].is_active = ctx[c].is_active /\ ctx'[c].stcp_errno = ctx[c].stcp_errno
       /\ ctx'[c].listen_sd = ctx[c].listen_sd
       /\ ctx'[c].recv_thread_started = ctx[c].recv_thread_started
  BY <1>10, <1>11 DEF Contexts
<1>13. /\ ctx'[n].my_sd = ctx[n].my_sd /\ ctx'[n].listening = ctx[n].listening
       /\ ctx'[n].is_active = ctx[n].is_active /\ ctx'[n].stcp_errno = ctx[n].stcp_errno
       /\ ctx'[n].listen_sd = ctx[c].my_sd
  BY <1>10, <1>11 DEF Contexts
<1>14. \A d \in Blocks : ctx[d] # NULL =>
         /\ ctx'[d].my_sd = ctx[d].my_sd /\ ctx'[d].listening = ctx[d].listening
         /\ ctx'[d].is_active = ctx[d].is_active /\ ctx'[d].stcp_errno = ctx[d].stcp_errno
         /\ d # n => /\ ctx'[d].listen_sd = ctx[d].listen_sd
                     /\ ctx'[d].recv_thread_started = ctx[d].recv_thread_started
  BY <1>10, <1>12, <1>13
<1> DEFINE z == [queue[c].slots EXCEPT ![j] = sd]
<1>15. queue' = [queue EXCEPT ![c].slots = z]
  BY <1>1, <1>3, <1>6, <1>7, <1>8
<1>16. /\ z \in Seq(Sds \cup {-1}) /\ DOMAIN z = DOMAIN queue[c].slots
       /\ \A i \in DOMAIN z : z[i] = IF i = j THEN sd ELSE queue[c].slots[i]
  <2>1. PICK s \in Seq(Sds \cup {-1}) : s = queue[c].slots
    BY <1>7
  <2>2. [s EXCEPT ![j] = sd] \in Seq(Sds \cup {-1})
    BY <1>8, <2>1
  <2> QED  BY <1>8, <2>1, <2>2
<1> HIDE DEF z
<1>17. PICK r \in Queues : /\ r = [queue[c] EXCEPT !.slots = z]
                           /\ r.completed = queue[c].completed /\ r.slots = z
  <2>1. PICK q \in Queues : q = queue[c]
    BY <1>7
  <2>2. /\ [q EXCEPT !.slots = z] \in Queues
        /\ [q EXCEPT !.slots = z].completed = q.completed
        /\ [q EXCEPT !.slots = z].slots = z
    BY <1>16 DEF Queues
  <2> QED  BY <2>1, <2>2
<1>18. /\ queue' \in [Blocks -> Queues \cup {NULL}] /\ queue'[c] = r
       /\ \A e \in Blocks : e # c => queue'[e] = queue[e]
  BY <1>7, <1>15, <1>17
<1>19. /\ queue'[c] \in Queues /\ queue'[c].completed = queue[c].completed
       /\ DOMAIN queue'[c].slots = DOMAIN queue[c].slots
       /\ \A i \in DOMAIN queue[c].slots : queue'[c].slots[i] = IF i = j THEN sd ELSE queue[c].slots[i]
  BY <1>16, <1>17, <1>18
<1>20. \A u \in Threads : u # c => slot'[u] = slot[u]
  BY <1>1
<1>21. tr' = [tr EXCEPT ![n] = "handshake"] /\ pc' = [pc EXCEPT ![c] = "poll", ![n] = "poll"]
  BY <1>1, <1>3, <1>4
<1>22. ctx'[c] # NULL /\ ctx'[n] # NULL /\ \A d \in Blocks : d # c /\ d # n => ctx'[d] = ctx[d]
  BY <1>10
<1>23. queue[c].slots[j] = -1 /\ j = slot[c]
  BY <1>5, <1>8
<1>24. ctx[c] # NULL /\ cur[c] = <<n>> /\ Blank(n) /\ Entered(n)
  BY <1>1, <1>2
<1>25. /\ sd = k[c] /\ n = global_ctx[sd] /\ c # n /\ ctx[n] # NULL /\ ctx[n].my_sd = sd
       /\ Entered(c) /\ queue[c] # NULL /\ j \in DOMAIN queue[c].slots
       /\ ctx[c].recv_thread_started /\ ctx'[n].listen_sd = ctx[c].my_sd
  BY <1>3, <1>4, <1>5, <1>8, <1>9, <1>13
<1>26. Passed(c, n, sd, j)
  BY <1>14, <1>18, <1>19, <1>20, <1>21, <1>22, <1>23, <1>24, <1>25 DEF Passed
<1> QED  BY <1>26

LEMMA OwnPass ==
  ASSUME TypeOK, TypeOK', Receiving, SocketsOwned, DOMAIN slot = Threads, Ownership,
         NEW c \in Blocks, Pass(c)
  PROVE  Ownership'
<1> USE OwnershipParts
<1>1. /\ pc[c] = "pass" /\ c \in Threads
      /\ cur' = [cur EXCEPT ![c] = <<>>] /\ k' = [k EXCEPT ![c] = 0]
      /\ global_ctx' = global_ctx /\ listen_table' = listen_table /\ writer' = writer /\ held' = held
  BY ThreadFacts DEF Pass
<1>0. PICK n \in Blocks, sd \in Sds, j \in Nat : Passed(c, n, sd, j)
  BY PassFacts
<1>2. /\ c # n /\ cur[c] = <<n>> /\ Blank(n) /\ Entered(n) /\ Entered(c)
      /\ sd = k[c] /\ n = global_ctx[sd] /\ ctx[n] # NULL /\ ctx[n].my_sd = sd /\ ctx[c] # NULL
      /\ queue[c] # NULL /\ j = slot[c] /\ j \in DOMAIN queue[c].slots /\ queue[c].slots[j] = -1
      /\ \A d \in Blocks : d # c /\ d # n => ctx'[d] = ctx[d]
      /\ ctx'[c] # NULL /\ ctx'[n] # NULL /\ ctx[c].recv_thread_started
      /\ \A d \in Blocks : ctx[d] # NULL =>
           /\ ctx'[d].my_sd = ctx[d].my_sd /\ ctx'[d].listening = ctx[d].listening
           /\ ctx'[d].is_active = ctx[d].is_active /\ ctx'[d].stcp_errno = ctx[d].stcp_errno
           /\ d # n => /\ ctx'[d].listen_sd = ctx[d].listen_sd
                       /\ ctx'[d].recv_thread_started = ctx[d].recv_thread_started
      /\ ctx'[n].listen_sd = ctx[c].my_sd
      /\ tr' = [tr EXCEPT ![n] = "handshake"]
      /\ pc' = [pc EXCEPT ![c] = "poll", ![n] = "poll"]
      /\ queue' \in [Blocks -> Queues \cup {NULL}] /\ \A e \in Blocks : e # c => queue'[e] = queue[e]
      /\ queue'[c] \in Queues /\ queue'[c].completed = queue[c].completed
      /\ DOMAIN queue'[c].slots = DOMAIN queue[c].slots
      /\ \A i \in DOMAIN queue[c].slots : queue'[c].slots[i] = IF i = j THEN sd ELSE queue[c].slots[i]
      /\ \A u \in Threads : u # c => slot'[u] = slot[u]
  BY <1>0 DEF Passed
<1>3. /\ pc'[c] = "poll" /\ pc'[n] = "poll" /\ \A u \in Threads : u # c /\ u # n => pc'[u] = pc[u]
      /\ pc[n] \in {"none", "done"} /\ \A a \in Apps : pc'[a] = pc[a]
  BY <1>1, <1>2, ThreadFacts DEF TypeOK, Blank
<1>4. cur'[c] = <<>> /\ \A u \in Threads : u # c => cur'[u] = cur[u] /\ k'[u] = k[u]
  BY <1>1, Stacks
<1>5. tr'[n] = "handshake" /\ \A d \in Blocks : d # n => tr'[d] = tr[d]
  BY <1>2 DEF TypeOK
<1>6. writer = NULL
  BY <1>1 DEF Locked, Readers
<1>7. /\ \A e \in Blocks : (On(c, e) <=> e = n) /\ ~On(c, e)'
      /\ \A u \in Threads, e \in Blocks : u # c => On(u, e)' = On(u, e)
      /\ \A u \in Threads : u # c => ~On(u, n)
      /\ \A u \in Threads, e \in Blocks : On(u, e)' => u # c /\ On(u, e) /\ e # n
  <2>1. \A e \in Blocks : (On(c, e) <=> e = n) /\ ~On(c, e)'
    BY <1>2, <1>4, StackMembers, StackMembersNext
  <2>2. \A u \in Threads, e \in Blocks : u # c => On(u, e)' = On(u, e)
    BY <1>4 DEF On
  <2>3. \A u \in Threads : u # c => ~On(u, n)
    BY <1>1, <2>1 DEF Exclusive
  <2> QED  BY <2>1, <2>2, <2>3
<1>8. \A a \in Apps : sd \notin held[a]
  BY <1>1, <1>2, <1>7, ThreadFacts DEF Exclusive
<1>9. \A e \in Blocks : Entered(e)' = Entered(e)
  BY <1>1, <1>2 DEF Entered
<1>10. \A e \in Blocks : (queue'[e] = NULL) = (queue[e] = NULL)
  BY <1>2, SdsFacts
<1>11. \A e \in Blocks : e # n => Still(e)
  <2>1. \A e \in Blocks : e # n /\ pc[e] \in {"none", "done"} => pc'[e] \in {"none", "done"}
    BY <1>1, <1>3, ThreadFacts
  <2> QED  BY <1>2, <1>5, <1>9, <1>10, <2>1 DEF Still
<1>12. \A u \in Threads : Creating(u)' = Creating(u)
  BY <1>1, <1>3 DEF Creating
<1>13. \A a \in Apps : Closing(a)' = Closing(a)
  BY <1>3 DEF Closing
<1>14. \A e, i : ~Scanned(e, i) /\ ~Scanned(e, i)'
  BY <1>1, <1>6 DEF Scanned
<1>15. \A e \in Blocks, i \in Nat : ~Holds(e, i, sd)
  <2>1. SUFFICES ASSUME NEW e \in Blocks, NEW i \in Nat, Holds(e, i, sd) PROVE FALSE
    OBVIOUS
  <2>2. Pending(e, sd)
    BY <1>14, <2>1 DEF Waiting, Slots
  <2> QED  BY <1>1, <1>2, <1>7, <2>2 DEF Pending
<1>16. /\ \A e \in Blocks : \A i, x : Holds(e, i, x) => Holds(e, i, x)'
       /\ \A e \in Blocks : \A i, x : Holds(e, i, x)' => Holds(e, i, x) \/ (e = c /\ i = j /\ x = sd)
       /\ Holds(c, j, sd)'
  <2>1. sd # -1
    BY SdsFacts
  <2>2. \A i, x : Holds(c, i, x)' <=> Holds(c, i, x) \/ (i = j /\ x = sd)
    BY <1>2, <1>10, <2>1 DEF Holds
  <2>3. \A e \in Blocks : \A i, x : e # c => Holds(e, i, x)' = Holds(e, i, x)
    BY <1>2 DEF Holds
  <2> QED  BY <2>2, <2>3
<1>17. \A x \in Sds : global_ctx[x] = n => x = sd
  BY <1>2, TableFacts, SdsFacts
<1>18. Table'
  <2>1. ASSUME NEW u \in Threads, Creating(u)'
        PROVE  \E e \in Blocks : cur'[u] = <<e>> /\ Blank(e)' /\ ~Entered(e)'
    <3>1. PICK e \in Blocks : cur[u] = <<e>> /\ Blank(e) /\ ~Entered(e)
      BY <1>12, <2>1 DEF Table
    <3>2. u # c
      BY <1>3, <2>1 DEF Creating
    <3> QED  BY <1>2, <1>4, <1>9, <1>11, <3>1, <3>2, StillBlank
  <2>2. \A u \in Threads, e \in Blocks : Creating(u) /\ On(u, e) => Creating(u)' /\ On(u, e)'
    BY <1>1, <1>7, <1>12 DEF Creating
  <2>3. \A x \in Sds : global_ctx'[x] # NULL => ctx'[global_ctx'[x]] # NULL /\ ctx'[global_ctx'[x]].my_sd = x
    <3>1. ASSUME NEW x \in Sds, global_ctx[x] # NULL
          PROVE  ctx'[global_ctx[x]] # NULL /\ ctx'[global_ctx[x]].my_sd = x
      <4>1. PICK e \in Blocks : e = global_ctx[x] /\ ctx[e] # NULL /\ ctx[e].my_sd = x
        BY <3>1, TableFacts
      <4> QED  BY <1>2, <4>1
    <3> QED  BY <1>1, <3>1
  <2>4. \A e \in Blocks : ctx'[e] # NULL => ctx[e] # NULL
    BY <1>2
  <2> QED  BY <1>9, <2>1, <2>2, <2>3, <2>4 DEF Table
<1>19. Exclusive'
  <2>1. \A u, v \in Threads : \A e \in Blocks : On(u, e)' /\ On(v, e)' => u = v
    BY <1>7 DEF Exclusive
  <2>2. ASSUME NEW a \in Apps, NEW x \in held[a], NEW u \in Threads, On(u, global_ctx[x])'
        PROVE  u = a /\ pc'[a] \in {"connect", "accept"}
    <3>1. PICK e \in Blocks : e = global_ctx[x]
      BY TableFacts DEF Exclusive, TypeOK
    <3>2. On(u, e)'
      BY <1>1, <2>2, <3>1 DEF On
    <3>3. On(u, e)
      BY <1>7, <3>2
    <3> QED  BY <1>3, <3>1, <3>3 DEF Exclusive
  <2> QED  BY <1>1, <2>1, <2>2 DEF Exclusive
<1>20. ASSUME NEW a \in Apps PROVE Calling(a)' /\ Stack(a)'
  <2>1. a \in Threads /\ a # c
    BY ThreadFacts
  <2>2. \A d \in Blocks : On(a, d) => Still(d)
    BY <1>7, <1>11, <2>1
  <2> QED  BY <1>1, <1>3, <1>4, <2>1, <2>2, AppFrame
<1>21. ASSUME NEW e \in Blocks PROVE Listener(e)'
  <2>1. CASE e = c
    BY <1>2, <1>3, <1>4, <1>9, <2>1 DEF Listener
  <2>2. CASE e = n
    <3>1. cur'[n] = <<>>
      BY <1>2, <1>3, <1>4, ThreadFacts DEF Listener
    <3> QED  BY <1>2, <1>3, <1>9, <2>2, <3>1 DEF Listener
  <2>3. CASE e # c /\ e # n
    <3>1. /\ pc'[e] = pc[e] /\ cur'[e] = cur[e] /\ k'[e] = k[e] /\ slot'[e] = slot[e]
          /\ \A d \in Blocks : On(e, d) => Still(d)
      <4>1. e \in Threads
        BY ThreadFacts
      <4>2. \A d \in Blocks : On(e, d) => d # n
        BY <1>7, <2>3, <4>1
      <4>3. slot'[e] = slot[e]
        BY <1>2, <2>3, <4>1
      <4> QED  BY <1>3, <1>4, <1>11, <2>3, <4>1, <4>2, <4>3
    <3>2. pc[e] \in {"scan", "store", "pass"} =>
            slot[e] \in DOMAIN queue'[e].slots /\ queue'[e].slots[slot[e]] = -1
      BY <1>2, <2>3 DEF Listener
    <3> QED  BY <1>11, <2>3, <3>1, <3>2, ListenerFrame
  <2> QED  BY <2>1, <2>2, <2>3
<1>22. Locked'
  BY <1>1, <1>6 DEF Locked
<1>23. Hashed'
  BY <1>1, <1>10, HashedKept
<1>24. Owned'
  <2>1. \A a \in Apps, e \in Blocks : On(a, e)' = On(a, e)
    BY <1>7, ThreadFacts
  <2>2. ASSUME NEW e \in Blocks, queue'[e] # NULL
        PROVE  \/ ctx'[e].recv_thread_started
               \/ \E a \in Apps : Closing(a)' /\ On(a, e)'
               \/ /\ queue'[e].completed = <<>>
                  /\ \A i \in DOMAIN queue'[e].slots : queue'[e].slots[i] = -1
    <3>1. CASE e = c
      BY <1>2, <3>1
    <3>2. CASE e # c
      <4>1. queue'[e] = queue[e] /\ queue[e] # NULL /\ ctx[e] # NULL /\ e # n
        BY <1>2, <2>2, <3>2 DEF Owned, Entered, Blank
      <4>2. \/ ctx[e].recv_thread_started
            \/ \E a \in Apps : Closing(a) /\ On(a, e)
            \/ queue[e].completed = <<>> /\ \A i \in DOMAIN queue[e].slots : queue[e].slots[i] = -1
        BY <4>1 DEF Owned
      <4>3. ctx'[e].recv_thread_started = ctx[e].recv_thread_started
        BY <1>2, <4>1
      <4> QED  BY <1>13, <2>1, <4>1, <4>2, <4>3
    <3> QED  BY <3>1, <3>2
  <2>3. \A e \in Blocks : queue'[e] # NULL => Entered(e)' /\ ctx'[e].listening
    <3>1. \A e \in Blocks : queue[e] # NULL => Entered(e) /\ ctx[e] # NULL /\ ctx[e].listening
      BY DEF Owned, Entered
    <3> QED  BY <1>2, <1>9, <1>10, <3>1
  <2>4. ASSUME NEW e \in Blocks, ctx'[e] # NULL, ctx'[e].listening, queue'[e] = NULL
        PROVE  \E a \in Apps : pc'[a] = "free" /\ On(a, e)'
    <3>1. ctx[e] # NULL /\ ctx[e].listening /\ queue[e] = NULL
      BY <1>2, <1>10, <2>4
    <3> QED  BY <1>3, <2>1, <3>1 DEF Owned
  <2> QED  BY <1>2, <2>2, <2>3, <2>4 DEF Owned
<1>25. Slots'
  <2>1. ASSUME NEW e \in Blocks, NEW x \in Sds, x # sd, queue[e] # NULL, Pending(e, x) PROVE Pending(e, x)'
    <3>1. PICK d \in Blocks : d = global_ctx[x] /\ ctx[d] # NULL
      BY <2>1, PendingLoose
    <3>2. d # n /\ ctx[e] # NULL
      BY <1>17, <2>1, <3>1 DEF Owned, Entered
    <3>3. /\ ctx'[d].listen_sd = ctx[d].listen_sd /\ ctx'[d].listening = ctx[d].listening
          /\ ctx'[d].is_active = ctx[d].is_active /\ tr'[d] = tr[d] /\ ctx'[e].my_sd = ctx[e].my_sd
      BY <1>2, <1>5, <3>1, <3>2
    <3>4. \A u \in Threads : ~On(u, d)'
      BY <1>7, <2>1, <3>1 DEF Pending
    <3>5. \A u \in Threads : ~On(u, global_ctx[x])'
      BY <1>1, <3>1, <3>4 DEF On
    <3> QED  BY <1>1, <2>1, <3>1, <3>3, <3>5 DEF Pending
  <2>2. Pending(c, sd)'
    <3>1. \A u \in Threads : ~On(u, global_ctx[sd])'
      BY <1>1, <1>2, <1>7 DEF On
    <3> QED  BY <1>1, <1>2, <1>5, <1>8, <3>1, SdsFacts DEF Pending, Blank
  <2>3. \A e \in Blocks : \A i, x : (Waiting(e, i, x) <=> Holds(e, i, x)) /\ (Waiting(e, i, x)' <=> Holds(e, i, x)')
    BY <1>14 DEF Waiting
  <2>4. \A e \in Blocks, i \in Nat, x \in Sds : Holds(e, i, x) => x # sd /\ queue[e] # NULL /\ Pending(e, x)
    <3>1. \A e \in Blocks : \A i, x : Holds(e, i, x) => queue[e] # NULL
      BY DEF Holds
    <3> QED  BY <1>15, <2>3, <3>1 DEF Slots
  <2>5. \A e \in Blocks, i \in Nat, x \in Sds : Holds(e, i, x)' => Pending(e, x)'
    BY <1>16, <2>1, <2>2, <2>4
  <2>6. \A e, d \in Blocks, i, h \in Nat, x \in Sds :
          Holds(e, i, x)' /\ Holds(d, h, x)' => e = d /\ i = h
    <3>1. \A e, d \in Blocks, i, h \in Nat, x \in Sds : Holds(e, i, x) /\ Holds(d, h, x) => e = d /\ i = h
      BY <2>3 DEF Slots
    <3> QED  BY <1>15, <1>16, <3>1
  <2> QED  BY <2>3, <2>5, <2>6 DEF Slots
<1>26. Completions'
  <2>1. SUFFICES ASSUME NEW e \in Blocks, queue[e] # NULL
                 PROVE  /\ \A i \in DOMAIN queue[e].completed :
                             /\ \E h \in Nat : Holds(e, h, queue[e].completed[i])'
                             /\ tr'[global_ctx[queue[e].completed[i]]] # "handshake"
                        /\ \A i, h \in DOMAIN queue[e].completed :
                             queue[e].completed[i] = queue[e].completed[h] => i = h
    <3>1. \A e \in Blocks : queue'[e] # NULL => queue[e] # NULL /\ queue'[e].completed = queue[e].completed
      BY <1>2, <1>10
    <3> QED  BY <1>1, <3>1 DEF Completions
  <2>2. /\ \A i \in DOMAIN queue[e].completed :
             /\ \E h \in Nat : Holds(e, h, queue[e].completed[i])
             /\ tr[global_ctx[queue[e].completed[i]]] # "handshake"
        /\ \A i, h \in DOMAIN queue[e].completed :
             queue[e].completed[i] = queue[e].completed[h] => i = h
    BY <1>6, <2>1 DEF Completions
  <2>3. ASSUME NEW i \in DOMAIN queue[e].completed
        PROVE  /\ \E h \in Nat : Holds(e, h, queue[e].completed[i])'
               /\ tr'[global_ctx[queue[e].completed[i]]] # "handshake"
    <3>1. PICK x \in Sds : x = queue[e].completed[i]
      BY <2>1, SlotFacts
    <3>2. PICK h \in Nat : Holds(e, h, x)
      BY <2>2, <3>1
    <3>3. Pending(e, x) /\ x # sd
      BY <1>14, <1>15, <3>2 DEF Waiting, Slots
    <3>4. PICK d \in Blocks : d = global_ctx[x]
      BY <3>3, PendingLoose
    <3>5. tr'[d] # "handshake"
      BY <1>5, <1>17, <2>2, <3>1, <3>3, <3>4
    <3>6. Holds(e, h, x)'
      BY <1>16, <3>2
    <3>7. queue'[e].completed = queue[e].completed
      BY <1>2
    <3> QED  BY <3>1, <3>4, <3>5, <3>6, <3>7 DEF Holds
  <2> QED  BY <2>2, <2>3
<1>27. Transports'
  <2>1. \A e \in Blocks : tr'[e] # "none" => Entered(e)'
    BY <1>2, <1>5, <1>9 DEF Transports
  <2>2. ASSUME NEW e \in Blocks, tr'[e] = "handshake", ~ctx'[e].is_active PROVE Reports(e)'
    <3>1. CASE e = n
      <4>1. Holds(c, j, ctx[n].my_sd)'
        BY <1>2, <1>16 DEF Holds
      <4> QED  BY <1>2, <1>14, <3>1, <4>1 DEF Reports
    <3>2. CASE e # n
      <4>1. tr[e] = "handshake" /\ ctx[e] # NULL
        BY <1>5, <2>2, <3>2 DEF Transports, Entered
      <4>2. ~ctx[e].is_active
        BY <1>2, <2>2, <4>1
      <4>3. PICK l \in Blocks, i \in Nat :
               Holds(l, i, ctx[e].my_sd) /\ ctx[e].listen_sd = ctx[l].my_sd
        BY <4>1, <4>2 DEF Transports, Reports
      <4>4. PICK x : x = ctx[e].my_sd
        OBVIOUS
      <4>5. Holds(l, i, x)' /\ ctx[l] # NULL
        BY <1>16, <4>3, <4>4 DEF Holds, Owned, Entered
      <4>6. ctx'[e].my_sd = x /\ ctx'[e].listen_sd = ctx'[l].my_sd
        BY <1>2, <3>2, <4>1, <4>3, <4>4, <4>5
      <4>7. Holds(l, i, ctx[e].my_sd)'
        BY <4>5, <4>6 DEF Holds
      <4> QED  BY <1>14, <4>6, <4>7 DEF Reports
    <3> QED  BY <3>1, <3>2
  <2>3. ASSUME NEW e \in Blocks, tr'[e] = "handshake", ctx'[e].is_active
        PROVE  \E a \in Apps : pc'[a] = "connect" /\ On(a, e)'
    <3>1. e # n
      BY <1>2, <2>3 DEF Blank
    <3>2. tr[e] = "handshake" /\ ctx[e] # NULL
      BY <1>5, <2>3, <3>1 DEF Transports, Entered
    <3>3. PICK a \in Apps : pc[a] = "connect" /\ On(a, e)
      BY <1>2, <2>3, <3>2 DEF Transports
    <3> QED  BY <1>3, <1>7, <3>3, ThreadFacts
  <2> QED  BY <2>1, <2>2, <2>3 DEF Transports
<1>28. ASSUME NEW e \in Blocks, ctx'[e] # NULL PROVE Closable(e)'
  <2>1. CASE e = n
    <3>1. Holds(c, j, ctx[n].my_sd)'
      BY <1>2, <1>16 DEF Holds
    <3>2. Waiting(c, j, ctx[n].my_sd)'
      BY <1>14, <3>1 DEF Waiting
    <3> QED  BY <2>1, <3>2 DEF Closable
  <2>2. CASE e # n
    <3>1. ctx[e] # NULL /\ Closable(e)
      BY <1>2, <1>28
    <3>2. ctx'[e].my_sd = ctx[e].my_sd /\ (Unaccepted(e) => Unaccepted(e)')
      BY <1>2, <2>2, <3>1 DEF Unaccepted
    <3>3. CASE \E u \in Threads : On(u, e)
      BY <1>7, <2>2, <3>3 DEF Closable
    <3>4. CASE \E l \in Blocks, i \in Nat : Waiting(l, i, ctx[e].my_sd)
      <4>1. PICK x : x = ctx[e].my_sd /\ \E l \in Blocks, i \in Nat : Waiting(l, i, x)
        BY <3>4
      <4>2. PICK l \in Blocks, i \in Nat : Waiting(l, i, x)
        BY <4>1
      <4>3. Holds(l, i, x)'
        BY <1>16, <4>2 DEF Waiting
      <4>4. Holds(l, i, ctx[e].my_sd)'
        BY <3>2, <4>1, <4>3 DEF Holds
      <4>5. Waiting(l, i, ctx[e].my_sd)'
        BY <1>14, <4>4 DEF Waiting
      <4> QED  BY <4>5 DEF Closable
    <3> QED  BY <1>1, <3>1, <3>2, <3>3, <3>4 DEF Closable
  <2> QED  BY <2>1, <2>2
<1> QED  BY <1>18, <1>19, <1>20, <1>21, <1>22, <1>23, <1>24, <1>25, <1>26, <1>27, <1>28 DEF Ownership

\* A queue that has no connections yet, made or resized by mylisten.
Vacant(q) == q.completed = <<>> /\ \A j \in DOMAIN q.slots : q.slots[j] = -1

LEMMA ResizedVacant ==
  ASSUME NEW q \in Queues \cup {NULL}, q # NULL => Vacant(q), NEW m \in Nat
  PROVE  Resized(q, m) \in Queues /\ Vacant(Resized(q, m))
<1>1. PICK old \in Seq(Sds \cup {-1}) :
        /\ old = IF q = NULL THEN <<>> ELSE q.slots
        /\ \A j \in DOMAIN old : old[j] = -1
  <2>1. CASE q = NULL
    <3>1. <<>> \in Seq(Sds \cup {-1}) /\ DOMAIN <<>> = {}
      OBVIOUS
    <3> QED  BY <2>1, <3>1
  <2>2. CASE q # NULL
    <3>1. q.slots \in Seq(Sds \cup {-1}) /\ \A j \in DOMAIN q.slots : q.slots[j] = -1
      BY <2>2 DEF Queues, Vacant
    <3> QED  BY <2>2, <3>1
  <2> QED  BY <2>1, <2>2
<1> DEFINE z == [j \in 1..m |-> IF j \in DOMAIN old THEN old[j] ELSE -1]
<1>2. Resized(q, m) = [slots |-> z, completed |-> <<>>]
  BY <1>1 DEF Resized, Vacant
<1>3. z \in Seq(Sds \cup {-1}) /\ \A j \in DOMAIN z : z[j] = -1
  BY <1>1
<1> HIDE DEF z
<1> QED  BY <1>2, <1>3 DEF Queues, Vacant

\* What mylisten does to its mysocket, its queue and listen_table.
LEMMA ListenFacts ==
  ASSUME TypeOK, Receiving, Ownership, NEW t \in Apps, NEW sd \in held[t], NEW backlog \in Nat,
         Mylisten(t, sd, backlog)
  PROVE  \E c \in Blocks :
           /\ sd \in Sds /\ c = global_ctx[sd] /\ ctx[c] # NULL /\ ctx[c].my_sd = sd /\ Entered(c)
           /\ (\A u \in Threads : ~On(u, c)) /\ writer = NULL
           /\ pc[c] \in {"none", "done"} /\ (pc' = pc \/ pc' = [pc EXCEPT ![c] = "poll"])
           /\ ctx'[c] # NULL /\ ctx'[c].my_sd = sd /\ ctx'[c].listening
           /\ ctx'[c].listen_sd = ctx[c].listen_sd /\ ctx'[c].is_active = ctx[c].is_active
           /\ ctx'[c].stcp_errno = ctx[c].stcp_errno
           /\ \A d \in Blocks : d # c => ctx'[d] = ctx[d]
           /\ queue[c] # NULL => Vacant(queue[c])
           /\ queue' \in [Blocks -> Queues \cup {NULL}] /\ \A e \in Blocks : e # c => queue'[e] = queue[e]
           /\ queue'[c] \in Queues /\ Vacant(queue'[c])
           /\ listen_table' \in [Sds -> Seq([key : Sds, data : Blocks])]
           /\ listen_table'[sd] = <<[key |-> sd, data |-> c]>>
           /\ \A x \in Sds : x # sd => listen_table'[x] = listen_table[x]
<1> USE OwnershipParts
<1>1. pc[t] = "idle" /\ t \in Threads
  BY ThreadFacts DEF Mylisten
<1>2. PICK c \in Blocks :
           /\ sd \in Sds /\ c = Context(sd) /\ c = global_ctx[sd]
           /\ ctx[c] # NULL /\ ctx[c].my_sd = sd /\ Entered(c)
           /\ \A u \in Threads : ~On(u, c)
  BY <1>1, HeldFacts
<1>3. /\ ~ctx[c].recv_thread_started /\ writer = NULL
      /\ listen_table' = IF QueueOf(c) = NULL THEN HashInsert(listen_table, sd, c) ELSE listen_table
      /\ queue' = [queue EXCEPT ![c] = Resized(queue[c], backlog + 1)]
  BY <1>2 DEF Mylisten
<1>4. PICK r \in Contexts :
                 /\ Becomes(c, r) /\ r.my_sd = ctx[c].my_sd
                 /\ r.listen_sd = ctx[c].listen_sd /\ r.is_active = ctx[c].is_active
                 /\ r.stcp_errno = ctx[c].stcp_errno /\ r.listening
                 /\ (pc' = pc \/ pc' = [pc EXCEPT ![c] = "poll"])
  BY <1>2, ListenEffect
<1>5. /\ ctx'[c] # NULL /\ ctx'[c].my_sd = sd /\ ctx'[c].listening
      /\ ctx'[c].listen_sd = ctx[c].listen_sd /\ ctx'[c].is_active = ctx[c].is_active
      /\ ctx'[c].stcp_errno = ctx[c].stcp_errno
      /\ \A d \in Blocks : d # c => ctx'[d] = ctx[d]
  BY <1>2, <1>4 DEF Becomes
<1>6. pc[c] \in {"none", "done"}
  BY <1>2, <1>3 DEF Receiving
<1>7. queue \in [Blocks -> Queues \cup {NULL}] /\ (queue[c] # NULL => Vacant(queue[c]))
  <2>1. ~\E a \in Apps : Closing(a) /\ On(a, c)
    BY <1>2, ThreadFacts
  <2> QED  BY <1>2, <1>3, <2>1 DEF Owned, Vacant
<1>8. Resized(queue[c], backlog + 1) \in Queues /\ Vacant(Resized(queue[c], backlog + 1))
  <2>1. queue[c] \in Queues \cup {NULL} /\ backlog + 1 \in Nat
    BY <1>7
  <2> QED  BY <1>7, <2>1, ResizedVacant
<1>9. /\ queue' \in [Blocks -> Queues \cup {NULL}] /\ \A e \in Blocks : e # c => queue'[e] = queue[e]
      /\ queue'[c] \in Queues /\ Vacant(queue'[c])
  <2>1. PICK z \in Queues : z = Resized(queue[c], backlog + 1) /\ Vacant(z)
    BY <1>8
  <2>2. queue' = [queue EXCEPT ![c] = z]
    BY <1>3, <2>1
  <2>3. queue' \in [Blocks -> Queues \cup {NULL}] /\ queue'[c] = z /\ \A e \in Blocks : e # c => queue'[e] = queue[e]
    BY <1>7, <2>2
  <2> QED  BY <2>1, <2>3
<1>10. /\ listen_table' \in [Sds -> Seq([key : Sds, data : Blocks])]
       /\ listen_table'[sd] = <<[key |-> sd, data |-> c]>>
       /\ \A x \in Sds : x # sd => listen_table'[x] = listen_table[x]
  <2>1. QueueOf(c) = IF queue[c] # NULL THEN c ELSE NULL
    BY <1>2, QueueFacts
  <2>2. CASE queue[c] # NULL
    <3>1. listen_table' = listen_table
      BY <1>3, <2>1, <2>2, SdsFacts
    <3> QED  BY <1>2, <2>2, <3>1, SdsFacts DEF Hashed
  <2>3. CASE queue[c] = NULL
    <3>1. listen_table[sd] = <<>> /\ Bucket(sd) = sd
      BY <1>2, <2>3, SdsFacts DEF Hashed
    <3>2. PICK s \in Seq([key : Sds, data : Blocks]) : s = <<[key |-> sd, data |-> c]>>
      <4>1. PICK e \in [key : Sds, data : Blocks] : e = [key |-> sd, data |-> c]
        BY <1>2
      <4>2. <<e>> \in Seq([key : Sds, data : Blocks])
        OBVIOUS
      <4> QED  BY <4>1, <4>2
    <3>3. listen_table' = [listen_table EXCEPT ![sd] = s \o <<>>]
      BY <1>3, <2>1, <2>3, <3>1, <3>2 DEF HashInsert
    <3>4. listen_table' = [listen_table EXCEPT ![sd] = s]
      BY <3>2, <3>3
    <3> QED  BY <1>2, <3>2, <3>4 DEF Hashed
  <2> QED  BY <2>2, <2>3
<1> QED  BY <1>2, <1>3, <1>4, <1>5, <1>6, <1>7, <1>9, <1>10

LEMMA OwnListen ==
  ASSUME TypeOK, TypeOK', Receiving, Ownership, NEW t \in Apps, NEW sd \in held[t], NEW backlog \in Nat,
         Mylisten(t, sd, backlog)
  PROVE  Ownership'
<1> USE OwnershipParts
<1>1. /\ global_ctx' = global_ctx /\ tr' = tr /\ writer' = writer
      /\ cur' = cur /\ k' = k /\ slot' = slot /\ held' = held
  BY DEF Mylisten
<1>2. PICK c \in Blocks :
        /\ sd \in Sds /\ c = global_ctx[sd] /\ ctx[c] # NULL /\ ctx[c].my_sd = sd /\ Entered(c)
        /\ (\A u \in Threads : ~On(u, c)) /\ writer = NULL
        /\ pc[c] \in {"none", "done"} /\ (pc' = pc \/ pc' = [pc EXCEPT ![c] = "poll"])
        /\ ctx'[c] # NULL /\ ctx'[c].my_sd = sd /\ ctx'[c].listening
        /\ ctx'[c].listen_sd = ctx[c].listen_sd /\ ctx'[c].is_active = ctx[c].is_active
        /\ ctx'[c].stcp_errno = ctx[c].stcp_errno
        /\ \A d \in Blocks : d # c => ctx'[d] = ctx[d]
        /\ queue[c] # NULL => Vacant(queue[c])
        /\ queue' \in [Blocks -> Queues \cup {NULL}] /\ \A e \in Blocks : e # c => queue'[e] = queue[e]
        /\ queue'[c] \in Queues /\ Vacant(queue'[c])
        /\ listen_table' \in [Sds -> Seq([key : Sds, data : Blocks])]
        /\ listen_table'[sd] = <<[key |-> sd, data |-> c]>>
        /\ \A x \in Sds : x # sd => listen_table'[x] = listen_table[x]
  BY ListenFacts
<1>3. /\ pc'[c] \in {"none", "done", "poll"} /\ \A u \in Threads : u # c => pc'[u] = pc[u]
      /\ \A a \in Apps : pc'[a] = pc[a]
  BY <1>2, ThreadFacts DEF TypeOK
<1>4. \A u, e : On(u, e)' = On(u, e)
  BY <1>1 DEF On
<1>5. /\ \A e \in Blocks : Entered(e)' = Entered(e)
      /\ \A e \in Blocks : (ctx'[e] = NULL) = (ctx[e] = NULL)
      /\ \A e \in Blocks : ctx[e] # NULL =>
           /\ ctx'[e].my_sd = ctx[e].my_sd /\ ctx'[e].listen_sd = ctx[e].listen_sd
           /\ ctx'[e].is_active = ctx[e].is_active /\ ctx'[e].stcp_errno = ctx[e].stcp_errno
  <2>1. \A e \in Blocks : ctx[e] # NULL =>
           /\ ctx'[e].my_sd = ctx[e].my_sd /\ ctx'[e].listen_sd = ctx[e].listen_sd
           /\ ctx'[e].is_active = ctx[e].is_active /\ ctx'[e].stcp_errno = ctx[e].stcp_errno
    BY <1>2
  <2>2. \A e \in Blocks : (ctx'[e] = NULL) = (ctx[e] = NULL)
    BY <1>2
  <2> QED  BY <1>1, <2>1, <2>2 DEF Entered
<1>6. \A e \in Blocks : e # c => Still(e)
  BY <1>1, <1>2, <1>3, <1>5, ThreadFacts DEF Still
<1>7. \A u \in Threads, e \in Blocks : On(u, e) => Still(e)
  BY <1>2, <1>6
<1>8. \A u \in Threads : Creating(u)' = Creating(u)
  BY <1>2, <1>3 DEF Creating
<1>9. \A e, i : ~Scanned(e, i) /\ ~Scanned(e, i)'
  BY <1>1, <1>2 DEF Scanned
<1>10. \A e \in Blocks : \A i, x : (Holds(e, i, x)' <=> Holds(e, i, x)) /\ ~Holds(c, i, x)
  <2>1. \A i, x : ~Holds(c, i, x) /\ ~Holds(c, i, x)'
    BY <1>2 DEF Holds, Vacant
  <2>2. \A e \in Blocks : \A i, x : e # c => (Holds(e, i, x)' <=> Holds(e, i, x))
    BY <1>2 DEF Holds
  <2> QED  BY <2>1, <2>2
<1>11. \A e \in Blocks : \A i, x : Waiting(e, i, x)' <=> Waiting(e, i, x)
  BY <1>9, <1>10 DEF Waiting
<1>12. Table'
  <2>1. ASSUME NEW u \in Threads, Creating(u)'
        PROVE  \E e \in Blocks : cur'[u] = <<e>> /\ Blank(e)' /\ ~Entered(e)'
    <3>1. PICK e \in Blocks : cur[u] = <<e>> /\ Blank(e) /\ ~Entered(e)
      BY <1>8, <2>1 DEF Table
    <3> QED  BY <1>1, <1>2, <1>5, <1>6, <3>1, StillBlank
  <2>2. \A x \in Sds : global_ctx'[x] # NULL => ctx'[global_ctx'[x]] # NULL /\ ctx'[global_ctx'[x]].my_sd = x
    BY <1>1, <1>5, TableFacts
  <2> QED  BY <1>4, <1>5, <1>8, <2>1, <2>2 DEF Table
<1>13. Exclusive'
  BY <1>1, <1>3, <1>4 DEF Exclusive
<1>14. \A a \in Apps : Calling(a)' /\ Stack(a)'
  BY <1>1, <1>3, <1>7, AppFrame, ThreadFacts
<1>15. ASSUME NEW e \in Blocks PROVE Listener(e)'
  <2>1. CASE e = c
    <3>1. cur'[c] = <<>>
      BY <1>1, <1>2 DEF Listener
    <3> QED  BY <1>2, <1>3, <1>5, <2>1, <3>1 DEF Listener
  <2>2. CASE e # c
    <3>1. pc[e] \in {"scan", "store", "pass"} =>
            slot[e] \in DOMAIN queue'[e].slots /\ queue'[e].slots[slot[e]] = -1
      BY <1>2, <2>2 DEF Listener
    <3> QED  BY <1>1, <1>3, <1>6, <1>7, <2>2, <3>1, ListenerFrame, ThreadFacts
  <2> QED  BY <2>1, <2>2
<1>16. Locked'
  BY <1>1, <1>2 DEF Locked
<1>17. Hashed'
  <2>1. \A x \in Sds : x # sd => global_ctx[x] # c
    BY <1>2, TableFacts, SdsFacts
  <2>2. c # NULL /\ queue'[c] # NULL
    BY <1>2, SdsFacts
  <2>3. \A x \in Sds : global_ctx[x] # NULL => global_ctx[x] \in Blocks
    BY TableFacts
  <2>4. ASSUME NEW x \in Sds
        PROVE  IF global_ctx[x] # NULL /\ queue'[global_ctx[x]] # NULL
               THEN listen_table'[x] = <<[key |-> x, data |-> global_ctx[x]]>>
               ELSE listen_table'[x] = <<>>
    <3>1. CASE x = sd
      BY <1>2, <2>2, <3>1
    <3>2. CASE x # sd
      <4>1. /\ listen_table'[x] = listen_table[x]
            /\ (global_ctx[x] # NULL => queue'[global_ctx[x]] = queue[global_ctx[x]])
        BY <1>2, <2>1, <2>3, <3>2
      <4> QED  BY <4>1 DEF Hashed
    <3> QED  BY <3>1, <3>2
  <2> QED  BY <1>1, <1>2, <2>4 DEF Hashed
<1>18. Owned'
  <2>1. \A e \in Blocks : queue'[e] # NULL => Entered(e)' /\ ctx'[e].listening
    BY <1>2, <1>5 DEF Owned
  <2>2. \A e \in Blocks : ctx'[e] # NULL /\ ctx'[e].listening /\ queue'[e] = NULL =>
          \E a \in Apps : pc'[a] = "free" /\ On(a, e)'
    <3>1. SUFFICES ASSUME NEW e \in Blocks, ctx'[e] # NULL, ctx'[e].listening, queue'[e] = NULL
                   PROVE  \E a \in Apps : pc'[a] = "free" /\ On(a, e)'
      OBVIOUS
    <3>2. e # c
      BY <1>2, <3>1, SdsFacts
    <3>3. ctx[e] # NULL /\ ctx[e].listening /\ queue[e] = NULL
      BY <1>2, <3>1, <3>2
    <3>4. PICK a \in Apps : pc[a] = "free" /\ On(a, e)
      BY <3>3 DEF Owned
    <3> QED  BY <1>3, <1>4, <3>4
  <2>3. \A e \in Blocks : queue'[e] # NULL =>
               \/ ctx'[e].recv_thread_started
               \/ \E a \in Apps : Closing(a)' /\ On(a, e)'
               \/ /\ queue'[e].completed = <<>>
                  /\ \A i \in DOMAIN queue'[e].slots : queue'[e].slots[i] = -1
    BY <1>2, <1>3, <1>4 DEF Owned, Vacant, Closing
  <2> QED  BY <1>2, <2>1, <2>2, <2>3 DEF Owned
<1>19. Slots'
  <2>1. ASSUME NEW e \in Blocks, NEW x \in Sds, queue[e] # NULL, Pending(e, x) PROVE Pending(e, x)'
    <3>1. PICK d \in Blocks : d = global_ctx[x] /\ ctx[d] # NULL /\ ctx[d].my_sd = x
      BY <2>1, PendingLoose
    <3>2. d # c /\ ctx[e] # NULL
      BY <1>2, <2>1, <3>1 DEF Owned, Entered, Pending
    <3>3. ctx'[d] = ctx[d] /\ ctx'[e].my_sd = ctx[e].my_sd
      BY <1>2, <1>5, <3>2
    <3> QED  BY <1>1, <1>4, <2>1, <3>1, <3>3 DEF Pending
  <2>2. \A e \in Blocks : \A i, x : Waiting(e, i, x) => queue[e] # NULL
    BY DEF Waiting, Holds
  <2> QED  BY <1>11, <2>1, <2>2 DEF Slots
<1>20. Completions'
  <2>1. SUFFICES ASSUME NEW e \in Blocks, queue'[e] # NULL
                 PROVE  /\ \A i \in DOMAIN queue'[e].completed :
                             /\ \E h \in Nat : Holds(e, h, queue[e].completed[i])'
                             /\ tr[global_ctx[queue'[e].completed[i]]] # "handshake"
                        /\ \A i, h \in DOMAIN queue'[e].completed :
                             queue'[e].completed[i] = queue'[e].completed[h] => i = h
    BY <1>1 DEF Completions
  <2>2. CASE e = c
    BY <1>2, <2>2 DEF Vacant
  <2>3. CASE e # c
    <3>1. queue'[e] = queue[e] /\ queue[e] # NULL
      BY <1>2, <2>1, <2>3
    <3>2. /\ \A i \in DOMAIN queue[e].completed :
               /\ \E h \in Nat : Holds(e, h, queue[e].completed[i])
               /\ tr[global_ctx[queue[e].completed[i]]] # "handshake"
          /\ \A i, h \in DOMAIN queue[e].completed :
               queue[e].completed[i] = queue[e].completed[h] => i = h
      BY <1>2, <3>1 DEF Completions
    <3> QED  BY <3>1, <3>2 DEF Holds
  <2> QED  BY <2>2, <2>3
<1>21. Transports'
  <2>1. ASSUME NEW e \in Blocks, tr[e] = "handshake", ~ctx'[e].is_active PROVE Reports(e)'
    <3>1. ctx[e] # NULL /\ ~ctx[e].is_active
      BY <1>5, <2>1 DEF Transports, Entered
    <3>2. PICK l \in Blocks, i \in Nat :
             Holds(l, i, ctx[e].my_sd) /\ ctx[e].listen_sd = ctx[l].my_sd
      BY <2>1, <3>1 DEF Transports, Reports
    <3>3. l # c /\ ctx[l] # NULL
      <4>1. l # c
        BY <1>10, <3>2
      <4>2. queue[l] # NULL
        BY <3>2 DEF Holds
      <4> QED  BY <4>1, <4>2 DEF Owned, Entered
    <3>4. Holds(l, i, ctx[e].my_sd)'
      BY <1>2, <1>5, <3>1, <3>2, <3>3 DEF Holds
    <3> QED  BY <1>5, <1>9, <3>1, <3>2, <3>3, <3>4 DEF Reports
  <2>2. \A e \in Blocks : tr[e] = "handshake" => ctx[e] # NULL
    BY DEF Transports, Entered
  <2> QED  BY <1>1, <1>3, <1>4, <1>5, <2>1, <2>2 DEF Transports
<1>22. ASSUME NEW e \in Blocks, ctx'[e] # NULL PROVE Closable(e)'
  <2>1. ctx[e] # NULL /\ Closable(e)
    BY <1>5, <1>22
  <2>2. ctx'[e].my_sd = ctx[e].my_sd /\ (Unaccepted(e) => Unaccepted(e)')
    BY <1>5, <2>1 DEF Unaccepted
  <2>3. CASE \E l \in Blocks, i \in Nat : Waiting(l, i, ctx[e].my_sd)
    <3>1. PICK x : x = ctx[e].my_sd /\ \E l \in Blocks, i \in Nat : Waiting(l, i, x)
      BY <2>3
    <3>2. PICK l \in Blocks, i \in Nat : Waiting(l, i, x)
      BY <3>1
    <3>3. Waiting(l, i, x)'
      BY <1>11, <3>2
    <3>4. Waiting(l, i, ctx[e].my_sd)'
      BY <2>2, <3>1, <3>3 DEF Waiting, Holds
    <3> QED  BY <3>4 DEF Closable
  <2> QED  BY <1>1, <1>4, <2>1, <2>2, <2>3 DEF Closable
<1> QED  BY <1>12, <1>13, <1>14, <1>15, <1>16, <1>17, <1>18, <1>19, <1>20, <1>21, <1>22 DEF Ownership

\* The thread that closes the queue of c goes on to the next slot, and the
\* connections in D, which that slot named, come onto its stack.
LEMMA SlotStep ==
  ASSUME TypeOK, TypeOK', Ownership, NEW t \in Apps, NEW c \in Blocks, NEW D \in SUBSET Blocks,
         pc[t] = "passive", cur[t] = <<c>>, writer = t, k'[t] = k[t] + 1,
         UNCHANGED <<global_ctx, tr, listen_table, queue, held, writer, slot>>,
         \A d \in Blocks : Kept(d) /\ KeptStarted(d),
         \A u \in Threads : u # t => pc'[u] = pc[u] /\ cur'[u] = cur[u] /\ k'[u] = k[u],
         pc'[t] \in {"passive", "join"}, Stack(t)',
         \A d \in Blocks : On(t, d)' <=> d = c \/ d \in D,
         \A d \in D : Loose(d) /\ queue[d] = NULL /\ Holds(c, k[t], ctx[d].my_sd),
         \A d \in Blocks : Entered(d) /\ Holds(c, k[t], ctx[d].my_sd) => d \in D /\ cur'[t] = <<d, c>>
  PROVE  Ownership'
<1> USE OwnershipParts
<1>1. t \in Threads /\ t \notin Blocks /\ t # NULL /\ Closing(t) /\ Closing(t)' /\ k[t] \in Nat
  BY ThreadFacts, SdsFacts DEF Closing, CloseStates, TypeOK
<1>2. \A d \in Blocks : On(t, d) <=> d = c
  BY StackMembers
<1>3. \A u \in Threads : u # t => \A d : On(u, d)' = On(u, d)
  BY DEF On
<1>4. \A d \in Blocks : Entered(d)' = Entered(d)
  BY DEF Entered, Kept
<1>5. \A d \in Blocks : pc'[d] = pc[d] /\ cur'[d] = cur[d] /\ k'[d] = k[d]
  BY <1>1, ThreadFacts
<1>6. \A d \in Blocks : Still(d)
  BY <1>4, <1>5 DEF Still, Kept, KeptStarted
<1>7. \A u \in Threads : Creating(u)' = Creating(u) /\ Closing(u)' = Closing(u)
  BY <1>1 DEF Creating, Closing
<1>8. \A d \in Blocks, j \in Nat : queue[d] # NULL =>
        (Scanned(d, j)' <=> Scanned(d, j) \/ (d = c /\ j = k[t]))
  <2>1. SUFFICES ASSUME NEW d \in Blocks, NEW j \in Nat, queue[d] # NULL
                 PROVE  Scanned(d, j)' <=> Scanned(d, j) \/ (d = c /\ j = k[t])
    OBVIOUS
  <2>2. On(t, d)' <=> d = c
    BY <2>1
  <2>3. (On(writer, d))' <=> d = c
    BY <2>2 DEF On
  <2>4. Scanned(d, j)' <=> d = c /\ j < k[t] + 1
    BY <1>1, <2>3 DEF Scanned
  <2>5. Scanned(d, j) <=> d = c /\ j < k[t]
    BY <1>1, <1>2 DEF Scanned
  <2> QED  BY <1>1, <2>4, <2>5
<1>9. \A d \in Blocks : \A j, sd : Holds(d, j, sd)' <=> Holds(d, j, sd)
  BY DEF Holds
<1>10. \A d \in Blocks, j \in Nat : \A sd :
         Waiting(d, j, sd)' <=> Waiting(d, j, sd) /\ ~(d = c /\ j = k[t])
  <2>1. SUFFICES ASSUME NEW d \in Blocks, NEW j \in Nat, NEW sd
                 PROVE  Waiting(d, j, sd)' <=> Waiting(d, j, sd) /\ ~(d = c /\ j = k[t])
    OBVIOUS
  <2>2. Holds(d, j, sd) => queue[d] # NULL
    BY DEF Holds
  <2> QED  BY <1>8, <1>9, <2>2 DEF Waiting
<1>11. ASSUME NEW d \in D PROVE Waiting(c, k[t], ctx[d].my_sd)
  <2>1. ~Scanned(c, k[t])
    BY <1>1 DEF Scanned
  <2> QED  BY <1>11, <2>1 DEF Waiting
<1>12. \A d \in D : /\ d \in Blocks /\ Entered(d) /\ ctx[d].my_sd \in Sds /\ global_ctx[ctx[d].my_sd] = d
                    /\ \A u \in Threads : ~On(u, d)
                    /\ \A a \in Apps : ctx[d].my_sd \notin held[a]
  BY TableFacts DEF Loose
<1>13. Table'
  <2>1. \A sd \in Sds : global_ctx'[sd] # NULL =>
          ctx'[global_ctx'[sd]] # NULL /\ ctx'[global_ctx'[sd]].my_sd = sd
    BY TableFacts DEF Kept
  <2>2. ASSUME NEW d \in Blocks, ctx'[d] # NULL
        PROVE  Entered(d)' \/ \E u \in Threads : Creating(u)' /\ On(u, d)'
    <3>1. Entered(d) \/ \E u \in Threads : Creating(u) /\ On(u, d)
      BY <2>2 DEF Table, Kept
    <3>2. ~Creating(t)
      BY DEF Creating
    <3> QED  BY <1>3, <1>4, <1>7, <3>1, <3>2
  <2>3. ASSUME NEW u \in Threads, Creating(u)'
        PROVE  \E d \in Blocks : cur'[u] = <<d>> /\ Blank(d)' /\ ~Entered(d)'
    <3>1. PICK d \in Blocks : cur[u] = <<d>> /\ Blank(d) /\ ~Entered(d)
      BY <1>7, <2>3 DEF Table
    <3>2. u # t
      BY <1>7, <2>3 DEF Creating
    <3> QED  BY <1>4, <1>6, <3>1, <3>2, StillBlank
  <2> QED  BY <2>1, <2>2, <2>3 DEF Table
<1>14. Exclusive'
  <2>1. ASSUME NEW u \in Threads, NEW w \in Threads, NEW d \in Blocks, On(u, d)', On(w, d)'
        PROVE  u = w
    <3>1. \A v \in Threads : On(v, d)' => On(v, d) \/ (v = t /\ d \in D)
      BY <1>2, <1>3
    <3>2. d \in D => \A v \in Threads : ~On(v, d)
      BY <1>12
    <3> QED  BY <2>1, <3>1, <3>2 DEF Exclusive
  <2>2. ASSUME NEW a \in Apps, NEW sd \in held[a]
        PROVE  /\ global_ctx[sd] # NULL
               /\ \A d \in Blocks : d = global_ctx[sd] => \A u \in Threads : On(u, d)' => u = a /\ pc'[a] \in {"connect", "accept"}
    <3>1. sd \in Sds /\ global_ctx[sd] # NULL
      BY DEF Exclusive, TypeOK
    <3>2. SUFFICES ASSUME NEW d \in Blocks, d = global_ctx[sd], NEW u \in Threads, On(u, d)'
                   PROVE  u = a /\ pc'[a] \in {"connect", "accept"}
      BY <3>1
    <3>3. d \notin D
      BY <1>12, <3>1, <3>2, TableFacts
    <3>4. On(u, d)
      BY <1>2, <1>3, <3>2, <3>3
    <3>5. u = a /\ pc[a] \in {"connect", "accept"}
      BY <3>2, <3>4 DEF Exclusive
    <3> QED  BY <3>2, <3>5
  <2>3. \A a \in Apps : \A sd \in held[a] : global_ctx[sd] \in Blocks
    BY <2>2 DEF TypeOK
  <2>4. ASSUME NEW a \in Apps, NEW sd \in held'[a]
        PROVE  /\ global_ctx'[sd] # NULL
               /\ \A u \in Threads : On(u, global_ctx[sd])' => u = a /\ pc'[a] \in {"connect", "accept"}
    <3>1. PICK d \in Blocks : d = global_ctx[sd] /\ d = global_ctx'[sd]
      BY <2>3, <2>4
    <3>2. \A u \in Threads : On(u, d)' => u = a /\ pc'[a] \in {"connect", "accept"}
      BY <2>2, <2>4, <3>1
    <3> QED  BY <2>2, <2>4, <3>1, <3>2 DEF On
  <2> QED  BY <2>1, <2>4 DEF Exclusive
<1>15. ASSUME NEW a \in Apps, a # t PROVE Calling(a)' /\ Stack(a)'
  BY <1>6, <1>15, AppFrame, ThreadFacts
<1>16. Calling(t)'
  BY DEF Calling
<1>17. ASSUME NEW d \in Blocks PROVE Listener(d)'
  <2>1. pc[d] \in {"scan", "store", "pass"} =>
          slot[d] \in DOMAIN queue[d].slots /\ queue[d].slots[slot[d]] = -1
    BY DEF Listener
  <2> QED  BY <1>5, <1>6, <2>1, ListenerFrame
<1>18. Locked'
  <2>1. Readers' = Readers
    BY <1>5, ThreadFacts DEF Readers
  <2> QED  BY <1>1, <2>1 DEF Locked
<1>19. Hashed'
  BY HashedKept
<1>20. Owned'
  <2>1. \A a \in Apps, d \in Blocks : pc[a] = "free" /\ On(a, d) => pc'[a] = "free" /\ On(a, d)'
    BY <1>3, ThreadFacts
  <2>2. \A d \in Blocks : queue[d] # NULL => Entered(d)' /\ ctx'[d].listening
    BY <1>4 DEF Owned, Kept, Entered
  <2>3. \A a \in Apps, d \in Blocks : Closing(a) /\ On(a, d) => Closing(a)' /\ On(a, d)'
    BY <1>2, <1>3, <1>7, ThreadFacts
  <2>4. \A d \in Blocks : ctx'[d] # NULL /\ ctx'[d].listening => ctx[d] # NULL /\ ctx[d].listening
    BY DEF Kept
  <2>5. \A d \in Blocks : queue[d] # NULL /\ ctx[d].recv_thread_started => ctx'[d].recv_thread_started
    BY DEF KeptStarted, Owned, Entered
  <2> QED  BY <2>1, <2>2, <2>3, <2>4, <2>5, OwnedFrame
<1>21. Slots'
  <2>1. ASSUME NEW d \in Blocks, NEW j \in Nat, NEW sd \in Sds, Waiting(d, j, sd)'
        PROVE  Pending(d, sd)'
    <3>1. Waiting(d, j, sd) /\ ~(d = c /\ j = k[t]) /\ Pending(d, sd)
      BY <1>10, <2>1 DEF Slots
    <3>2. PICK e \in Blocks : e = global_ctx[sd] /\ ctx[e] # NULL /\ ctx[e].my_sd = sd /\ Loose(e)
      BY <3>1, PendingLoose
    <3>3. e \notin D
      BY <1>1, <1>11, <3>1, <3>2 DEF Slots
    <3>4. e # c
      BY <1>1, <1>2, <3>2 DEF Loose
    <3>5. \A u \in Threads : ~On(u, e)'
      BY <1>3, <3>2, <3>3, <3>4 DEF Loose
    <3>6. Kept(e) /\ Kept(d) /\ ctx[d] # NULL
      BY <3>1 DEF Waiting, Holds, Owned, Entered
    <3>7. /\ ctx'[e].listen_sd = ctx'[d].my_sd /\ ~ctx'[e].listening /\ ~ctx'[e].is_active
          /\ tr'[e] # "none"
      BY <3>1, <3>2, <3>6 DEF Pending, Kept
    <3>8. e = global_ctx'[sd] /\ e # NULL /\ \A a \in Apps : sd \notin held'[a]
      BY <3>1, <3>2, SdsFacts DEF Pending
    <3> QED  BY <3>5, <3>7, <3>8 DEF Pending, On
  <2>2. ASSUME NEW d \in Blocks, NEW e \in Blocks, NEW i \in Nat, NEW j \in Nat, NEW sd \in Sds,
               Waiting(d, i, sd)', Waiting(e, j, sd)'
        PROVE  d = e /\ i = j
    <3>1. Waiting(d, i, sd) /\ Waiting(e, j, sd)
      BY <1>10, <2>2
    <3> QED  BY <3>1 DEF Slots
  <2> QED  BY <2>1, <2>2 DEF Slots
<1>22. Completions'
  <2>1. SUFFICES ASSUME NEW d \in Blocks, queue[d] # NULL, ~(On(writer, d))'
                 PROVE  /\ \A i \in DOMAIN queue[d].completed :
                             /\ \E j \in Nat : Holds(d, j, queue[d].completed[i])'
                             /\ tr[global_ctx[queue[d].completed[i]]] # "handshake"
                        /\ \A i, j \in DOMAIN queue[d].completed :
                             queue[d].completed[i] = queue[d].completed[j] => i = j
    BY <1>1 DEF Completions
  <2>2. ~On(t, d)
    BY <1>2, <2>1 DEF On
  <2>3. /\ \A i \in DOMAIN queue[d].completed :
             /\ \E j \in Nat : Holds(d, j, queue[d].completed[i])
             /\ tr[global_ctx[queue[d].completed[i]]] # "handshake"
        /\ \A i, j \in DOMAIN queue[d].completed :
             queue[d].completed[i] = queue[d].completed[j] => i = j
    BY <2>1, <2>2 DEF Completions
  <2> QED  BY <2>3 DEF Holds
<1>23. Transports'
  <2>1. ASSUME NEW d \in Blocks, tr[d] = "handshake", ~ctx'[d].is_active PROVE Reports(d)'
    <3>1. Entered(d) /\ ctx[d] # NULL /\ ~ctx[d].is_active /\ Kept(d)
      BY <2>1 DEF Transports, Entered, Kept
    <3>2. PICK l \in Blocks, j \in Nat :
             /\ Holds(l, j, ctx[d].my_sd) /\ ctx[d].listen_sd = ctx[l].my_sd
             /\ Scanned(l, j) => cur[writer] = <<d, l>>
      BY <2>1, <3>1 DEF Transports, Reports
    <3>3. ~Scanned(l, j)
      BY <3>2
    <3>4. queue[l] # NULL /\ ctx[l] # NULL /\ Kept(l)
      BY <3>2 DEF Holds, Owned, Entered
    <3>5. Scanned(l, j)' => cur'[t] = <<d, l>>
      BY <1>8, <3>1, <3>2, <3>3, <3>4
    <3>6. ctx'[d].my_sd = ctx[d].my_sd /\ ctx'[d].listen_sd = ctx'[l].my_sd
      BY <3>1, <3>2, <3>4 DEF Kept
    <3>7. Holds(l, j, ctx[d].my_sd)'
      BY <3>2, <3>6 DEF Holds
    <3>8. Scanned(l, j)' => cur'[writer'] = <<d, l>>
      BY <3>5
    <3> QED  BY <3>6, <3>7, <3>8 DEF Reports
  <2>2. ASSUME NEW d \in Blocks, tr[d] = "handshake", ctx'[d].is_active
        PROVE  \E a \in Apps : pc'[a] = "connect" /\ On(a, d)'
    <3>1. ctx[d] # NULL /\ Kept(d)
      BY <2>2 DEF Transports, Entered
    <3>2. PICK a \in Apps : pc[a] = "connect" /\ On(a, d)
      BY <2>2, <3>1 DEF Transports, Kept
    <3> QED  BY <1>3, <3>2, ThreadFacts
  <2>3. \A d \in Blocks : tr'[d] # "none" => Entered(d)'
    BY <1>4 DEF Transports
  <2> QED  BY <2>1, <2>2, <2>3 DEF Transports
<1>24. ASSUME NEW d \in Blocks, ctx'[d] # NULL PROVE Closable(d)'
  <2>1. ctx[d] # NULL /\ Closable(d) /\ Kept(d)
    BY <1>24 DEF Kept
  <2>2. PICK sd : sd = ctx[d].my_sd /\ sd = ctx'[d].my_sd
    BY <2>1 DEF Kept
  <2>3. CASE \E u \in Threads : On(u, d)
    BY <1>2, <1>3, <2>3 DEF Closable
  <2>4. CASE ~\E u \in Threads : On(u, d)
    <3>1. CASE \E l \in Blocks, j \in Nat : Waiting(l, j, sd)
      <4>1. PICK l \in Blocks, j \in Nat : Waiting(l, j, sd)
        BY <3>1
      <4>2. CASE l = c /\ j = k[t]
        <5>1. Entered(d)
          BY <2>1, <2>4 DEF Table
        <5>2. On(t, d)'
          BY <2>2, <4>1, <4>2, <5>1 DEF Waiting
        <5> QED  BY <1>1, <5>2 DEF Closable
      <4>3. CASE ~(l = c /\ j = k[t])
        <5>1. Waiting(l, j, sd)'
          BY <1>10, <4>1, <4>3
        <5>2. Waiting(l, j, ctx[d].my_sd)'
          BY <2>2, <5>1 DEF Waiting, Holds
        <5> QED  BY <5>2 DEF Closable
      <4> QED  BY <4>2, <4>3
    <3>2. CASE \E a \in Apps : sd \in held[a]
      BY <2>2, <3>2 DEF Closable
    <3>3. CASE Unaccepted(d)
      BY <2>1, <3>3 DEF Closable, Unaccepted, Kept
    <3> QED  BY <2>1, <2>2, <2>4, <3>1, <3>2, <3>3 DEF Closable
  <2> QED  BY <2>3, <2>4
<1> QED  BY <1>13, <1>14, <1>15, <1>16, <1>17, <1>18, <1>19, <1>20, <1>21, <1>22, <1>23, <1>24 DEF Ownership

\* Where _mysock_close_passive_socket is, once it has the lock.
LEMMA PassiveFacts ==
  ASSUME TypeOK, Ownership, NEW t \in Apps, pc[t] = "passive", Works(t)
  PROVE  \E c \in Blocks :
           /\ c = Top(t) /\ cur[t] = <<c>> /\ writer = t /\ Entered(c) /\ ctx[c] # NULL
           /\ Quiet(c) /\ ctx[c].listening /\ queue[c] # NULL /\ QueueOf(c) = c
           /\ k[t] \in Nat /\ k[t] # 0
<1> USE OwnershipParts
<1>1. Closing(t) /\ t \in Threads /\ t # NULL
  BY ThreadFacts, SdsFacts DEF Closing, CloseStates
<1>2. PICK c \in Blocks : cur[t] = <<c>> /\ Reached(t, c) /\ writer = t
  BY <1>1 DEF Stack
<1>3. /\ c = Top(t) /\ Entered(c) /\ ctx[c] # NULL /\ Quiet(c) /\ ctx[c].listening
      /\ queue[c] # NULL
  BY <1>2 DEF Reached, Entered, Quiet, Top
<1>4. QueueOf(c) = c
  BY <1>3, QueueFacts
<1>5. k[t] \in Nat /\ k[t] # 0
  BY <1>1, <1>2 DEF Locked, TypeOK
<1> QED  BY <1>2, <1>3, <1>4, <1>5

\* A slot with a connection: a nested call of myclose.
LEMMA OwnCloseSlot ==
  ASSUME TypeOK, TypeOK', Ownership, NEW t \in Apps, NEW c \in Blocks, pc[t] = "passive",
         cur[t] = <<c>>, writer = t, Entered(c), Quiet(c), queue[c] # NULL,
         k[t] \in DOMAIN queue[c].slots, queue[c].slots[k[t]] # -1,
         CloseRequest(t, queue[c].slots[k[t]]), k' = [k EXCEPT ![t] = @ + 1],
         UNCHANGED <<global_ctx, tr, listen_table, queue, held, writer, slot>>
  PROVE  Ownership'
<1> USE OwnershipParts
<1>1. t \in Threads /\ k[t] \in Nat
  BY ThreadFacts DEF TypeOK
<1>2. PICK sd \in Sds : sd = queue[c].slots[k[t]] /\ sd # -1
  BY SlotFacts
<1>3. Holds(c, k[t], sd) /\ ~Scanned(c, k[t])
  BY <1>1, <1>2 DEF Holds, Scanned
<1>4. Pending(c, sd)
  BY <1>1, <1>3 DEF Slots, Waiting
<1>5. PICK d \in Blocks : d = global_ctx[sd] /\ Loose(d) /\ ctx[d] # NULL /\ ctx[d].my_sd = sd
  BY <1>4, PendingLoose
<1>6. d # c /\ ~ctx[d].listening /\ queue[d] = NULL
  <2>1. On(t, c) /\ ~On(t, d)
    BY <1>1, <1>5, StackMembers DEF Loose
  <2> QED  BY <1>4, <1>5, <2>1 DEF Pending, Owned
<1>7. CloseRequest(t, sd)
  BY <1>2
<1>8. /\ MinorStep /\ cur'[t] = <<Context(sd)>> \o cur[t] /\ Context(sd) = global_ctx[sd]
      /\ pc' = [pc EXCEPT ![t] = "join"]
      /\ \A u \in Threads : u # t => cur'[u] = cur[u]
  BY <1>7, RequestEffect
<1>9. cur'[t] = <<d, c>>
  <2> DEFINE s == <<d>> \o <<c>>
  <2>1. cur'[t] = s
    BY <1>5, <1>8
  <2>2. s \in Seq(Blocks) /\ Len(s) = 2 /\ s[1] = d /\ s[2] = c
    OBVIOUS
  <2> HIDE DEF s
  <2>3. s = <<d, c>>
    BY <2>2
  <2> QED  BY <2>1, <2>3
<1>10. /\ pc'[t] = "join" /\ k'[t] = k[t] + 1
       /\ \A u \in Threads : u # t => pc'[u] = pc[u] /\ cur'[u] = cur[u] /\ k'[u] = k[u]
  <2>1. pc'[t] = "join" /\ \A u \in Threads : u # t => pc'[u] = pc[u]
    BY <1>1, <1>8 DEF TypeOK
  <2>2. k'[t] = k[t] + 1 /\ \A u \in Threads : u # t => k'[u] = k[u]
    BY <1>1 DEF TypeOK
  <2> QED  BY <1>8, <2>1, <2>2
<1>11. \A e \in Blocks : Kept(e) /\ KeptStarted(e)
  BY <1>8, MinorKept
<1>12. \A e \in Blocks : On(t, e)' <=> e = c \/ e \in {d}
  BY <1>9, StackMembersNext
<1>13. Entered(d)' /\ Entered(c)' /\ Quiet(c)' /\ ~ctx'[d].listening
  <2>1. Entered(d) /\ ctx[c] # NULL
    BY <1>5 DEF Loose, Entered
  <2> QED  BY <1>5, <1>6, <1>11, <2>1 DEF Entered, Kept, KeptStarted, Quiet
<1>14. Stack(t)'
  <2>1. Reached(t, d)'
    BY <1>10, <1>13 DEF Reached
  <2> QED  BY <1>6, <1>9, <1>10, <1>13, <2>1 DEF Stack
<1>15. \A e \in Blocks : Entered(e) /\ Holds(c, k[t], ctx[e].my_sd) => e \in {d} /\ cur'[t] = <<e, c>>
  <2>1. SUFFICES ASSUME NEW e \in Blocks, Entered(e), Holds(c, k[t], ctx[e].my_sd) PROVE e = d
    BY <1>9
  <2>2. ctx[e].my_sd = sd
    BY <1>2, <2>1 DEF Holds
  <2> QED  BY <1>5, <2>1, <2>2 DEF Entered
<1>16. Holds(c, k[t], ctx[d].my_sd)
  BY <1>3, <1>5
<1>17. {d} \in SUBSET Blocks /\ pc'[t] \in {"passive", "join"}
  BY <1>10
<1>18. \A e \in {d} : Loose(e) /\ queue[e] = NULL /\ Holds(c, k[t], ctx[e].my_sd)
  BY <1>5, <1>6, <1>16
<1> QED  BY <1>10, <1>11, <1>12, <1>14, <1>15, <1>17, <1>18, SlotStep

\* A slot without one.
LEMMA OwnSkipSlot ==
  ASSUME TypeOK, TypeOK', Ownership, NEW t \in Apps, NEW c \in Blocks, pc[t] = "passive",
         cur[t] = <<c>>, writer = t, queue[c].slots[k[t]] = -1,
         k' = [k EXCEPT ![t] = @ + 1], ctx' = ctx, pc' = pc, cur' = cur,
         UNCHANGED <<global_ctx, tr, listen_table, queue, held, writer, slot>>
  PROVE  Ownership'
<1> USE OwnershipParts
<1>1. t \in Threads /\ k[t] \in Nat
  BY ThreadFacts DEF TypeOK
<1>2. k'[t] = k[t] + 1 /\ \A u \in Threads : u # t => k'[u] = k[u]
  BY <1>1 DEF TypeOK
<1>3. \A e \in Blocks : Kept(e) /\ KeptStarted(e)
  BY DEF Kept, KeptStarted
<1>4. \A e \in Blocks : On(t, e)' <=> e = c \/ e \in {}
  BY StackMembersNext
<1>5. \A e \in Blocks : ~Holds(c, k[t], ctx[e].my_sd)
  BY DEF Holds
<1>6. Stack(t)'
  <2>1. Stack(t)
    OBVIOUS
  <2> QED  BY <2>1 DEF Stack, Closing, Reached, Entered, Quiet
<1>7. pc'[t] \in {"passive", "join"} /\ \A u \in Threads : pc'[u] = pc[u] /\ cur'[u] = cur[u]
  OBVIOUS
<1>8. {} \in SUBSET Blocks
  OBVIOUS
<1> QED  BY <1>2, <1>3, <1>4, <1>5, <1>6, <1>7, <1>8, SlotStep

\* hash_delete of the only entry of a chain.
LEMMA HashDeleteFacts ==
  ASSUME NEW tbl \in [Sds -> Seq([key : Sds, data : Blocks])], NEW sd \in Sds, NEW c \in Blocks,
         tbl[sd] = <<[key |-> sd, data |-> c]>>
  PROVE  /\ HashDelete(tbl, sd) \in [Sds -> Seq([key : Sds, data : Blocks])]
         /\ HashDelete(tbl, sd)[sd] = <<>>
         /\ \A x \in Sds : x # sd => HashDelete(tbl, sd)[x] = tbl[x]
<1>1. Bucket(sd) = sd
  BY SdsFacts
<1>2. HashGet(tbl, sd) = 1
  <2> DEFINE chain == tbl[sd]
             hits == {i \in DOMAIN chain : chain[i].key = sd}
  <2>1. DOMAIN chain = {1} /\ chain[1].key = sd
    OBVIOUS
  <2>2. hits = {1}
    BY <2>1
  <2> HIDE DEF chain
  <2>3. (CHOOSE i \in hits : \A j \in hits : i <= j) = 1
    BY <2>2
  <2> QED  BY <1>1, <2>2, <2>3 DEF HashGet, chain
<1>3. SubSeq(tbl[sd], 1, 1 - 1) \o SubSeq(tbl[sd], 1 + 1, Len(tbl[sd])) = <<>>
  <2>1. PICK e : tbl[sd] = <<e>>
    OBVIOUS
  <2>2. SubSeq(tbl[sd], 1, 1 - 1) = <<>> /\ SubSeq(tbl[sd], 1 + 1, Len(tbl[sd])) = <<>>
    BY <2>1
  <2> QED  BY <2>2
<1>4. HashDelete(tbl, sd) = [tbl EXCEPT ![sd] = <<>>]
  <2> DEFINE z == SubSeq(tbl[sd], 1, 1 - 1) \o SubSeq(tbl[sd], 1 + 1, Len(tbl[sd]))
  <2> DEFINE Cut(i) == SubSeq(tbl[sd], 1, i - 1) \o SubSeq(tbl[sd], i + 1, Len(tbl[sd]))
  <2>1. HashDelete(tbl, sd) = [tbl EXCEPT ![sd] = z]
    <3> HIDE DEF z
    <3>1. HashDelete(tbl, sd) = IF HashGet(tbl, sd) = 0 THEN tbl
                                ELSE [tbl EXCEPT ![Bucket(sd)] = Cut(HashGet(tbl, sd))]
      BY <1>1 DEF HashDelete
    <3>2. HashDelete(tbl, sd) = [tbl EXCEPT ![sd] = Cut(1)]
      BY <1>1, <1>2, <3>1
    <3> QED  BY <3>2 DEF z
  <2>2. z = <<>>
    BY <1>3
  <2> HIDE DEF z
  <2> QED  BY <2>1, <2>2
<1>5. <<>> \in Seq([key : Sds, data : Blocks])
  OBVIOUS
<1> QED  BY <1>4, <1>5

\* After the last slot the queue goes and the lock is released.
LEMMA OwnCloseQueue ==
  ASSUME TypeOK, TypeOK', Ownership, NEW t \in Apps, NEW c \in Blocks, pc[t] = "passive",
         cur[t] = <<c>>, writer = t, Entered(c), Quiet(c), queue[c] # NULL,
         k[t] # 0, k[t] \notin DOMAIN queue[c].slots,
         listen_table' = HashDelete(listen_table, ctx[c].my_sd),
         queue' = [queue EXCEPT ![c] = NULL], writer' = NULL,
         pc' = [pc EXCEPT ![t] = "free"], k' = [k EXCEPT ![t] = 0],
         UNCHANGED <<global_ctx, ctx, tr, held, slot, cur>>
  PROVE  Ownership'
<1> USE OwnershipParts
<1>1. t \in Threads /\ t \notin Blocks /\ t # NULL /\ Closing(t) /\ k[t] \in Nat
  BY ThreadFacts, SdsFacts DEF Closing, CloseStates, TypeOK
<1>2. /\ pc'[t] = "free" /\ \A u \in Threads : u # t => pc'[u] = pc[u] /\ k'[u] = k[u]
      /\ \A d \in Blocks : pc'[d] = pc[d] /\ k'[d] = k[d]
  BY <1>1, ThreadFacts DEF TypeOK
<1>3. queue'[c] = NULL /\ \A d \in Blocks : d # c => queue'[d] = queue[d]
  BY DEF Owned
<1>4. \A u, d : On(u, d)' = On(u, d)
  BY DEF On
<1>5. \A d \in Blocks : Entered(d)' = Entered(d)
  BY DEF Entered
<1>6. \A d \in Blocks : On(t, d) <=> d = c
  BY StackMembers
<1>7. \A d \in Blocks : d # c => Still(d)
  BY <1>2, <1>3, <1>5 DEF Still
<1>8. \A u \in Threads : Creating(u)' = Creating(u) /\ Closing(u)' = Closing(u)
  BY <1>1, <1>2 DEF Creating, Closing, CloseStates
<1>9. \A d \in Blocks : \A j : ~Scanned(d, j)' /\ (d # c => ~Scanned(d, j))
  BY <1>1, <1>6 DEF Scanned
<1>10. \A j, sd : Holds(c, j, sd) => Scanned(c, j)
  <2>1. queue[c].slots \in Seq(Sds \cup {-1})
    BY SlotFacts
  <2>2. PICK n \in Nat : DOMAIN queue[c].slots = 1..n
    BY <2>1
  <2>3. n < k[t]
    BY <1>1, <2>2
  <2> QED  BY <1>1, <1>6, <2>2, <2>3 DEF Holds, Scanned
<1>11. \A d \in Blocks : \A j, sd : /\ Holds(d, j, sd)' <=> d # c /\ Holds(d, j, sd)
                                    /\ Waiting(d, j, sd)' <=> Waiting(d, j, sd)
                                    /\ Waiting(d, j, sd) => d # c
  <2>1. \A d \in Blocks : \A j, sd : Holds(d, j, sd)' <=> d # c /\ Holds(d, j, sd)
    BY <1>3 DEF Holds
  <2> QED  BY <1>9, <1>10, <2>1 DEF Waiting
<1>12. Table'
  <2>1. \A u \in Threads : Creating(u)' => \E d \in Blocks : cur'[u] = <<d>> /\ Blank(d)' /\ ~Entered(d)'
    BY <1>2, <1>5, <1>8 DEF Table, Blank
  <2> QED  BY <1>4, <1>5, <1>8, <2>1 DEF Table
<1>13. Exclusive'
  <2>1. \A a \in Apps : pc[a] \in {"connect", "accept"} => pc'[a] = pc[a]
    BY <1>1, <1>2, ThreadFacts
  <2> QED  BY <1>4, <2>1 DEF Exclusive
<1>14. ASSUME NEW a \in Apps, a # t PROVE Calling(a)' /\ Stack(a)'
  <2>1. (writer' = a) = (writer = a)
    BY <1>14, SdsFacts
  <2>2. \A d \in Blocks : On(a, d) => Still(d)
    BY <1>1, <1>6, <1>7, <1>14, ThreadFacts DEF Exclusive
  <2> QED  BY <1>2, <1>14, <2>1, <2>2, AppFrame, ThreadFacts
<1>15. Calling(t)' /\ Stack(t)'
  <2>1. Reached(t, c)'
    BY <1>2, <1>3, <1>5 DEF Reached, Quiet
  <2> QED  BY <1>1, <1>2, <2>1 DEF Calling, Stack
<1>16. ASSUME NEW d \in Blocks PROVE Listener(d)'
  <2>1. pc[d] \in {"none", "poll", "read", "done"}
    <3>1. Readers = {}
      BY <1>1 DEF Locked
    <3>2. pc[d] \in RecvStates /\ pc[d] \notin {"scan", "store", "pass"}
      BY <3>1 DEF Readers, TypeOK
    <3> QED  BY <3>2 DEF RecvStates
  <2>2. Listener(d)
    OBVIOUS
  <2> QED  BY <1>2, <1>5, <2>1, <2>2 DEF Listener
<1>17. Locked'
  BY DEF Locked
<1>18. Hashed'
  <2>1. PICK x \in Sds : x = ctx[c].my_sd /\ global_ctx[x] = c
    BY TableFacts
  <2>2. listen_table[x] = <<[key |-> x, data |-> c]>>
    BY <2>1, SdsFacts DEF Hashed
  <2>3. /\ listen_table' \in [Sds -> Seq([key : Sds, data : Blocks])]
        /\ listen_table'[x] = <<>> /\ \A y \in Sds : y # x => listen_table'[y] = listen_table[y]
    BY <2>1, <2>2, HashDeleteFacts DEF Hashed
  <2>4. \A y \in Sds : y # x => global_ctx[y] # c
    BY <2>1, SdsFacts, TableFacts
  <2>5. ASSUME NEW y \in Sds
        PROVE  IF global_ctx[y] # NULL /\ queue'[global_ctx[y]] # NULL
               THEN listen_table'[y] = <<[key |-> y, data |-> global_ctx[y]]>>
               ELSE listen_table'[y] = <<>>
    <3>1. CASE y = x
      BY <1>3, <2>1, <2>3, <3>1
    <3>2. CASE y # x
      <4>1. global_ctx[y] # NULL => queue'[global_ctx[y]] = queue[global_ctx[y]]
        BY <1>3, <2>4, <3>2 DEF TypeOK
      <4> QED  BY <2>3, <3>2, <4>1 DEF Hashed
    <3> QED  BY <3>1, <3>2
  <2> QED  BY <2>3, <2>5 DEF Hashed
<1>19. Owned'
  <2>1. queue' \in [Blocks -> Queues \cup {NULL}]
    BY DEF Owned
  <2>2. \A d \in Blocks : queue'[d] # NULL => Entered(d)' /\ ctx'[d].listening
    BY <1>3, <1>5 DEF Owned
  <2>3. ASSUME NEW d \in Blocks, ctx[d] # NULL, ctx[d].listening, queue'[d] = NULL
        PROVE  \E a \in Apps : pc'[a] = "free" /\ On(a, d)'
    <3>1. CASE d = c
      BY <1>2, <1>4, <1>6, <3>1
    <3>2. CASE d # c
      <4>1. PICK a \in Apps : pc[a] = "free" /\ On(a, d)
        BY <1>3, <2>3, <3>2 DEF Owned
      <4> QED  BY <1>2, <1>4, <4>1, ThreadFacts
    <3> QED  BY <3>1, <3>2
  <2>4. ASSUME NEW d \in Blocks, queue'[d] # NULL
        PROVE  \/ ctx'[d].recv_thread_started
               \/ \E a \in Apps : Closing(a)' /\ On(a, d)'
               \/ /\ queue'[d].completed = <<>>
                  /\ \A j \in DOMAIN queue'[d].slots : queue'[d].slots[j] = -1
    <3>1. queue'[d] = queue[d] /\ queue[d] # NULL
      BY <1>3, <2>4
    <3>2. \/ ctx[d].recv_thread_started
          \/ \E a \in Apps : Closing(a) /\ On(a, d)
          \/ queue[d].completed = <<>> /\ \A j \in DOMAIN queue[d].slots : queue[d].slots[j] = -1
      BY <3>1 DEF Owned
    <3> QED  BY <1>4, <1>8, <3>1, <3>2, ThreadFacts
  <2> QED  BY <2>1, <2>2, <2>3, <2>4 DEF Owned
<1>20. Slots'
  <2>1. \A d \in Blocks, sd \in Sds : Pending(d, sd) => Pending(d, sd)'
    BY <1>4 DEF Pending
  <2> QED  BY <1>11, <2>1 DEF Slots
<1>21. Completions'
  <2>1. SUFFICES ASSUME NEW d \in Blocks, d # c, queue[d] # NULL
                 PROVE  /\ \A i \in DOMAIN queue[d].completed :
                             /\ \E j \in Nat : Holds(d, j, queue[d].completed[i])'
                             /\ tr[global_ctx[queue[d].completed[i]]] # "handshake"
                        /\ \A i, j \in DOMAIN queue[d].completed :
                             queue[d].completed[i] = queue[d].completed[j] => i = j
    BY <1>3 DEF Completions
  <2>2. /\ \A i \in DOMAIN queue[d].completed :
             /\ \E j \in Nat : Holds(d, j, queue[d].completed[i])
             /\ tr[global_ctx[queue[d].completed[i]]] # "handshake"
        /\ \A i, j \in DOMAIN queue[d].completed :
             queue[d].completed[i] = queue[d].completed[j] => i = j
    BY <1>6, <2>1 DEF Completions
  <2> QED  BY <1>3, <2>1, <2>2 DEF Holds
<1>22. Transports'
  <2>1. ASSUME NEW d \in Blocks, tr[d] = "handshake", ~ctx[d].is_active PROVE Reports(d)'
    <3>1. PICK l \in Blocks, j \in Nat :
             /\ Holds(l, j, ctx[d].my_sd) /\ ctx[d].listen_sd = ctx[l].my_sd
             /\ Scanned(l, j) => cur[writer] = <<d, l>>
      BY <2>1 DEF Transports, Reports
    <3>2. l # c
      BY <1>10, <3>1
    <3>3. Holds(l, j, ctx[d].my_sd)' /\ ~Scanned(l, j)'
      BY <1>3, <1>9, <3>1, <3>2 DEF Holds
    <3> QED  BY <3>1, <3>3 DEF Reports
  <2>2. \A a \in Apps : pc[a] = "connect" => pc'[a] = "connect"
    BY <1>1, <1>2, ThreadFacts
  <2> QED  BY <1>4, <1>5, <2>1, <2>2 DEF Transports
<1>23. ASSUME NEW d \in Blocks, ctx'[d] # NULL PROVE Closable(d)'
  <2>1. Closable(d)
    BY <1>23
  <2>2. ASSUME NEW l \in Blocks, NEW j \in Nat, Waiting(l, j, ctx[d].my_sd)
        PROVE  Waiting(l, j, ctx[d].my_sd)'
    <3>1. PICK x : x = ctx[d].my_sd
      OBVIOUS
    <3>2. Waiting(l, j, x)'
      BY <1>11, <2>2, <3>1
    <3> QED  BY <3>1, <3>2
  <2> QED  BY <1>4, <2>1, <2>2 DEF Closable, Unaccepted
<1> QED  BY <1>12, <1>13, <1>14, <1>15, <1>16, <1>17, <1>18, <1>19, <1>20, <1>21, <1>22, <1>23 DEF Ownership

LEMMA OwnClosePassive ==
  ASSUME TypeOK, TypeOK', Ownership, NEW t \in Apps, ClosePassive(t)
  PROVE  Ownership'
<1>1. pc[t] = "passive" /\ Works(t)
  BY DEF ClosePassive
<1>2. PICK c \in Blocks :
           /\ c = Top(t) /\ cur[t] = <<c>> /\ writer = t /\ Entered(c) /\ ctx[c] # NULL
           /\ Quiet(c) /\ ctx[c].listening /\ queue[c] # NULL /\ QueueOf(c) = c
           /\ k[t] \in Nat /\ k[t] # 0
  BY <1>1, PassiveFacts
<1>3. QueueOf(c) # NULL
  BY <1>2, SdsFacts
<1>4. CASE /\ k[t] \in DOMAIN queue[c].slots /\ queue[c].slots[k[t]] # -1
           /\ CloseRequest(t, queue[c].slots[k[t]]) /\ k' = [k EXCEPT ![t] = @ + 1]
           /\ UNCHANGED <<global_ctx, tr, open, queueVars, slot, held>>
  BY <1>1, <1>2, <1>4, OwnCloseSlot DEF queueVars
<1>5. CASE /\ queue[c].slots[k[t]] = -1 /\ k' = [k EXCEPT ![t] = @ + 1]
           /\ UNCHANGED <<tableVars, queueVars, pc, cur, slot, held>>
  BY <1>1, <1>2, <1>5, OwnSkipSlot DEF queueVars, tableVars
<1>6. CASE /\ k[t] \notin DOMAIN queue[c].slots
           /\ listen_table' = HashDelete(listen_table, ctx[c].my_sd)
           /\ queue' = [queue EXCEPT ![c] = NULL]
           /\ writer' = NULL /\ pc' = [pc EXCEPT ![t] = "free"] /\ k' = [k EXCEPT ![t] = 0]
           /\ UNCHANGED <<tableVars, cur, slot, held>>
  BY <1>1, <1>2, <1>6, OwnCloseQueue DEF tableVars
<1> QED  BY <1>2, <1>3, <1>4, <1>5, <1>6 DEF ClosePassive

\* What myclose frees: a context whose threads have ended, that only this
\* call works on and whose descriptor nobody has any more.
LEMMA FreeFacts ==
  ASSUME TypeOK, Receiving, Ownership, NEW t \in Apps, pc[t] = "free", Works(t)
  PROVE  \E c \in Blocks :
           /\ c = Top(t) /\ ctx[c] # NULL /\ On(t, c) /\ t # c /\ Entered(c)
           /\ tr[c] \in {"none", "exited"} /\ pc[c] \in {"none", "done"} /\ queue[c] = NULL
           /\ \A u \in Threads : On(u, c) => u = t
           /\ \A a \in Apps : \A x \in held[a] : global_ctx[x] # c
           /\ \/ cur[t] = <<c>> /\ writer # t
              \/ \E l \in Blocks : /\ cur[t] = <<c, l>> /\ c # l /\ writer = t
                                   /\ Entered(l) /\ queue[l] # NULL /\ Quiet(l)
<1> USE OwnershipParts
<1>1. Closing(t) /\ t \in Threads /\ t \notin Blocks
  BY ThreadFacts DEF Closing, CloseStates
<1>2. PICK c \in Blocks : c = Top(t) /\ ctx[c] # NULL /\ On(t, c)
  BY <1>1, TopFacts
<1>3. /\ Reached(t, c)
      /\ \/ cur[t] = <<c>> /\ writer # t
         \/ \E l \in Blocks : /\ cur[t] = <<c, l>> /\ c # l /\ writer = t
                              /\ Entered(l) /\ queue[l] # NULL /\ Quiet(l)
  BY <1>1, <1>2 DEF Stack, Top
<1>4. /\ Entered(c) /\ tr[c] \in {"none", "exited"} /\ queue[c] = NULL /\ ~ctx[c].recv_thread_started
  BY <1>3 DEF Reached
<1>5. pc[c] \in {"none", "done"}
  BY <1>2, <1>4 DEF Receiving
<1>6. \A u \in Threads : On(u, c) => u = t
  BY <1>1, <1>2 DEF Exclusive
<1>7. ASSUME NEW a \in Apps, NEW x \in held[a], global_ctx[x] = c PROVE FALSE
  <2>1. On(t, global_ctx[x])
    BY <1>2, <1>7
  <2> QED  BY <1>1, <2>1 DEF Exclusive
<1> QED  BY <1>1, <1>2, <1>3, <1>4, <1>5, <1>6, <1>7

\* The step in terms of what each thread and each context has.
LEMMA FreeEffect ==
  ASSUME TypeOK, SocketsOwned, NEW t \in Apps, NEW c \in Blocks, CloseFree(t), c = Top(t),
         ctx[c] # NULL, Entered(c), tr[c] \in {"none", "exited"}
  PROVE  /\ ctx'[c] = NULL /\ tr'[c] = "none"
         /\ \A d \in Blocks : d # c => ctx'[d] = ctx[d] /\ tr'[d] = tr[d]
         /\ global_ctx'[ctx[c].my_sd] = NULL
         /\ \A x \in Sds : x # ctx[c].my_sd => global_ctx'[x] = global_ctx[x]
         /\ \A u \in Threads : u # t => cur'[u] = cur[u] /\ pc'[u] = pc[u]
         /\ cur[t] = <<c>> => cur'[t] = <<>> /\ pc'[t] = "idle"
         /\ \A l \in Blocks : cur[t] = <<c, l>> => cur'[t] = <<l>> /\ pc'[t] = "passive"
         /\ UNCHANGED <<queueVars, k, slot, held>>
<1>1. /\ FreeContext(c) /\ global_ctx' = ClearEntry(c)
      /\ cur' = [cur EXCEPT ![t] = Tail(@)]
      /\ pc' = [pc EXCEPT ![t] = IF Len(cur[t]) = 1 THEN "idle" ELSE "passive"]
      /\ UNCHANGED <<queueVars, k, slot, held>>
  BY DEF CloseFree
<1>2. t \in Threads /\ ctx[c].my_sd \in Sds /\ global_ctx[ctx[c].my_sd] = c
  BY ThreadFacts, LiveFacts DEF Entered
<1>3. ctx'[c] = NULL /\ \A d \in Blocks : d # c => ctx'[d] = ctx[d]
  BY <1>1, SocketsClosed
<1>4. tr'[c] = "none" /\ \A d \in Blocks : d # c => tr'[d] = tr[d]
  BY <1>1 DEF FreeContext, TypeOK
<1>5. /\ global_ctx'[ctx[c].my_sd] = NULL
      /\ \A x \in Sds : x # ctx[c].my_sd => global_ctx'[x] = global_ctx[x]
  BY <1>1, <1>2 DEF ClearEntry, TypeOK
<1>6. /\ cur'[t] = Tail(cur[t]) /\ pc'[t] = IF Len(cur[t]) = 1 THEN "idle" ELSE "passive"
      /\ \A u \in Threads : u # t => cur'[u] = cur[u] /\ pc'[u] = pc[u]
  BY <1>1, <1>2 DEF TypeOK
<1>7. cur[t] = <<c>> => cur'[t] = <<>> /\ pc'[t] = "idle"
  BY <1>6
<1>8. ASSUME NEW l \in Blocks, cur[t] = <<c, l>> PROVE cur'[t] = <<l>> /\ pc'[t] = "passive"
  BY <1>6, <1>8
<1> QED  BY <1>1, <1>3, <1>4, <1>5, <1>6, <1>7, <1>8

LEMMA OwnCloseFree ==
  ASSUME TypeOK, TypeOK', Receiving, SocketsOwned, Ownership, NEW t \in Apps, CloseFree(t)
  PROVE  Ownership'
<1> USE OwnershipParts
<1>1. pc[t] = "free" /\ Works(t) /\ t \in Threads /\ Closing(t) /\ t # NULL
  BY ThreadFacts, SdsFacts DEF CloseFree, Closing, CloseStates
<1>2. PICK c \in Blocks :
           /\ c = Top(t) /\ ctx[c] # NULL /\ On(t, c) /\ t # c /\ Entered(c)
           /\ tr[c] \in {"none", "exited"} /\ pc[c] \in {"none", "done"} /\ queue[c] = NULL
           /\ \A u \in Threads : On(u, c) => u = t
           /\ \A a \in Apps : \A x \in held[a] : global_ctx[x] # c
           /\ \/ cur[t] = <<c>> /\ writer # t
              \/ \E l \in Blocks : /\ cur[t] = <<c, l>> /\ c # l /\ writer = t
                                   /\ Entered(l) /\ queue[l] # NULL /\ Quiet(l)
  BY <1>1, FreeFacts
<1>3. PICK x \in Sds : x = ctx[c].my_sd /\ global_ctx[x] = c
  BY <1>2, TableFacts
<1>4. /\ ctx'[c] = NULL /\ tr'[c] = "none"
      /\ \A d \in Blocks : d # c => ctx'[d] = ctx[d] /\ tr'[d] = tr[d]
      /\ global_ctx'[x] = NULL
      /\ \A y \in Sds : y # x => global_ctx'[y] = global_ctx[y]
      /\ \A u \in Threads : u # t => cur'[u] = cur[u] /\ pc'[u] = pc[u]
      /\ cur[t] = <<c>> => cur'[t] = <<>> /\ pc'[t] = "idle"
      /\ \A l \in Blocks : cur[t] = <<c, l>> => cur'[t] = <<l>> /\ pc'[t] = "passive"
      /\ UNCHANGED <<queueVars, k, slot, held>>
  BY <1>2, <1>3, FreeEffect
<1>5. queue' = queue /\ listen_table' = listen_table /\ writer' = writer /\ k' = k /\ slot' = slot /\ held' = held
  BY <1>4 DEF queueVars
<1>6. \A d \in Blocks : pc'[d] = pc[d] /\ cur'[d] = cur[d]
  BY <1>4, ThreadFacts
<1>7. \A y \in Sds : global_ctx[y] = c => y = x
  BY <1>3, SdsFacts, TableFacts
<1>8. \A d \in Blocks : d # c => Entered(d)' = Entered(d)
  <2>1. SUFFICES ASSUME NEW d \in Blocks, d # c, ctx[d] # NULL PROVE Entered(d)' = Entered(d)
    BY <1>4 DEF Entered
  <2>2. PICK y \in Sds : y = ctx[d].my_sd /\ y = ctx'[d].my_sd
    BY <1>4, <2>1, LiveFacts
  <2>3. (global_ctx'[y] = d) <=> (global_ctx[y] = d)
    BY <1>3, <1>4, <2>1, SdsFacts
  <2> QED  BY <1>4, <2>1, <2>2, <2>3 DEF Entered
<1>9. \A d \in Blocks : d # c => Still(d)
  BY <1>4, <1>5, <1>6, <1>8 DEF Still
<1>10. \A u \in Threads, d \in Blocks : u # t /\ On(u, d) => Still(d) /\ d # c
  BY <1>2, <1>9
<1>11. \A u \in Threads, d \in Blocks : /\ u # t => (On(u, d)' <=> On(u, d))
                                        /\ On(t, d)' <=> On(t, d) /\ d # c
  <2>1. \A u \in Threads, d \in Blocks : u # t => (On(u, d)' <=> On(u, d))
    BY <1>4 DEF On
  <2>2. \A d \in Blocks : On(t, d)' <=> On(t, d) /\ d # c
    BY <1>2, <1>4, StackMembers, StackMembersNext
  <2> QED  BY <2>1, <2>2
<1>12. /\ \A u \in Threads : u # t => Creating(u)' = Creating(u) /\ Closing(u)' = Closing(u)
       /\ ~Creating(t) /\ ~Creating(t)'
  BY <1>1, <1>2, <1>4 DEF Creating, Closing
<1>13. writer = t => Closing(t)' /\ \A d \in Blocks : On(t, d) /\ d # c => queue[d] # NULL
  <2>1. SUFFICES ASSUME writer = t
                 PROVE  Closing(t)' /\ \A d \in Blocks : On(t, d) /\ d # c => queue[d] # NULL
    OBVIOUS
  <2>2. PICK l \in Blocks : cur[t] = <<c, l>> /\ queue[l] # NULL
    BY <1>2, <2>1
  <2> QED  BY <1>4, <2>2, StackMembers DEF Closing, CloseStates
<1>14. writer # t => \A d \in Blocks : On(t, d) => d = c
  BY <1>2, StackMembers
<1>15. Table'
  <2>1. ASSUME NEW y \in Sds, global_ctx'[y] # NULL
        PROVE  ctx'[global_ctx'[y]] # NULL /\ ctx'[global_ctx'[y]].my_sd = y
    <3>1. y # x /\ global_ctx'[y] = global_ctx[y] /\ global_ctx[y] # c
      BY <1>4, <1>7, <2>1
    <3>2. global_ctx[y] \in Blocks /\ ctx[global_ctx[y]] # NULL /\ ctx[global_ctx[y]].my_sd = y
      BY <2>1, <3>1, TableFacts
    <3> QED  BY <1>4, <3>1, <3>2
  <2>2. ASSUME NEW d \in Blocks, ctx'[d] # NULL
        PROVE  Entered(d)' \/ \E u \in Threads : Creating(u)' /\ On(u, d)'
    <3>1. d # c /\ ctx[d] # NULL
      BY <1>4, <2>2
    <3>2. Entered(d) \/ \E u \in Threads : Creating(u) /\ On(u, d)
      BY <3>1 DEF Table
    <3> QED  BY <1>8, <1>11, <1>12, <3>1, <3>2
  <2>3. ASSUME NEW u \in Threads, Creating(u)'
        PROVE  \E d \in Blocks : cur'[u] = <<d>> /\ Blank(d)' /\ ~Entered(d)'
    <3>1. u # t /\ Creating(u)
      BY <1>12, <2>3
    <3>2. PICK d \in Blocks : cur[u] = <<d>> /\ Blank(d) /\ ~Entered(d)
      BY <3>1 DEF Table
    <3>3. d # c
      BY <1>2, <3>2
    <3> QED  BY <1>4, <1>8, <1>9, <3>1, <3>2, <3>3, StillBlank
  <2> QED  BY <2>1, <2>2, <2>3 DEF Table
<1>16. Exclusive'
  <2>1. ASSUME NEW u \in Threads, NEW w \in Threads, NEW d \in Blocks, On(u, d)', On(w, d)'
        PROVE  u = w
    BY <1>1, <1>11, <2>1 DEF Exclusive
  <2>2. ASSUME NEW a \in Apps, NEW y \in held'[a]
        PROVE  /\ global_ctx'[y] # NULL
               /\ \A u \in Threads : On(u, global_ctx[y])' => u = a /\ pc'[a] \in {"connect", "accept"}
    <3>1. y \in held[a] /\ y \in Sds /\ global_ctx[y] # NULL /\ global_ctx[y] # c
      BY <1>2, <1>5, <2>2 DEF Exclusive, TypeOK
    <3>2. PICK d \in Blocks : d = global_ctx[y] /\ d = global_ctx'[y] /\ d # c
      BY <1>3, <1>4, <3>1 DEF TypeOK
    <3>3. ASSUME NEW u \in Threads, On(u, d)' PROVE u = a /\ pc'[a] \in {"connect", "accept"}
      <4>1. On(u, global_ctx[y])
        BY <1>11, <3>2, <3>3
      <4>2. u = a /\ pc[a] \in {"connect", "accept"}
        BY <3>1, <4>1 DEF Exclusive
      <4> QED  BY <1>1, <1>4, <4>2
    <3> QED  BY <3>1, <3>2, <3>3 DEF On
  <2>3. \A a, b \in Apps : \A y \in Sds : y \in held'[a] /\ y \in held'[b] => a = b
    BY <1>5 DEF Exclusive
  <2> QED  BY <2>1, <2>2, <2>3 DEF Exclusive
<1>17. ASSUME NEW a \in Apps, a # t PROVE Calling(a)' /\ Stack(a)'
  BY <1>4, <1>5, <1>10, <1>17, AppFrame, ThreadFacts
<1>18. Calling(t)' /\ Stack(t)'
  <2>1. CASE cur[t] = <<c>> /\ writer # t
    BY <1>4, <2>1 DEF Calling, Stack, Closing, CloseStates
  <2>2. CASE \E l \in Blocks : /\ cur[t] = <<c, l>> /\ c # l /\ writer = t
                               /\ Entered(l) /\ queue[l] # NULL /\ Quiet(l)
    <3>1. PICK l \in Blocks : /\ cur[t] = <<c, l>> /\ c # l /\ writer = t
                              /\ Entered(l) /\ queue[l] # NULL /\ Quiet(l)
      BY <2>2
    <3>2. cur'[t] = <<l>> /\ pc'[t] = "passive"
      BY <1>4, <3>1
    <3>3. Entered(l)' /\ ctx'[l] = ctx[l] /\ tr'[l] = tr[l] /\ ctx[l].listening
      BY <1>4, <1>8, <3>1 DEF Owned
    <3>4. Reached(t, l)'
      BY <1>5, <3>1, <3>2, <3>3 DEF Reached, Quiet
    <3> QED  BY <1>5, <3>1, <3>2, <3>4 DEF Calling, Stack
  <2> QED  BY <1>2, <2>1, <2>2
<1>19. ASSUME NEW d \in Blocks PROVE Listener(d)'
  <2>1. CASE d = c
    BY <1>2, <1>6, <2>1 DEF Listener
  <2>2. CASE d # c
    <3>1. pc[d] \in {"scan", "store", "pass"} =>
            slot[d] \in DOMAIN queue[d].slots /\ queue[d].slots[slot[d]] = -1
      BY DEF Listener
    <3>2. d \in Threads /\ d # t
      BY ThreadFacts
    <3> QED  BY <1>5, <1>6, <1>9, <1>10, <2>2, <3>1, <3>2, ListenerFrame
  <2> QED  BY <2>1, <2>2
<1>20. Locked'
  <2>1. Readers' = Readers
    <3>1. pc[t] # "accept" /\ pc'[t] # "accept"
      BY <1>1, <1>2, <1>4
    <3> QED  BY <1>4, <1>6, <3>1, ThreadFacts DEF Readers
  <2> QED  BY <1>5, <1>12, <1>13, <2>1, ThreadFacts DEF Locked
<1>21. Hashed'
  BY <1>2, <1>3, <1>4, <1>5, HashedFrame
<1>22. Owned'
  <2>1. ASSUME NEW a \in Apps, NEW d \in Blocks, pc[a] = "free", On(a, d), queue[d] = NULL, ctx'[d] # NULL
        PROVE  pc'[a] = "free" /\ On(a, d)'
    <3>1. d # c
      BY <1>4, <2>1
    <3>2. a # t
      BY <1>13, <1>14, <2>1, <3>1
    <3> QED  BY <1>4, <1>11, <2>1, <3>2, ThreadFacts
  <2>2. \A d \in Blocks : queue[d] # NULL => Entered(d)' /\ ctx'[d] = ctx[d] /\ ctx'[d].listening
    BY <1>2, <1>4, <1>8 DEF Owned
  <2>3. ASSUME NEW a \in Apps, NEW d \in Blocks, queue[d] # NULL, Closing(a), On(a, d)
        PROVE  Closing(a)' /\ On(a, d)'
    <3>1. d # c
      BY <1>2, <2>3
    <3>2. CASE a = t
      BY <1>1, <1>11, <1>13, <1>14, <2>3, <3>1, <3>2
    <3>3. CASE a # t
      BY <1>11, <1>12, <2>3, <3>3, ThreadFacts
    <3> QED  BY <3>2, <3>3
  <2>4. \A d \in Blocks : ctx'[d] # NULL /\ ctx'[d].listening => ctx[d] # NULL /\ ctx[d].listening
    BY <1>4
  <2> QED  BY <1>5, <2>1, <2>2, <2>3, <2>4, OwnedFrame
<1>23. QueuesStill
  <2>1. ASSUME NEW d \in Blocks, queue[d] # NULL
        PROVE  /\ ctx'[d].my_sd = ctx[d].my_sd
               /\ \A j : Scanned(d, j)' = Scanned(d, j)
               /\ (writer' # NULL /\ On(writer, d)') = (writer # NULL /\ On(writer, d))
    <3>1. d # c
      BY <1>2, <2>1
    <3>2. writer # NULL => (On(writer, d)' <=> On(writer, d))
      <4>1. SUFFICES ASSUME writer # NULL PROVE On(writer, d)' <=> On(writer, d)
        OBVIOUS
      <4>2. PICK w \in Threads : w = writer /\ w = writer'
        BY <1>5, <4>1, ThreadFacts DEF Locked
      <4>3. On(w, d)' <=> On(w, d)
        BY <1>11, <3>1
      <4> QED  BY <4>2, <4>3 DEF On
    <3>3. \A j : Scanned(d, j)' <=> Scanned(d, j)
      BY <1>5, <3>2 DEF Scanned, On
    <3>4. \A j : Scanned(d, j)' \in BOOLEAN /\ Scanned(d, j) \in BOOLEAN
      BY DEF Scanned
    <3> QED  BY <1>4, <1>5, <3>1, <3>2, <3>3, <3>4
  <2>2. ASSUME NEW d \in Blocks, Loose(d) PROVE Loose(d)' /\ Kept(d) /\ tr'[d] = tr[d]
    <3>1. d # c
      BY <1>1, <1>2, <2>2 DEF Loose
    <3>2. ctx'[d] = ctx[d] /\ tr'[d] = tr[d] /\ Entered(d)'
      BY <1>4, <1>8, <2>2, <3>1 DEF Loose
    <3>3. \A u \in Threads : ~On(u, d)'
      BY <1>11, <2>2 DEF Loose
    <3> QED  BY <1>5, <2>2, <3>2, <3>3 DEF Loose, Kept
  <2> QED  BY <1>5, <2>1, <2>2 DEF QueuesStill
<1>24. /\ Slots' /\ Completions'
       /\ \A d \in Blocks : \A j, y : Waiting(d, j, y)' = Waiting(d, j, y)
  BY <1>23, QueueFrame
<1>25. Transports'
  <2>1. \A d \in Blocks : tr'[d] # "none" => Entered(d)'
    BY <1>4, <1>8 DEF Transports
  <2>2. \A d \in Blocks : tr'[d] = "handshake" => tr[d] = "handshake" /\ Kept(d) /\ d # c
    BY <1>4 DEF Kept
  <2>3. ASSUME NEW e \in Blocks, NEW l \in Blocks,
               writer # NULL, tr[e] = "handshake", cur[writer] = <<e, l>>
        PROVE  cur'[writer'] = <<e, l>>
    <3>1. writer # t
      BY <1>2, <2>3 DEF Top
    <3> QED  BY <1>4, <1>5, <2>3, <3>1, ThreadFacts DEF Locked
  <2>4. \A a \in Apps, d \in Blocks : pc[a] = "connect" /\ On(a, d) => pc'[a] = "connect" /\ On(a, d)'
    BY <1>1, <1>4, <1>11, ThreadFacts
  <2>5. \A l \in Blocks : queue[l] # NULL =>
           ctx'[l].my_sd = ctx[l].my_sd /\ \A j : Scanned(l, j)' = Scanned(l, j)
    BY <1>23 DEF QueuesStill
  <2> QED  BY <1>5, <2>1, <2>2, <2>3, <2>4, <2>5, TransportFrame
<1>26. ASSUME NEW d \in Blocks, ctx'[d] # NULL PROVE Closable(d)'
  <2>1. d # c /\ ctx'[d] = ctx[d] /\ Closable(d)
    BY <1>4, <1>26
  <2>2. ASSUME NEW l \in Blocks, NEW j \in Nat, Waiting(l, j, ctx[d].my_sd)
        PROVE  Waiting(l, j, ctx[d].my_sd)'
    <3>1. PICK y : y = ctx[d].my_sd /\ y = ctx'[d].my_sd
      BY <2>1
    <3>2. Waiting(l, j, y)'
      BY <1>24, <2>2, <3>1
    <3> QED  BY <3>1, <3>2
  <2>3. \A u \in Threads : On(u, d) => On(u, d)'
    BY <1>11, <2>1
  <2> QED  BY <1>5, <2>1, <2>2, <2>3 DEF Closable, Unaccepted
<1> QED  BY <1>15, <1>16, <1>17, <1>18, <1>19, <1>20, <1>21, <1>22, <1>24, <1>25, <1>26 DEF Ownership
-----------------------------------------------------------------------------
(* The invariant is inductive *)

LEMMA OwnInit ==
  ASSUME Init
  PROVE  Ownership
<1>1. /\ \A sd \in Sds : global_ctx[sd] = NULL /\ listen_table[sd] = <<>>
      /\ \A c \in Blocks : ctx[c] = NULL /\ tr[c] = "none" /\ queue[c] = NULL /\ pc[c] = "none"
      /\ \A a \in Apps : pc[a] = "idle" /\ held[a] = {}
      /\ \A t \in Threads : cur[t] = <<>> /\ pc[t] \in {"idle", "none"}
      /\ writer = NULL
  BY ThreadFacts DEF Init
<1>2. \A t \in Threads : \A c : ~On(t, c)
  BY <1>1, StackMembers
<1>3. \A t \in Threads : ~Creating(t) /\ ~Closing(t)
  BY <1>1 DEF Creating, Closing, CloseStates
<1>4. \A c \in Blocks : \A j, sd : ~Holds(c, j, sd) /\ ~Waiting(c, j, sd)
  BY <1>1 DEF Holds, Waiting
<1>5. Table
  BY <1>1, <1>3 DEF Table
<1>6. Exclusive
  BY <1>1, <1>2 DEF Exclusive
<1>7. \A a \in Apps : Calling(a) /\ Stack(a)
  BY <1>1, <1>3, ThreadFacts DEF Calling, Stack
<1>8. \A c \in Blocks : Listener(c)
  BY <1>1, ThreadFacts DEF Listener
<1>9. Locked /\ Slots /\ Completions /\ Transports
  BY <1>1, <1>4 DEF Locked, Slots, Completions, Transports
<1>10. Hashed
  <2>1. <<>> \in Seq([key : Sds, data : Blocks])
    OBVIOUS
  <2>2. listen_table \in [Sds -> Seq([key : Sds, data : Blocks])]
    BY <2>1 DEF Init
  <2> QED  BY <1>1, <2>2 DEF Hashed
<1>11. Owned
  <2>1. queue \in [Blocks -> Queues \cup {NULL}]
    BY DEF Init
  <2> QED  BY <1>1, <2>1 DEF Owned
<1> QED  BY <1>1, <1>5, <1>6, <1>7, <1>8, <1>9, <1>10, <1>11 DEF Ownership

\* No step takes back that an entry of the table was taken twice, and only the
\* store of an entry can do it.
LEMMA ClashFacts ==
  ASSUME DOMAIN slot = Threads, clashed \in BOOLEAN, [Next]_vars
  PROVE  DOMAIN slot' = Threads /\ (clashed => clashed')
<1>1. ASSUME NEW t \in Threads, Scan(t) \/ Store(t)
      PROVE  slot' = slot /\ (clashed => clashed')
  BY <1>1 DEF Scan, Store
<1>2. ASSUME NEW c \in Blocks, Poll(c) \/ Established(c) \/ TransportExits(c)
      PROVE  slot' = slot /\ clashed' = clashed
  BY <1>2 DEF Poll, Established, TransportExits, threadVars
<1>3. ASSUME NEW c \in Blocks, Packet(c) \/ Pass(c)
      PROVE  DOMAIN slot' = DOMAIN slot /\ clashed' = clashed
  BY <1>3 DEF Packet, Pass
<1>4. ASSUME NEW t \in Apps, AppStep(t)
      PROVE  slot' = slot /\ clashed' = clashed
  <2>1. CASE Mysocket(t) \/ ConnectReturns(t) \/ AcceptReturns(t) \/ CloseJoin(t) \/ CloseStop(t)
             \/ CloseJoinRecv(t) \/ CloseWrLock(t) \/ ClosePassive(t) \/ CloseFree(t)
    BY <2>1 DEF Mysocket, ConnectReturns, AcceptReturns, CloseJoin, CloseStop, CloseJoinRecv,
                CloseWrLock, ClosePassive, CloseFree
  <2>2. ASSUME NEW sd \in held[t],
               \/ Mybind(t, sd) \/ Myconnect(t, sd) \/ Myaccept(t, sd)
               \/ Myclose(t, sd) \/ \E b \in Backlogs : Mylisten(t, sd, b)
        PROVE  slot' = slot /\ clashed' = clashed
    BY <2>2 DEF Mybind, Myconnect, Myaccept, Myclose, Mylisten, threadVars
  <2> QED  BY <1>4, <2>1, <2>2 DEF AppStep
<1>5. CASE UNCHANGED vars
  BY <1>5 DEF vars, threadVars
<1>6. CASE Next
  BY <1>1, <1>2, <1>3, <1>4, <1>6 DEF Next
<1> QED  BY <1>5, <1>6

LEMMA OwnStutter ==
  ASSUME Ownership, UNCHANGED vars
  PROVE  Ownership'
<1> USE OwnershipParts DEF vars, tableVars, queueVars, threadVars
<1>1. \A c, j, sd : /\ Holds(c, j, sd)' <=> Holds(c, j, sd)
                    /\ Waiting(c, j, sd)' <=> Waiting(c, j, sd)
                    /\ Pending(c, sd)' <=> Pending(c, sd)
  BY DEF Holds, Waiting, Scanned, Pending, On
<1>2. Table' /\ Exclusive'
  BY DEF Table, Exclusive, Entered, Blank, Creating, On
<1>3. ASSUME NEW a \in Apps PROVE Calling(a)' /\ Stack(a)'
  BY DEF Calling, Stack, Entered, Closing, Reached, Quiet
<1>4. ASSUME NEW c \in Blocks PROVE Listener(c)'
  BY DEF Listener, Entered, Blank
<1>5. Locked' /\ Hashed'
  BY DEF Locked, Hashed, Closing, Readers
<1>6. Owned'
  BY DEF Owned, Entered, Closing, On
<1>7. Slots'
  BY <1>1 DEF Slots
<1>8. Completions'
  BY <1>1 DEF Completions, On
<1>9. Transports'
  BY DEF Transports, Entered, Reports, Holds, Scanned, On
<1>10. ASSUME NEW c \in Blocks, ctx'[c] # NULL PROVE Closable(c)'
  BY <1>10 DEF Closable, On, Unaccepted, Waiting, Holds, Scanned
<1> QED  BY <1>2, <1>3, <1>4, <1>5, <1>6, <1>7, <1>8, <1>9, <1>10 DEF Ownership

LEMMA OwnNext ==
  ASSUME Base, Base', DOMAIN slot = Threads, Ownership, [Next]_vars, ~clashed'
  PROVE  Ownership'
<1> USE DEF Base
<1>1. ASSUME NEW t \in Threads, Scan(t) \/ Store(t) PROVE Ownership'
  BY <1>1, OwnScan, OwnStore
<1>2. ASSUME NEW c \in Blocks, Poll(c) \/ Packet(c) PROVE Ownership'
  BY <1>2, OwnPoll, OwnPacket
<1>3. ASSUME NEW c \in Blocks, Pass(c) PROVE Ownership'
  BY <1>3, OwnPass
<1>4. ASSUME NEW c \in Blocks, Established(c) \/ TransportExits(c) PROVE Ownership'
  BY <1>4, OwnEstablished, OwnTransportExits
<1>5. ASSUME NEW t \in Apps, Mysocket(t) PROVE Ownership'
  BY <1>5, OwnMysocket
<1>6. ASSUME NEW t \in Apps, NEW sd \in held[t], Mybind(t, sd) \/ Myaccept(t, sd) \/ Myclose(t, sd)
      PROVE  Ownership'
  <2>1. sd \in Sds
    BY DEF TypeOK
  <2> QED  BY <1>6, <2>1, OwnBind, OwnAccept, OwnClose
<1>7. ASSUME NEW t \in Apps, NEW sd \in held[t], Myconnect(t, sd) PROVE Ownership'
  BY <1>7, OwnConnect
<1>8. ASSUME NEW t \in Apps, NEW sd \in held[t], NEW b \in Backlogs, Mylisten(t, sd, b) PROVE Ownership'
  <2>1. b \in Nat
    BY TableAssumption
  <2> QED  BY <1>8, <2>1, OwnListen
<1>9. ASSUME NEW t \in Apps, ConnectReturns(t) \/ AcceptReturns(t) PROVE Ownership'
  BY <1>9, OwnConnected, OwnAccepted
<1>10. ASSUME NEW t \in Apps, CloseJoin(t) \/ CloseStop(t) \/ CloseJoinRecv(t) \/ CloseWrLock(t)
       PROVE  Ownership'
  BY <1>10, OwnCloseWait, OwnCloseJoinRecv, OwnCloseWrLock
<1>11. ASSUME NEW t \in Apps, ClosePassive(t) \/ CloseFree(t) PROVE Ownership'
  BY <1>11, OwnClosePassive, OwnCloseFree
<1>12. ASSUME NEW t \in Apps, AppStep(t) PROVE Ownership'
  BY <1>5, <1>6, <1>7, <1>8, <1>9, <1>10, <1>11, <1>12 DEF AppStep
<1>13. CASE Next
  BY <1>1, <1>2, <1>3, <1>4, <1>12, <1>13 DEF Next
<1> QED  BY <1>13, OwnStutter

\* TableInv holds at first and every step keeps it.
LEMMA TableInvariant == Spec => []TableInv
<1>1. Init => TableInv
  <2>1. SUFFICES ASSUME Init PROVE TableInv
    OBVIOUS
  <2>2. DOMAIN slot = Threads
    BY <2>1 DEF Init
  <2> QED  BY <2>1, <2>2, BaseInit, OwnInit DEF TableInv, Base
<1>2. TableInv /\ [Next]_vars => TableInv'
  <2>1. SUFFICES ASSUME TableInv, [Next]_vars PROVE TableInv'
    OBVIOUS
  <2>2. Base /\ DOMAIN slot = Threads /\ clashed \in BOOLEAN /\ (~clashed => Ownership)
    BY <2>1 DEF TableInv, Base, TypeOK
  <2>3. Base'
    BY <2>1, <2>2, BaseNext
  <2>4. DOMAIN slot' = Threads /\ (clashed => clashed')
    BY <2>1, <2>2, ClashFacts
  <2>5. ~clashed' => Ownership'
    BY <2>1, <2>2, <2>3, <2>4, OwnNext
  <2> QED  BY <2>3, <2>4, <2>5 DEF TableInv, Base
<1> QED  BY <1>1, <1>2, PTL DEF Spec

-----------------------------------------------------------------------------
(* What it means for the mysockets of the process *)

\* Until two threads have taken one entry of the table, no context is freed
\* while a thread of its own runs or another thread works on it.
THEOREM ContextsStayAlive == Spec => []ContextsAlive
<1>1. TableInv => ContextsAlive
  <2>1. SUFFICES ASSUME TableInv, ~clashed PROVE ContextsAlive
    BY DEF ContextsAlive
  <2>2. TypeOK /\ Ownership
    BY <2>1 DEF TableInv
  <2>3. \A c \in Blocks : pc[c] \notin {"none", "done"} => ctx[c] # NULL
    BY <2>2, OwnershipParts DEF Listener, Entered
  <2>4. \A c \in Blocks : tr[c] # "none" => ctx[c] # NULL
    BY <2>2, OwnershipParts DEF Transports, Entered
  <2>5. ASSUME NEW t \in Threads, NEW i \in DOMAIN cur[t] PROVE ctx[cur[t][i]] # NULL
    <3>1. cur[t] \in Seq(Blocks)
      BY <2>2 DEF TypeOK
    <3>2. cur[t][i] \in Blocks
      BY <3>1
    <3>3. On(t, cur[t][i])
      BY DEF On, Range
    <3> QED  BY <2>2, <3>2, <3>3, OnFacts
  <2> QED  BY <2>3, <2>4, <2>5 DEF ContextsAlive
<1> QED  BY <1>1, TableInvariant, PTL

\* Until then, every mysocket has the entry its descriptor names, every entry
\* leads to a living context, and somebody can still close it.
THEOREM MysocketsHaveOwners == Spec => []MysocketsOwned
<1>1. TableInv => MysocketsOwned
  <2>1. SUFFICES ASSUME TableInv, ~clashed PROVE MysocketsOwned
    BY DEF MysocketsOwned
  <2>2. TypeOK /\ Ownership /\ Table
    BY <2>1, OwnershipParts DEF TableInv
  <2>3. ASSUME NEW sd \in Sds, global_ctx[sd] # NULL PROVE global_ctx[sd] \in Registered
    <3>1. PICK c \in Blocks : c = global_ctx[sd] /\ ctx[c] # NULL /\ Entered(c)
      BY <2>2, <2>3, TableFacts
    <3>2. ASSUME NEW t \in Threads, Creating(t), cur[t] = <<c>> PROVE FALSE
      BY <2>2, <3>1, <3>2 DEF Table
    <3> QED  BY <3>1, <3>2 DEF Registered
  <2>4. ASSUME NEW c \in Registered
        PROVE  /\ global_ctx[ctx[c].my_sd] = c
               /\ \/ \E a \in Apps : ctx[c].my_sd \in held[a]
                  \/ \E t \in Threads : \E i \in DOMAIN cur[t] : cur[t][i] = c
                  \/ InSlot(ctx[c].my_sd)
                  \/ Unaccepted(c)
    <3>1. c \in Blocks /\ ctx[c] # NULL /\ \A t \in Threads : Creating(t) => cur[t] # <<c>>
      BY DEF Registered
    <3>2. Closable(c)
      BY <2>2, <3>1, OwnershipParts
    <3>3. Entered(c)
      <4>1. \A t \in Threads : Creating(t) => ~On(t, c)
        BY <2>2, <3>1, OnFacts
      <4> QED  BY <2>2, <3>1, <4>1 DEF Table
    <3>4. \A t \in Threads : On(t, c) => \E i \in DOMAIN cur[t] : cur[t][i] = c
      BY DEF On, Range
    <3>5. ASSUME NEW l \in Blocks, NEW j \in Nat, Waiting(l, j, ctx[c].my_sd)
          PROVE  InSlot(ctx[c].my_sd)
      <4>1. queue[l] # NULL /\ j \in SlotsOf(queue[l], ctx[c].my_sd)
        BY <3>5 DEF Waiting, Holds, SlotsOf
      <4> QED  BY <4>1 DEF InSlot
    <3> QED  BY <3>2, <3>3, <3>4, <3>5 DEF Closable, Entered
  <2> QED  BY <2>1, <2>3, <2>4 DEF MysocketsOwned
<1> QED  BY <1>1, TableInvariant, PTL

\* Until then, no assertion on descriptors, slots and queues fails.
THEOREM AssertionsNeverFail == Spec => []AssertionsHold
<1>1. TableInv => AssertionsHold
  <2>1. SUFFICES ASSUME TableInv, ~clashed PROVE AssertionsHold
    BY DEF AssertionsHold
  <2>2. TypeOK /\ Ownership
    BY <2>1 DEF TableInv
  <2> USE <2>2, OwnershipParts
  <2>3. ASSUME NEW c \in Blocks, Entered(c)
        PROVE  /\ Valid(ctx[c].my_sd) /\ Context(ctx[c].my_sd) = c
               /\ QueueOf(c) = IF queue[c] # NULL THEN c ELSE NULL
    <3>1. ctx[c] # NULL /\ ctx[c].my_sd \in Sds /\ global_ctx[ctx[c].my_sd] = c /\ c # NULL
      BY <2>3, TableFacts, SdsFacts
    <3>2. Context(ctx[c].my_sd) = c
      BY <3>1 DEF Context
    <3> QED  BY <2>3, <3>1, <3>2, QueueFacts DEF Valid
  <2>4. ASSUME NEW sd \in Sds, global_ctx[sd] # NULL
        PROVE  /\ Valid(sd) /\ Context(sd) = global_ctx[sd] /\ global_ctx[sd] \in Blocks
               /\ Entered(global_ctx[sd]) /\ ctx[global_ctx[sd]] # NULL
    <3>1. PICK c \in Blocks : c = global_ctx[sd] /\ Entered(c) /\ ctx[c] # NULL /\ ctx[c].my_sd = sd
      BY <2>4, TableFacts
    <3> QED  BY <2>3, <3>1
  <2>5. ASSUME NEW a \in Apps, NEW sd \in held[a]
        PROVE  /\ Valid(sd)
               /\ ctx[Context(sd)].listening => QueueOf(Context(sd)) # NULL
               /\ QueueOf(Context(sd)) \in {NULL, Context(sd)}
    <3>1. sd \in Sds /\ global_ctx[sd] # NULL
      BY DEF TypeOK, Exclusive
    <3>2. PICK c \in Blocks : c = global_ctx[sd] /\ c = Context(sd) /\ Valid(sd) /\ Entered(c) /\ ctx[c] # NULL
      BY <2>4, <3>1
    <3>3. QueueOf(c) = (IF queue[c] # NULL THEN c ELSE NULL) /\ c # NULL
      BY <2>3, <3>2, SdsFacts
    <3>4. ASSUME ctx[c].listening, queue[c] = NULL PROVE FALSE
      <4>1. PICK b \in Apps : pc[b] = "free" /\ On(b, c)
        BY <3>2, <3>4 DEF Owned
      <4>2. On(b, global_ctx[sd]) /\ b \in Threads
        BY <3>2, <4>1, ThreadFacts
      <4> QED  BY <4>1, <4>2 DEF Exclusive
    <3> QED  BY <3>2, <3>3, <3>4
  <2>6. ASSUME NEW c \in Blocks, pc[c] = "pass" PROVE Passable(k[c]) /\ QueueOf(c) = c
    <3>1. Entered(c) /\ queue[c] # NULL
      BY <2>6 DEF Listener
    <3>2. PICK n \in Blocks : Blank(n) /\ Entered(n) /\ ctx[n].my_sd = k[c]
      BY <2>6 DEF Listener
    <3>3. Valid(k[c]) /\ Context(k[c]) = n
      BY <2>3, <3>2
    <3> QED  BY <2>3, <3>1, <3>2, <3>3 DEF Passable, Blank
  <2>7. ASSUME NEW c \in Blocks, tr[c] = "handshake"
        PROVE  Context(ctx[c].my_sd) = c /\ (ctx[c].is_active \/ Completable(c))
    <3>1. Entered(c)
      BY <2>7 DEF Transports
    <3>2. ASSUME ~ctx[c].is_active PROVE Completable(c)
      <4>1. PICK l \in Blocks, j \in Nat : Holds(l, j, ctx[c].my_sd) /\ ctx[c].listen_sd = ctx[l].my_sd
        BY <2>7, <3>2 DEF Transports, Reports
      <4>2. queue[l] # NULL /\ Entered(l) /\ ctx[l].listening
        BY <4>1 DEF Holds, Owned
      <4>3. Valid(ctx[c].listen_sd) /\ Context(ctx[c].listen_sd) = l /\ QueueOf(l) = l
        BY <2>3, <4>1, <4>2
      <4>4. SlotsOf(queue[l], ctx[c].my_sd) # {}
        BY <4>1 DEF Holds, SlotsOf
      <4> QED  BY <4>2, <4>3, <4>4 DEF Completable
    <3> QED  BY <2>3, <3>1, <3>2
  <2>8. ASSUME NEW c \in Blocks, tr[c] = "run" PROVE Valid(ctx[c].my_sd)
    BY <2>3, <2>8 DEF Transports
  <2>9. ASSUME NEW c \in Blocks, NEW j \in Nat, NEW sd \in Sds, Waiting(c, j, sd)
        PROVE  Valid(sd) /\ Acceptable(c, sd)
    <3>1. Pending(c, sd)
      BY <2>9 DEF Slots
    <3> QED  BY <2>4, <3>1 DEF Pending, Acceptable
  <2>10. ASSUME NEW c \in Blocks, queue[c] # NULL, NEW i \in DOMAIN queue[c].completed, writer = NULL
         PROVE  Acceptable(c, queue[c].completed[i])
    <3>1. PICK sd \in Sds : sd = queue[c].completed[i]
      <4>1. queue[c].completed \in Seq(Sds)
        BY <2>10, SlotFacts
      <4> QED  BY <4>1
    <3>2. PICK j \in Nat : Holds(c, j, sd)
      BY <2>10, <3>1 DEF Completions
    <3>3. Waiting(c, j, sd)
      BY <2>10, <3>2 DEF Waiting, Scanned
    <3> QED  BY <2>9, <3>1, <3>3
  <2>11. ASSUME NEW c \in Blocks, queue[c] # NULL, NEW j \in DOMAIN queue[c].slots,
                queue[c].slots[j] # -1
         PROVE  Valid(queue[c].slots[j]) \/ (writer # NULL /\ j < k[writer])
    <3>1. PICK sd \in Sds : sd = queue[c].slots[j] /\ sd # -1
      BY <2>11, SlotFacts
    <3>2. j \in Nat /\ Holds(c, j, sd)
      BY <2>11, <3>1, SlotFacts DEF Holds
    <3>3. CASE Scanned(c, j)
      BY <3>3 DEF Scanned
    <3>4. CASE ~Scanned(c, j)
      BY <2>9, <3>1, <3>2, <3>4 DEF Waiting
    <3> QED  BY <3>3, <3>4
  <2> QED  BY <2>1, <2>5, <2>6, <2>7, <2>8, <2>10, <2>11 DEF AssertionsHold
<1> QED  BY <1>1, TableInvariant, PTL
=============================================================================
