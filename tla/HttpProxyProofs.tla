-------------------------- MODULE HttpProxyProofs --------------------------
(***************************************************************************)
(* Proofs about HttpProxy for any number of clients, any requests and any  *)
(* reply.                                                                  *)
(***************************************************************************)
EXTENDS HttpProxy, SequencesExt, SequenceTheorems, TLAPS

-----------------------------------------------------------------------------
(* The inductive invariant *)

Codes == {"400", "500", "501"}
Phases == {"none", "recv", "check", "connect", "send", "relay", "exit", "killed"}
Servers == {"none", "unknown", "refused", "open", "closed", "reset"}

TypeOK ==
  /\ new_fd \in Clients \cup {None}
  /\ request \in [Clients -> Seq(Bytes)]
  /\ arrived \in [Clients -> Nat] /\ shut \in [Clients -> BOOLEAN]
  /\ pc \in [Clients -> Phases]
  /\ total_bytes \in [Clients -> Nat] /\ recd \in [Clients -> Nat]
  /\ holders \in [Clients -> SUBSET {"kernel", "parent", "worker"}]
  /\ answer \in [Clients -> Seq(Bytes \cup Codes)]
  /\ server \in [Clients -> Servers]
  /\ forwarded \in [Clients -> Seq(Bytes)]
  /\ replied \in [Clients -> Nat] /\ relayed \in [Clients -> Nat]

\* What the worker has read: never more than has come, and the last recv
\* returned part of it.
Received(c) ==
  /\ total_bytes[c] <= arrived[c] /\ arrived[c] <= Len(request[c])
  /\ pc[c] \in {"check", "connect", "send"} => 1 <= recd[c] /\ recd[c] <= total_bytes[c]

\* From the connect on the parser has accepted the text that is counted by
\* the last recv.
Checked(c) == pc[c] \in {"connect", "send"} => GoodRequestLine(ParsedText(c))

\* Before the worker has a server nothing is answered and nothing forwarded.
Untouched(c) ==
  /\ answer[c] = <<>> /\ forwarded[c] = <<>>
  /\ replied[c] = 0 /\ relayed[c] = 0 /\ server[c] = "none"

\* The server may have spoken before it gets the request.
Connected(c) ==
  /\ answer[c] = <<>> /\ forwarded[c] = <<>> /\ relayed[c] = 0
  /\ replied[c] <= Len(Reply) /\ server[c] \in {"open", "closed", "reset"}

\* The relay has passed on the reply from its start as far as it got, after
\* an error if the request was not sent.
Before(c) == IF forwarded[c] = <<>> THEN <<"500">> ELSE <<>>
Relayed(c) ==
  /\ relayed[c] <= replied[c] /\ replied[c] <= Len(Reply)
  /\ answer[c] = Before(c) \o SubSeq(Reply, 1, relayed[c])
  /\ server[c] \in {"open", "closed", "reset"}
  /\ forwarded[c] = <<>> => server[c] = "reset"

Refused(c) ==
  /\ forwarded[c] = <<>>
  /\ \/ server[c] = "none" /\ answer[c] \in {<<"400">>, <<"501">>}
     \/ server[c] = "unknown" /\ answer[c] = <<>>
     \/ server[c] = "refused" /\ answer[c] = <<"500">>

Finished(c) ==
  \/ Refused(c)
  \/ Relayed(c) /\ (server[c] = "reset" \/ (server[c] = "closed" /\ relayed[c] = replied[c]))

Killed(c) ==
  /\ answer[c] = <<>> /\ forwarded[c] = <<>>
  /\ server[c] = "reset" \/ (server[c] = "none" /\ ParseCrashes(ParsedText(c)))

LineWhole(c) ==
  forwarded[c] # <<>> =>
    Len(forwarded[c]) >= 4 /\ forwarded[c][2] = "A" /\ SubSeq(forwarded[c], 3, 4) = CRLF

ClientInv(c) ==
  /\ Received(c) /\ Checked(c) /\ LineWhole(c)
  /\ pc[c] \in {"none", "recv", "check", "connect"} => Untouched(c)
  /\ pc[c] = "send" => Connected(c)
  /\ pc[c] = "relay" => Relayed(c)
  /\ pc[c] = "exit" => Finished(c)
  /\ pc[c] = "killed" => Killed(c)

ProxyInv == TypeOK /\ \A c \in Clients : ClientInv(c)

-----------------------------------------------------------------------------
(* Frames *)

\* A step that leaves alone what a client's worker and server do.
SameWorker(c) ==
  /\ request'[c] = request[c] /\ pc'[c] = pc[c]
  /\ total_bytes'[c] = total_bytes[c] /\ recd'[c] = recd[c]
  /\ answer'[c] = answer[c] /\ server'[c] = server[c] /\ forwarded'[c] = forwarded[c]
  /\ replied'[c] = replied[c] /\ relayed'[c] = relayed[c]
Same(c) == SameWorker(c) /\ arrived'[c] = arrived[c]

LEMMA SameWorkerStep ==
  ASSUME NEW c \in Clients, ClientInv(c), SameWorker(c), Received(c)'
  PROVE  ClientInv(c)'
<1>1. ParsedText(c)' = ParsedText(c) /\ Before(c)' = Before(c)
  BY DEF SameWorker, ParsedText, Buff, Before
<1>2. Checked(c)' /\ LineWhole(c)'
  BY <1>1 DEF SameWorker, ClientInv, Checked, LineWhole
<1>3. /\ Untouched(c) => Untouched(c)'
      /\ Connected(c) => Connected(c)'
      /\ Relayed(c) => Relayed(c)'
      /\ Refused(c) => Refused(c)'
  BY <1>1 DEF SameWorker, Untouched, Connected, Relayed, Refused
<1>4. Finished(c) => Finished(c)'
  BY <1>3 DEF SameWorker, Finished
<1>5. Killed(c) => Killed(c)'
  BY <1>1 DEF SameWorker, Killed
<1> QED  BY <1>2, <1>3, <1>4, <1>5 DEF SameWorker, ClientInv

\* Each worker is a process of its own: a step of one keeps what holds of the
\* others.
LEMMA SameStep ==
  ASSUME NEW c \in Clients, ClientInv(c), Same(c)
  PROVE  ClientInv(c)'
<1>1. Received(c)'
  BY DEF Same, SameWorker, ClientInv, Received
<1> QED  BY <1>1, SameWorkerStep DEF Same

\* What is forwarded: the first recd bytes, of which the parser has seen the
\* request line.  The blank line it found comes after that line, so recd is
\* large enough.
LEMMA ForwardedFacts ==
  ASSUME TypeOK, NEW c \in Clients, Received(c), pc[c] = "send", GoodRequestLine(ParsedText(c))
  PROVE  /\ Forwarded(c) \in Seq(Bytes) /\ Forwarded(c) # <<>> /\ Len(Forwarded(c)) >= 4
         /\ Forwarded(c)[2] = "A" /\ SubSeq(Forwarded(c), 3, 4) = CRLF
<1> DEFINE q == request[c]
           n == total_bytes[c]
           m == recd[c]
           b == SubSeq(q, 1, n)
           e == b \o CRLF
           t == SubSeq(e, 1, m + 2)
           f == SubSeq(b, 1, m)
<1>1. /\ q \in Seq(Bytes) /\ Len(q) \in Nat /\ n \in Nat /\ m \in Nat
      /\ 1 <= m /\ m <= n /\ n <= Len(q)
  BY LenProperties DEF TypeOK, Received
<1>2. /\ Forwarded(c) = f /\ GoodRequestLine(t)
  BY DEF Forwarded, ParsedText, Buff
<1> HIDE DEF q, n, m
<1>3. b \in Seq(Bytes) /\ Len(b) = n
  <2>1. \A i \in 1..n : q[i] \in Bytes
    BY <1>1, ElementOfSeq
  <2>2. n \in Int /\ 1 \in Int /\ 1 <= n /\ n - 1 + 1 = n
    BY <1>1
  <2> QED  BY <2>1, <2>2, SubSeqProperties
<1> HIDE DEF b
<1>4. /\ e \in Seq(Bytes \cup {"r", "n"}) /\ Len(e) = n + 2
      /\ \A i \in 1..n : e[i] = b[i]
  <2>1. b \in Seq(Bytes \cup {"r", "n"}) /\ CRLF \in Seq(Bytes \cup {"r", "n"}) /\ Len(CRLF) = 2
    BY <1>3 DEF CRLF
  <2> HIDE DEF e
  <2>2. e \in Seq(Bytes \cup {"r", "n"}) /\ Len(e) = Len(b) + Len(CRLF)
        /\ \A i \in 1 .. Len(b) + Len(CRLF) : e[i] = IF i <= Len(b) THEN b[i] ELSE CRLF[i - Len(b)]
    BY <2>1, ConcatProperties DEF e
  <2> QED  BY <1>1, <1>3, <2>1, <2>2
<1> HIDE DEF e
<1>5. Len(t) = m + 2 /\ \A i \in 1..(m + 2) : t[i] = e[i]
  <2>1. /\ m + 2 \in Int /\ 1 \in Int /\ 1 <= m + 2 /\ (m + 2) - 1 + 1 = m + 2
        /\ \A i \in 1..(m + 2) : e[i] \in Bytes \cup {"r", "n"} /\ e[1 + i - 1] = e[i]
    <3>1. \A i \in 1..(n + 2) : e[i] \in Bytes \cup {"r", "n"}
      BY <1>1, <1>4, ElementOfSeq
    <3> QED  BY <1>1, <3>1
  <2> QED  BY <1>1, <1>4, <2>1, SubSeqProperties
<1> HIDE DEF t
<1>6. f \in Seq(Bytes) /\ Len(f) = m /\ \A i \in 1..m : f[i] = b[i]
  <2>1. \A i \in 1..m : b[i] \in Bytes /\ b[1 + i - 1] = b[i]
    BY <1>1, <1>3, ElementOfSeq
  <2> QED  BY <1>1, <2>1, SubSeqProperties
<1> HIDE DEF f
<1>7. t[2] = "A" /\ SubSeq(t, 3, 4) = CRLF /\ Has(t, CRLF \o CRLF)
  BY <1>2 DEF GoodRequestLine
<1>8. m >= 4
  <2> DEFINE p == CRLF \o CRLF
  <2>1. Len(p) = 4 /\ p[1] = "r" /\ p[2] = "n"
    <3>1. CRLF \in Seq({"r", "n"}) /\ Len(CRLF) = 2 /\ CRLF[1] = "r" /\ CRLF[2] = "n"
      BY DEF CRLF
    <3>2. /\ Len(p) = Len(CRLF) + Len(CRLF)
          /\ \A i \in 1 .. Len(CRLF) + Len(CRLF) :
               p[i] = IF i <= Len(CRLF) THEN CRLF[i] ELSE CRLF[i - Len(CRLF)]
      <4> HIDE DEF p
      <4> QED  BY <3>1, ConcatProperties DEF p
    <3> HIDE DEF p
    <3> QED  BY <3>1, <3>2
  <2>2. PICK i \in 0 .. (m + 2) - 4 : SubSeq(t, i + 1, i + 4) = p
    BY <1>5, <1>7, <2>1 DEF Has
  <2> HIDE DEF p
  <2>3. \A j \in 1 .. (i + 4) - (i + 1) + 1 : SubSeq(t, i + 1, i + 4)[j] = t[(i + 1) + j - 1]
    <3>1. i + 1 \in Int /\ i + 4 \in Int /\ \A j \in i + 1 .. i + 4 : t[j] \in {t[k] : k \in Int}
      BY <1>1, <2>2
    <3> QED  BY <3>1, SubSeqProperties
  <2>4. t[i + 1] = "r" /\ t[i + 2] = "n"
    <3>1. i \in Int /\ 1 \in 1 .. (i + 4) - (i + 1) + 1 /\ 2 \in 1 .. (i + 4) - (i + 1) + 1
          /\ (i + 1) + 1 - 1 = i + 1 /\ (i + 1) + 2 - 1 = i + 2
      BY <1>1, <2>2
    <3> QED  BY <2>1, <2>2, <2>3, <3>1
  <2>5. i # 0 /\ i # 1
    BY <1>7, <2>4
  <2> QED  BY <1>1, <2>2, <2>5
<1>9. f[2] = t[2] /\ f[3] = t[3] /\ f[4] = t[4]
  BY <1>1, <1>4, <1>5, <1>6, <1>8
<1>10. SubSeq(f, 3, 4) = CRLF
  <2> DEFINE S == {f[k] : k \in Int} \cup {t[k] : k \in Int}
  <2>1. \A i \in 3 .. 4 : f[i] \in S /\ t[i] \in S
    OBVIOUS
  <2> HIDE DEF S
  <2>2. /\ SubSeq(f, 3, 4) \in Seq(S) /\ Len(SubSeq(f, 3, 4)) = 2
        /\ \A i \in 1 .. 2 : SubSeq(f, 3, 4)[i] = f[3 + i - 1]
    BY <2>1, SubSeqProperties
  <2>3. /\ SubSeq(t, 3, 4) \in Seq(S) /\ Len(SubSeq(t, 3, 4)) = 2
        /\ \A i \in 1 .. 2 : SubSeq(t, 3, 4)[i] = t[3 + i - 1]
    BY <2>1, SubSeqProperties
  <2>4. \A i \in 1 .. 2 : SubSeq(f, 3, 4)[i] = SubSeq(t, 3, 4)[i]
    BY <1>9, <2>2, <2>3
  <2>5. SubSeq(f, 3, 4) = SubSeq(t, 3, 4)
    BY <2>2, <2>3, <2>4, SeqEqual
  <2> QED  BY <1>7, <2>5
<1>11. f # <<>>
  BY <1>6, <1>8, EmptySeq
<1> QED  BY <1>2, <1>6, <1>7, <1>8, <1>9, <1>10, <1>11

LEMMA BeforeType ==
  ASSUME NEW c \in Clients
  PROVE  Before(c) \in Seq(Bytes \cup Codes)
<1>1. <<"500">> \in Seq(Bytes \cup Codes)
  BY DEF Codes
<1>2. <<>> \in Seq(Bytes \cup Codes)
  BY EmptySeq
<1> QED  BY <1>1, <1>2 DEF Before

\* The part of the reply that one turn of the relay adds.
LEMMA ChunkFacts ==
  ASSUME NEW m \in Nat, NEW n \in Nat, m + n <= Len(Reply)
  PROVE  /\ SubSeq(Reply, 1, m) \in Seq(Bytes)
         /\ SubSeq(Reply, 1, m) \o SubSeq(Reply, m + 1, m + n) = SubSeq(Reply, 1, m + n)
<1>1. Reply \in Seq(Bytes) /\ Len(Reply) \in Nat
  BY ReplyAssumption, LenProperties
<1>2. /\ 1 \in 1..Len(Reply) + 1 /\ m \in 1 - 1..Len(Reply)
      /\ m + n \in m..Len(Reply)
  BY <1>1
<1>3. SubSeq(Reply, 1, m) \o SubSeq(Reply, m + 1, m + n) = SubSeq(Reply, 1, m + n)
  BY <1>1, <1>2, ConcatAdjacentSubSeq
<1>4. \A i \in 1..m : Reply[i] \in Bytes
  BY <1>1, ElementOfSeq
<1>5. SubSeq(Reply, 1, m) \in Seq(Bytes)
  BY <1>4, SubSeqProperties
<1> QED  BY <1>3, <1>5

-----------------------------------------------------------------------------
(* Every step preserves the invariant *)

LEMMA ProxyInit == Init => ProxyInv
<1> SUFFICES ASSUME Init PROVE ProxyInv
  OBVIOUS
<1>1. request \in [Clients -> Seq(Bytes)]
  <2>1. \A c \in Clients : request[c] \in Seq(Bytes)
    BY RequestsAssumption DEF Init
  <2>2. request \in [Clients -> UNION {Requests[c] : c \in Clients}]
    BY DEF Init
  <2> QED  BY <2>1, <2>2
<1>2. TypeOK
  BY <1>1, EmptySeq DEF Init, TypeOK, Phases, Servers
<1>3. ASSUME NEW c \in Clients PROVE ClientInv(c)
  <2>1. Len(request[c]) \in Nat
    BY <1>1, LenProperties
  <2> QED  BY <2>1 DEF Init, ClientInv, Received, Checked, LineWhole, Untouched
<1> QED  BY <1>2, <1>3 DEF ProxyInv

\* The parent touches no worker but the one it starts.
LEMMA ParentPreserves ==
  ASSUME ProxyInv, ParentStep
  PROVE  ProxyInv'
<1> USE DEF ProxyInv
<1>1. CASE Accept
  <2>1. TypeOK'
    BY <1>1 DEF Accept, TypeOK, clientVars, workerVars
  <2>2. ASSUME NEW c \in Clients PROVE Same(c)
    BY <1>1 DEF Accept, Same, SameWorker, clientVars, workerVars
  <2> QED  BY <2>1, <2>2, SameStep
<1>2. CASE CloseCopy
  <2>1. TypeOK'
    BY <1>2 DEF CloseCopy, ParentCloses, TypeOK, clientVars, workerVars
  <2>2. ASSUME NEW c \in Clients PROVE Same(c)
    BY <1>2 DEF CloseCopy, Same, SameWorker, clientVars, workerVars
  <2> QED  BY <2>1, <2>2, SameStep
<1>3. CASE Fork
  <2>1. TypeOK'
    BY <1>3 DEF Fork, TypeOK, Phases, clientVars
  <2>2. new_fd \in Clients /\ pc[new_fd] = "none"
    BY <1>3 DEF Fork, TypeOK
  <2>3. ASSUME NEW c \in Clients, c # new_fd PROVE ClientInv(c)'
    <3>1. Same(c)
      BY <1>3, <2>2, <2>3 DEF Fork, Same, SameWorker, TypeOK, clientVars
    <3> QED  BY <3>1, SameStep
  <2>4. ClientInv(new_fd)'
    BY <1>3, <2>2 DEF Fork, ClientInv, Received, Checked, LineWhole, Untouched, TypeOK, clientVars
  <2>5. UNCHANGED new_fd
    BY <1>3 DEF Fork
  <2> QED  BY <2>1, <2>3, <2>4, <2>5
<1> QED  BY <1>1, <1>2, <1>3 DEF ParentStep

\* Bytes arrive, or the client stops sending.
LEMMA ClientPreserves ==
  ASSUME ProxyInv, NEW c \in Clients, Arrive(c) \/ HangUp(c)
  PROVE  ProxyInv'
<1> USE DEF ProxyInv
<1>1. CASE Arrive(c)
  <2>1. PICK n \in arrived[c] + 1 .. Len(request[c]) : arrived' = [arrived EXCEPT ![c] = n]
    BY <1>1 DEF Arrive
  <2>2. /\ arrived[c] \in Nat /\ Len(request[c]) \in Nat /\ total_bytes[c] \in Nat
        /\ n \in Nat /\ arrived[c] <= n /\ n <= Len(request[c])
    BY <2>1, LenProperties DEF TypeOK
  <2>3. TypeOK'
    BY <1>1, <2>1, <2>2 DEF Arrive, TypeOK, parentVars, workerVars
  <2>4. ClientInv(c)'
    <3>1. Received(c)'
      BY <1>1, <2>1, <2>2 DEF Arrive, ClientInv, Received, TypeOK, workerVars
    <3>2. SameWorker(c)
      BY <1>1 DEF Arrive, SameWorker, workerVars
    <3> QED  BY <3>1, <3>2, SameWorkerStep
  <2>5. ASSUME NEW d \in Clients, d # c PROVE ClientInv(d)'
    <3>1. Same(d)
      BY <1>1, <2>1, <2>5 DEF Arrive, Same, SameWorker, TypeOK, workerVars
    <3> QED  BY <3>1, SameStep
  <2> QED  BY <2>3, <2>4, <2>5
<1>2. CASE HangUp(c)
  <2>1. TypeOK'
    BY <1>2 DEF HangUp, TypeOK, parentVars, workerVars
  <2>2. ASSUME NEW d \in Clients PROVE Same(d)
    BY <1>2 DEF HangUp, Same, SameWorker, workerVars
  <2> QED  BY <2>1, <2>2, SameStep
<1> QED  BY <1>1, <1>2

\* A recv takes some of what has come.
LEMMA RecvPreserves ==
  ASSUME ProxyInv, NEW c \in Clients, Recv(c)
  PROVE  ProxyInv'
<1> USE DEF ProxyInv
<1>1. PICK n \in 1 .. arrived[c] - total_bytes[c] :
        /\ recd' = [recd EXCEPT ![c] = n]
        /\ total_bytes' = [total_bytes EXCEPT ![c] = @ + n]
  BY DEF Recv
<1>2. /\ arrived[c] \in Nat /\ total_bytes[c] \in Nat /\ n \in Nat /\ 1 <= n
      /\ total_bytes[c] + n <= arrived[c] /\ Len(request[c]) \in Nat
  BY <1>1, LenProperties DEF TypeOK
<1>3. PICK where \in {"check", "recv"} : pc' = [pc EXCEPT ![c] = where]
  BY DEF Recv
<1>4. /\ pc[c] = "recv"
      /\ UNCHANGED <<new_fd, request, arrived, shut, relayed, answer, forwarded, holders,
                     server, replied>>
  BY DEF Recv, parentVars, clientVars
<1>5. TypeOK'
  <2>1. pc' \in [Clients -> Phases]
    BY <1>3 DEF TypeOK, Phases
  <2>2. total_bytes' \in [Clients -> Nat] /\ recd' \in [Clients -> Nat]
    BY <1>1, <1>2 DEF TypeOK
  <2> QED  BY <1>4, <2>1, <2>2 DEF TypeOK
<1>6. ClientInv(c)'
  <2>1. Received(c)'
    BY <1>1, <1>2, <1>3, <1>4 DEF Received, ClientInv, TypeOK
  <2>2. Untouched(c)'
    BY <1>4 DEF Untouched, ClientInv
  <2> QED  BY <1>3, <1>4, <2>1, <2>2 DEF ClientInv, Checked, LineWhole, TypeOK
<1>7. ASSUME NEW d \in Clients, d # c PROVE ClientInv(d)'
  <2>1. Same(d)
    BY <1>1, <1>3, <1>4, <1>7 DEF Same, SameWorker, TypeOK
  <2> QED  BY <2>1, SameStep
<1> QED  BY <1>5, <1>6, <1>7

\* A recv that returns 0 forgets what the last one returned, in the loop only.
LEMMA RecvNothingPreserves ==
  ASSUME ProxyInv, NEW c \in Clients, RecvNothing(c)
  PROVE  ProxyInv'
<1> USE DEF ProxyInv
<1>1. /\ pc[c] = "recv" /\ recd' = [recd EXCEPT ![c] = 0]
      /\ UNCHANGED <<new_fd, request, arrived, shut, pc, total_bytes, relayed,
                     answer, forwarded, holders, server, replied>>
  BY DEF RecvNothing, parentVars, clientVars
<1>2. TypeOK'
  BY <1>1 DEF TypeOK
<1>3. ClientInv(c)'
  BY <1>1 DEF ClientInv, Received, Checked, LineWhole, Untouched
<1>4. ASSUME NEW d \in Clients, d # c PROVE ClientInv(d)'
  <2>1. Same(d)
    BY <1>1, <1>4 DEF Same, SameWorker, TypeOK
  <2> QED  BY <2>1, SameStep
<1> QED  BY <1>2, <1>3, <1>4

\* The request is refused, ends the worker, or goes on to a server.
LEMMA CheckPreserves ==
  ASSUME ProxyInv, NEW c \in Clients, Check(c)
  PROVE  ProxyInv'
<1> USE DEF ProxyInv
<1>1. /\ pc[c] = "check" /\ Received(c) /\ Untouched(c)
      /\ UNCHANGED <<new_fd, request, arrived, shut, total_bytes, recd, relayed,
                     forwarded, server, replied>>
  BY DEF Check, ClientInv, parentVars, clientVars
<1>2. ASSUME NEW code \in {"400", "501"}, answer' = [answer EXCEPT ![c] = <<code>>], Ends(c, "exit")
      PROVE  ProxyInv'
  <2>1. <<code>> \in Seq(Bytes \cup Codes) /\ <<code>> \in {<<"400">>, <<"501">>}
    BY DEF Codes
  <2>2. TypeOK'
    BY <1>1, <1>2, <2>1 DEF Ends, TypeOK, Phases
  <2>3. Refused(c)'
    BY <1>1, <1>2, <2>1 DEF Untouched, Refused, TypeOK
  <2>4. ClientInv(c)'
    BY <1>1, <1>2, <2>3 DEF Ends, ClientInv, Received, Checked, LineWhole, Untouched, Finished, TypeOK
  <2>5. ASSUME NEW d \in Clients, d # c PROVE ClientInv(d)'
    <3>1. Same(d)
      BY <1>1, <1>2, <2>5 DEF Ends, Same, SameWorker, TypeOK
    <3> QED  BY <3>1, SameStep
  <2> QED  BY <2>2, <2>4, <2>5
<1>3. CASE /\ pc' = [pc EXCEPT ![c] = "connect"] /\ UNCHANGED <<answer, holders>>
           /\ ParsedRequest_parse(ParsedText(c))
  <2>1. TypeOK'
    BY <1>1, <1>3 DEF TypeOK, Phases
  <2>2. GoodRequestLine(ParsedText(c))'
    <3>1. GoodRequestLine(ParsedText(c))
      BY <1>3 DEF ParsedRequest_parse
    <3>2. ParsedText(c)' = ParsedText(c)
      BY <1>1 DEF ParsedText, Buff
    <3> QED  BY <3>1, <3>2 DEF GoodRequestLine
  <2>3. ClientInv(c)'
    BY <1>1, <1>3, <2>2 DEF ClientInv, Received, Checked, LineWhole, Untouched, TypeOK
  <2>4. ASSUME NEW d \in Clients, d # c PROVE ClientInv(d)'
    <3>1. Same(d)
      BY <1>1, <1>3, <2>4 DEF Same, SameWorker, TypeOK
    <3> QED  BY <3>1, SameStep
  <2> QED  BY <2>1, <2>3, <2>4
<1>4. CASE ParseCrashes(ParsedText(c)) /\ Ends(c, "killed") /\ UNCHANGED answer
  <2>1. TypeOK'
    BY <1>1, <1>4 DEF Ends, TypeOK, Phases
  <2>2. Killed(c)'
    BY <1>1, <1>4 DEF Untouched, Killed, ParsedText, Buff
  <2>3. ClientInv(c)'
    BY <1>1, <1>4, <2>2 DEF Ends, ClientInv, Received, Checked, LineWhole, Untouched, TypeOK
  <2>4. ASSUME NEW d \in Clients, d # c PROVE ClientInv(d)'
    <3>1. Same(d)
      BY <1>1, <1>4, <2>4 DEF Ends, Same, SameWorker, TypeOK
    <3> QED  BY <3>1, SameStep
  <2> QED  BY <2>1, <2>3, <2>4
<1> QED  BY <1>2, <1>3, <1>4 DEF Check

\* The name is unknown, or no address answers: the worker ends.
LEMMA NoServerPreserves ==
  ASSUME ProxyInv, NEW c \in Clients, Unresolved(c) \/ ConnectFails(c)
  PROVE  ProxyInv'
<1> USE DEF ProxyInv
<1>1. /\ pc[c] = "connect" /\ Received(c) /\ Untouched(c) /\ Ends(c, "exit")
      /\ UNCHANGED <<new_fd, request, arrived, shut, total_bytes, recd, relayed,
                     forwarded, replied>>
  BY DEF Unresolved, ConnectFails, ClientInv, parentVars, clientVars
<1>2. \/ server' = [server EXCEPT ![c] = "unknown"] /\ UNCHANGED answer
      \/ server' = [server EXCEPT ![c] = "refused"] /\ answer' = [answer EXCEPT ![c] = <<"500">>]
  BY DEF Unresolved, ConnectFails
<1>3. <<"500">> \in Seq(Bytes \cup Codes)
  BY DEF Codes
<1>4. TypeOK'
  <2>1. server' \in [Clients -> Servers]
    <3>1. PICK s \in {"unknown", "refused"} : server' = [server EXCEPT ![c] = s]
      BY <1>2
    <3> QED  BY <3>1 DEF TypeOK, Servers
  <2>2. answer' \in [Clients -> Seq(Bytes \cup Codes)]
    <3>1. CASE UNCHANGED answer
      BY <3>1 DEF TypeOK
    <3>2. CASE answer' = [answer EXCEPT ![c] = <<"500">>]
      BY <3>2, <1>3 DEF TypeOK
    <3> QED  BY <1>2, <3>1, <3>2
  <2> QED  BY <1>1, <2>1, <2>2 DEF Ends, TypeOK, Phases
<1>5. ClientInv(c)'
  <2>1. Refused(c)'
    BY <1>1, <1>2 DEF Untouched, Refused, TypeOK
  <2> QED  BY <1>1, <2>1 DEF Ends, ClientInv, Received, Checked, LineWhole, Untouched, Finished, TypeOK
<1>6. ASSUME NEW d \in Clients, d # c PROVE ClientInv(d)'
  <2>1. Same(d)
    BY <1>1, <1>2, <1>6 DEF Ends, Same, SameWorker, TypeOK
  <2> QED  BY <2>1, SameStep
<1> QED  BY <1>4, <1>5, <1>6

\* The worker has a connection to the server.
LEMMA ConnectPreserves ==
  ASSUME ProxyInv, NEW c \in Clients, Connect(c)
  PROVE  ProxyInv'
<1> USE DEF ProxyInv
<1>1. /\ pc[c] = "connect" /\ Received(c) /\ Checked(c) /\ Untouched(c)
      /\ server' = [server EXCEPT ![c] = "open"]
      /\ pc' = [pc EXCEPT ![c] = "send"]
      /\ UNCHANGED <<new_fd, request, arrived, shut, total_bytes, recd, relayed,
                     answer, forwarded, holders, replied>>
  BY DEF Connect, ClientInv, parentVars, clientVars
<1>2. TypeOK'
  BY <1>1 DEF TypeOK, Phases, Servers
<1>3. Connected(c)'
  <2>1. Len(Reply) \in Nat
    BY ReplyAssumption, LenProperties
  <2> QED  BY <1>1, <2>1 DEF Connected, Untouched, TypeOK
<1>4. Checked(c)'
  BY <1>1 DEF Checked, ParsedText, Buff
<1>5. ClientInv(c)'
  BY <1>1, <1>3, <1>4 DEF ClientInv, Received, LineWhole, Untouched, TypeOK
<1>6. ASSUME NEW d \in Clients, d # c PROVE ClientInv(d)'
  <2>1. Same(d)
    BY <1>1, <1>6 DEF Same, SameWorker, TypeOK
  <2> QED  BY <2>1, SameStep
<1> QED  BY <1>2, <1>5, <1>6

\* The request goes to the server.
LEMMA SendPreserves ==
  ASSUME ProxyInv, NEW c \in Clients, Send(c)
  PROVE  ProxyInv'
<1> USE DEF ProxyInv
<1>1. /\ pc[c] = "send" /\ Received(c) /\ GoodRequestLine(ParsedText(c)) /\ Connected(c)
      /\ server[c] # "reset"
      /\ forwarded' = [forwarded EXCEPT ![c] = Forwarded(c)]
      /\ recd' = [recd EXCEPT ![c] = 0]
      /\ pc' = [pc EXCEPT ![c] = "relay"]
      /\ UNCHANGED <<new_fd, request, arrived, shut, total_bytes, relayed,
                     answer, holders, server, replied>>
  BY DEF Send, ClientInv, Checked, parentVars, clientVars
<1>2. /\ Forwarded(c) \in Seq(Bytes) /\ Forwarded(c) # <<>> /\ Len(Forwarded(c)) >= 4
      /\ Forwarded(c)[2] = "A" /\ SubSeq(Forwarded(c), 3, 4) = CRLF
  BY <1>1, ForwardedFacts
<1>3. TypeOK'
  BY <1>1, <1>2 DEF TypeOK, Phases
<1>4. forwarded'[c] = Forwarded(c) /\ pc'[c] = "relay"
  BY <1>1 DEF TypeOK
<1>5. Relayed(c)'
  <2>1. SubSeq(Reply, 1, 0) = <<>> /\ <<>> \o <<>> = <<>>
    BY SubSeqEmpty
  <2> QED  BY <1>1, <1>2, <1>4, <2>1 DEF Relayed, Before, Connected, TypeOK
<1>6. LineWhole(c)'
  BY <1>2, <1>4 DEF LineWhole
<1>7. ClientInv(c)'
  BY <1>1, <1>4, <1>5, <1>6 DEF ClientInv, Received, Checked, TypeOK
<1>8. ASSUME NEW d \in Clients, d # c PROVE ClientInv(d)'
  <2>1. Same(d)
    BY <1>1, <1>8 DEF Same, SameWorker, TypeOK
  <2> QED  BY <2>1, SameStep
<1> QED  BY <1>3, <1>7, <1>8

\* The server is gone: the client is told, or a signal ends the worker.
LEMMA SendFailsPreserves ==
  ASSUME ProxyInv, NEW c \in Clients, SendFails(c)
  PROVE  ProxyInv'
<1> USE DEF ProxyInv
<1>1. /\ pc[c] = "send" /\ Received(c) /\ Connected(c) /\ server[c] = "reset"
      /\ UNCHANGED <<new_fd, request, arrived, shut, total_bytes, relayed,
                     forwarded, server, replied>>
  BY DEF SendFails, ClientInv, parentVars, clientVars
<1>2. CASE /\ answer' = [answer EXCEPT ![c] = <<"500">>] /\ recd' = [recd EXCEPT ![c] = 0]
           /\ pc' = [pc EXCEPT ![c] = "relay"] /\ UNCHANGED holders
  <2>1. <<"500">> \in Seq(Bytes \cup Codes)
    BY DEF Codes
  <2>2. TypeOK'
    BY <1>1, <1>2, <2>1 DEF TypeOK, Phases
  <2>3. Relayed(c)'
    <3>1. SubSeq(Reply, 1, 0) = <<>> /\ <<"500">> \o <<>> = <<"500">>
      BY SubSeqEmpty
    <3>2. answer'[c] = <<"500">> /\ forwarded'[c] = <<>> /\ relayed'[c] = 0
      BY <1>1, <1>2 DEF Connected, TypeOK
    <3> QED  BY <1>1, <3>1, <3>2 DEF Relayed, Before, Connected, TypeOK
  <2>4. ClientInv(c)'
    BY <1>1, <1>2, <2>3 DEF ClientInv, Received, Checked, LineWhole, Connected, TypeOK
  <2>5. ASSUME NEW d \in Clients, d # c PROVE ClientInv(d)'
    <3>1. Same(d)
      BY <1>1, <1>2, <2>5 DEF Same, SameWorker, TypeOK
    <3> QED  BY <3>1, SameStep
  <2> QED  BY <2>2, <2>4, <2>5
<1>3. CASE Ends(c, "killed") /\ UNCHANGED <<answer, recd>>
  <2>1. TypeOK'
    BY <1>1, <1>3 DEF Ends, TypeOK, Phases
  <2>2. Killed(c)'
    <3>1. answer'[c] = <<>> /\ forwarded'[c] = <<>> /\ server'[c] = "reset"
      BY <1>1, <1>3 DEF Connected
    <3> QED  BY <3>1 DEF Killed
  <2>3. ClientInv(c)'
    BY <1>1, <1>3, <2>2 DEF Ends, ClientInv, Received, Checked, LineWhole, Connected, TypeOK
  <2>4. ASSUME NEW d \in Clients, d # c PROVE ClientInv(d)'
    <3>1. Same(d)
      BY <1>1, <1>3, <2>4 DEF Ends, Same, SameWorker, TypeOK
    <3> QED  BY <3>1, SameStep
  <2> QED  BY <2>1, <2>3, <2>4
<1> QED  BY <1>2, <1>3 DEF SendFails

\* A turn of the relay, and its end.
LEMMA RelayPreserves ==
  ASSUME ProxyInv, NEW c \in Clients, Relay(c) \/ RelayEnd(c)
  PROVE  ProxyInv'
<1> USE DEF ProxyInv
<1>1. pc[c] = "relay" /\ Received(c) /\ Relayed(c)
  BY DEF Relay, RelayEnd, ClientInv
<1>2. CASE Relay(c)
  <2>1. PICK n \in 1 .. replied[c] - relayed[c] :
          /\ answer' = [answer EXCEPT ![c] = @ \o Chunk(c, n)]
          /\ relayed' = [relayed EXCEPT ![c] = @ + n]
    BY <1>2 DEF Relay
  <2>2. UNCHANGED <<new_fd, request, arrived, shut, pc, total_bytes, recd, forwarded,
                    holders, server, replied>>
    BY <1>2 DEF Relay, parentVars, clientVars
  <2>3. /\ relayed[c] \in Nat /\ replied[c] \in Nat /\ n \in Nat /\ Len(Reply) \in Nat
        /\ relayed[c] + n <= replied[c] /\ relayed[c] + n <= Len(Reply)
        /\ relayed[c] + n \in Nat
    <3>1. relayed[c] \in Nat /\ replied[c] \in Nat /\ Len(Reply) \in Nat
      BY ReplyAssumption, LenProperties DEF TypeOK
    <3>2. replied[c] <= Len(Reply)
      BY <1>1 DEF Relayed
    <3> QED  BY <3>1, <3>2
  <2>4. answer[c] \o Chunk(c, n) = Before(c) \o SubSeq(Reply, 1, relayed[c] + n)
    <3> DEFINE x == SubSeq(Reply, 1, relayed[c])
               y == Chunk(c, n)
    <3>1. x \o y = SubSeq(Reply, 1, relayed[c] + n) /\ answer[c] = Before(c) \o x
      BY <1>1, <2>3, ChunkFacts DEF Relayed, Chunk
    <3>2. x \in Seq(Bytes \cup Codes) /\ y \in Seq(Bytes \cup Codes) /\ Before(c) \in Seq(Bytes \cup Codes)
      <4>1. x \in Seq(Bytes)
        BY <2>3, ChunkFacts
      <4>2. y \in Seq(Bytes)
        <5>1. \A i \in relayed[c] + 1 .. relayed[c] + n : Reply[i] \in Bytes
          BY <2>3, ReplyAssumption, ElementOfSeq
        <5> QED  BY <2>3, <5>1, SubSeqProperties DEF Chunk
      <4> QED  BY <4>1, <4>2, BeforeType
    <3> HIDE DEF x, y
    <3>3. (Before(c) \o x) \o y = Before(c) \o (x \o y)
      BY <3>2, ConcatAssociative
    <3> QED  BY <3>1, <3>3 DEF y
  <2>5. Before(c) \o SubSeq(Reply, 1, relayed[c] + n) \in Seq(Bytes \cup Codes)
    <3>1. (relayed[c] + n) + 0 <= Len(Reply) /\ 0 \in Nat
      BY <2>3
    <3>2. SubSeq(Reply, 1, relayed[c] + n) \in Seq(Bytes)
      BY <2>3, <3>1, ChunkFacts
    <3>3. Before(c) \in Seq(Bytes \cup Codes)
      BY BeforeType
    <3> QED  BY <3>2, <3>3
  <2>6. TypeOK'
    BY <2>1, <2>2, <2>3, <2>4, <2>5 DEF TypeOK
  <2>7. Relayed(c)'
    <3>1. Before(c)' = Before(c)
      BY <2>2 DEF Before
    <3>2. answer'[c] = Before(c) \o SubSeq(Reply, 1, relayed[c] + n) /\ relayed'[c] = relayed[c] + n
      BY <2>1, <2>4 DEF TypeOK
    <3> QED  BY <1>1, <2>2, <2>3, <3>1, <3>2 DEF Relayed
  <2>8. ClientInv(c)'
    BY <1>1, <2>2, <2>7 DEF ClientInv, Received, Checked, LineWhole
  <2>9. ASSUME NEW d \in Clients, d # c PROVE ClientInv(d)'
    <3>1. Same(d)
      BY <2>1, <2>2, <2>9 DEF Same, SameWorker, TypeOK
    <3> QED  BY <3>1, SameStep
  <2> QED  BY <2>6, <2>8, <2>9
<1>3. CASE RelayEnd(c)
  <2>1. /\ (server[c] = "closed" /\ relayed[c] = replied[c]) \/ server[c] = "reset"
        /\ Ends(c, "exit")
        /\ UNCHANGED <<new_fd, request, arrived, shut, total_bytes, recd, relayed,
                       answer, forwarded, server, replied>>
    BY <1>3 DEF RelayEnd, parentVars, clientVars
  <2>2. TypeOK'
    BY <2>1 DEF Ends, TypeOK, Phases
  <2>3. Finished(c)'
    <3>1. Relayed(c)'
      <4>1. Before(c)' = Before(c)
        BY <2>1 DEF Before
      <4> QED  BY <1>1, <2>1, <4>1 DEF Relayed
    <3> QED  BY <2>1, <3>1 DEF Finished
  <2>4. ClientInv(c)'
    BY <1>1, <2>1, <2>3 DEF Ends, ClientInv, Received, Checked, LineWhole, TypeOK
  <2>5. ASSUME NEW d \in Clients, d # c PROVE ClientInv(d)'
    <3>1. Same(d)
      BY <2>1, <2>5 DEF Ends, Same, SameWorker, TypeOK
    <3> QED  BY <3>1, SameStep
  <2> QED  BY <2>2, <2>4, <2>5
<1> QED  BY <1>2, <1>3

\* The server sends another byte, closes or resets the connection: the worker
\* is about to send the request or in its relay, or has come to its end with a
\* server that had closed.
LEMMA ServerPreserves ==
  ASSUME ProxyInv, NEW c \in Clients, ServerSends(c) \/ ServerCloses(c) \/ ServerResets(c)
  PROVE  ProxyInv'
<1> USE DEF ProxyInv
<1>1. /\ server[c] \in {"open", "closed"}
      /\ UNCHANGED <<new_fd, request, arrived, shut, pc, total_bytes, recd, relayed,
                     answer, forwarded, holders>>
  BY DEF ServerSends, ServerCloses, ServerResets, parentVars, clientVars, workerVars
<1>2. /\ Received(c) /\ Checked(c) /\ LineWhole(c)
      /\ \/ pc[c] = "send" /\ Connected(c)
         \/ pc[c] = "relay" /\ Relayed(c)
         \/ pc[c] = "exit" /\ Relayed(c) /\ server[c] = "closed"
  BY <1>1 DEF ClientInv, Untouched, Finished, Refused, Killed, TypeOK, Phases
<1>3. \/ /\ server[c] = "open" /\ replied[c] < Len(Reply)
         /\ replied' = [replied EXCEPT ![c] = @ + 1] /\ UNCHANGED server
      \/ server[c] = "open" /\ server' = [server EXCEPT ![c] = "closed"] /\ UNCHANGED replied
      \/ server' = [server EXCEPT ![c] = "reset"] /\ UNCHANGED replied
  BY DEF ServerSends, ServerCloses, ServerResets
<1>4. TypeOK'
  <2>1. server' \in [Clients -> Servers]
    <3>1. CASE UNCHANGED server
      BY <3>1 DEF TypeOK
    <3>2. ASSUME NEW s \in {"closed", "reset"}, server' = [server EXCEPT ![c] = s]
          PROVE  server' \in [Clients -> Servers]
      BY <3>2 DEF TypeOK, Servers
    <3> QED  BY <1>3, <3>1, <3>2
  <2>2. replied' \in [Clients -> Nat]
    <3>1. CASE UNCHANGED replied
      BY <3>1 DEF TypeOK
    <3>2. CASE replied' = [replied EXCEPT ![c] = @ + 1]
      <4>1. replied[c] \in Nat /\ replied[c] + 1 \in Nat
        BY DEF TypeOK
      <4> QED  BY <3>2, <4>1 DEF TypeOK
    <3> QED  BY <1>3, <3>1, <3>2
  <2> QED  BY <1>1, <2>1, <2>2 DEF TypeOK
<1>5. Len(Reply) \in Nat /\ replied[c] \in Nat /\ relayed[c] \in Nat
  BY ReplyAssumption, LenProperties DEF TypeOK
<1>6. Connected(c) => Connected(c)'
  BY <1>1, <1>3, <1>5 DEF Connected, TypeOK
<1>7. Relayed(c) => Relayed(c)'
  <2>1. Before(c)' = Before(c)
    BY <1>1 DEF Before
  <2> QED  BY <1>1, <1>3, <1>5, <2>1 DEF Relayed, TypeOK
<1>8. server[c] = "closed" => server'[c] = "reset"
  BY <1>3 DEF TypeOK
<1>9. Received(c)' /\ Checked(c)' /\ LineWhole(c)'
  BY <1>1, <1>2 DEF Received, Checked, LineWhole, ParsedText, Buff
<1>10. ClientInv(c)'
  <2>1. CASE pc[c] = "send" /\ Connected(c)
    BY <1>1, <1>6, <1>9, <2>1 DEF ClientInv
  <2>2. CASE pc[c] = "relay" /\ Relayed(c)
    BY <1>1, <1>7, <1>9, <2>2 DEF ClientInv
  <2>3. CASE pc[c] = "exit" /\ Relayed(c) /\ server[c] = "closed"
    <3>1. Finished(c)'
      BY <1>7, <1>8, <2>3 DEF Finished
    <3> QED  BY <1>1, <1>9, <2>3, <3>1 DEF ClientInv
  <2> QED  BY <1>2, <2>1, <2>2, <2>3
<1>11. ASSUME NEW d \in Clients, d # c PROVE ClientInv(d)'
  <2>1. Same(d)
    BY <1>1, <1>3, <1>11 DEF Same, SameWorker, TypeOK
  <2> QED  BY <2>1, SameStep
<1> QED  BY <1>4, <1>10, <1>11

LEMMA ProxyStep == ProxyInv /\ [Next]_vars => ProxyInv'
<1> SUFFICES ASSUME ProxyInv, [Next]_vars PROVE ProxyInv'
  OBVIOUS
<1>1. CASE UNCHANGED vars
  <2>1. TypeOK'
    BY <1>1 DEF ProxyInv, TypeOK, vars, parentVars, clientVars, workerVars
  <2>2. ASSUME NEW c \in Clients PROVE Same(c)
    BY <1>1 DEF Same, SameWorker, vars, clientVars, workerVars
  <2> QED  BY <2>1, <2>2, SameStep DEF ProxyInv
<1>2. ASSUME NEW c \in Clients, WorkerStep(c) PROVE ProxyInv'
  BY <1>2, RecvPreserves, RecvNothingPreserves, CheckPreserves, NoServerPreserves,
     ConnectPreserves, SendPreserves, SendFailsPreserves, RelayPreserves DEF WorkerStep
<1> QED  BY <1>1, <1>2, ParentPreserves, ClientPreserves, ServerPreserves DEF Next

LEMMA ProxyInvariant == Spec => []ProxyInv
BY ProxyInit, ProxyStep, PTL DEF Spec

-----------------------------------------------------------------------------
(* Theorems *)

\* client_helper sends no server part of a request line, wherever the segments
\* of the request ended, and none that ParsedRequest_parse has not accepted.
THEOREM RequestLinesWhole == Spec => []RequestLineWhole
<1>1. ProxyInv => RequestLineWhole
  BY DEF ProxyInv, ClientInv, LineWhole, RequestLineWhole
<1> QED  BY <1>1, ProxyInvariant, PTL

\* Every way out of client_helper leaves its client with one error, with the
\* server's reply as far as it came, with both if send failed, or with nothing
\* for an unknown name; a signal ends it only where a server has reset the
\* connection or the parser has met a value without a line end.
THEOREM AnswersExplained == Spec => []AnswerExplained
<1>1. ProxyInv => AnswerExplained
  <2> SUFFICES ASSUME ProxyInv, NEW c \in Clients
               PROVE  /\ pc[c] = "exit" =>
                           CASE server[c] = "none" -> answer[c] \in {<<"400">>, <<"501">>} /\ forwarded[c] = <<>>
                             [] server[c] = "unknown" -> answer[c] = <<>>
                             [] server[c] = "refused" -> answer[c] = <<"500">>
                             [] OTHER -> /\ answer[c] = Before(c) \o SubSeq(Reply, 1, relayed[c])
                                         /\ server[c] = "reset" \/ (server[c] = "closed" /\ relayed[c] = replied[c] /\ forwarded[c] # <<>>)
                      /\ pc[c] = "killed" => answer[c] = <<>> /\ (server[c] = "reset" \/ ParseCrashes(ParsedText(c)))
    BY DEF AnswerExplained, Before
  <2>1. CASE pc[c] = "exit"
    <3>1. Finished(c)
      BY <2>1 DEF ProxyInv, ClientInv
    <3>2. CASE Refused(c)
      BY <2>1, <3>2 DEF Refused
    <3>3. CASE Relayed(c) /\ (server[c] = "reset" \/ (server[c] = "closed" /\ relayed[c] = replied[c]))
      BY <2>1, <3>3 DEF Relayed
    <3> QED  BY <3>1, <3>2, <3>3 DEF Finished
  <2>2. CASE pc[c] = "killed"
    BY <2>2 DEF ProxyInv, ClientInv, Killed
  <2> QED  BY <2>1, <2>2
<1> QED  BY <1>1, ProxyInvariant, PTL
=============================================================================
