----------------------------- MODULE HttpProxy -----------------------------
(***************************************************************************)
(* The proxy of proxy.c: a parent that accepts and forks, one worker       *)
(* (client_helper) per client, the client's bytes arriving in segments,    *)
(* and the server the request is for.                                      *)
(*                                                                         *)
(* A request is a sequence of bytes.  "G" stands for GET, "A" for the rest *)
(* of a good request line, "r" and "n" for CR and LF, so that a segment    *)
(* may end anywhere, between the two as well.  ":" is the colon of a       *)
(* header line, and "K", ":", "k" is the header Connection: keep-alive.    *)
(***************************************************************************)
EXTENDS Integers, Sequences, FiniteSets, SequencesExt

CONSTANTS
  Clients,
  Bytes,
  Requests,    \* what each client may send
  Reply        \* what a server answers

ASSUME RequestsAssumption == \A c \in Clients : \A q \in Requests[c] : q \in Seq(Bytes)
ASSUME ReplyAssumption == Reply \in Seq(Bytes)

MIN_REQ_LEN == 4
CRLF == <<"r", "n">>

VARIABLES
  new_fd,     \* parent: the client just accepted, or None
  request,    \* client: its request
  arrived,    \* client: bytes of it that reached the proxy
  shut,       \* client: sends no more
  pc,         \* worker: "none", "recv", "check", "connect", "send", "relay", "exit" or "killed"
  total_bytes, recd,
  holders,    \* processes that have the client's socket open
  answer,     \* what was sent to the client
  server,     \* "none", "unknown", "refused", "open", "closed" or "reset"
  forwarded,  \* what was sent to the server
  replied, relayed   \* bytes the server sent, and those relayed

parentVars == <<new_fd>>
clientVars == <<request, arrived, shut>>
workerVars == <<pc, total_bytes, recd, relayed, answer, forwarded>>
vars == <<parentVars, clientVars, workerVars, holders, server, replied>>

None == "None"

Init == /\ new_fd = None
        /\ request \in [Clients -> UNION {Requests[c] : c \in Clients}]
        /\ \A c \in Clients : request[c] \in Requests[c]
        /\ arrived = [c \in Clients |-> 0] /\ shut = [c \in Clients |-> FALSE]
        /\ pc = [c \in Clients |-> "none"]
        /\ total_bytes = [c \in Clients |-> 0] /\ recd = [c \in Clients |-> 0]
        /\ holders = [c \in Clients |-> {"kernel"}]
        /\ answer = [c \in Clients |-> <<>>]
        /\ server = [c \in Clients |-> "none"]
        /\ forwarded = [c \in Clients |-> <<>>]
        /\ replied = [c \in Clients |-> 0] /\ relayed = [c \in Clients |-> 0]

Has(bytes, part) == \E i \in 0 .. Len(bytes) - Len(part) : SubSeq(bytes, i + 1, i + Len(part)) = part

-----------------------------------------------------------------------------
(* The parent.  A fork that fails is taken for the parent's side of one.    *)

Accept == /\ new_fd = None
          /\ \E c \in Clients :
               /\ holders[c] = {"kernel"}
               /\ new_fd' = c /\ holders' = [holders EXCEPT ![c] = {"parent"}]
          /\ UNCHANGED <<clientVars, workerVars, server, replied>>

(* mutant: the parent keeps its copy *)
ParentKeeps(c) == holders[c]

(* the parent closes its copy; the child's stays *)
ParentCloses(c) == holders[c] \ {"parent"}

Fork == /\ new_fd # None /\ pc[new_fd] = "none"
        /\ pc' = [pc EXCEPT ![new_fd] = "recv"]
        /\ holders' = [holders EXCEPT ![new_fd] = @ \cup {"worker"}]
        /\ UNCHANGED <<new_fd, clientVars, total_bytes, recd, relayed, answer, forwarded, server, replied>>

(* after fork, or instead of one that failed: processes may run out, since  *)
(* no child is ever waited for                                              *)
CloseCopy == /\ new_fd # None
             /\ holders' = [holders EXCEPT ![new_fd] = ParentCloses(new_fd)]
             /\ new_fd' = None
             /\ UNCHANGED <<clientVars, workerVars, server, replied>>

ParentStep == Accept \/ Fork \/ CloseCopy

-----------------------------------------------------------------------------
(* The client *)

Arrive(c) == /\ ~shut[c] /\ arrived[c] < Len(request[c])
             /\ \E n \in arrived[c] + 1 .. Len(request[c]) : arrived' = [arrived EXCEPT ![c] = n]
             /\ UNCHANGED <<parentVars, request, shut, workerVars, holders, server, replied>>

HangUp(c) == /\ ~shut[c]
             /\ shut' = [shut EXCEPT ![c] = TRUE]
             /\ UNCHANGED <<parentVars, request, arrived, workerVars, holders, server, replied>>

-----------------------------------------------------------------------------
(* The worker *)

Buff(c) == SubSeq(request[c], 1, total_bytes[c])

(* one recv; the loop ends at the first line end *)
Recv(c) == /\ pc[c] = "recv" /\ total_bytes[c] < arrived[c]
           /\ \E n \in 1 .. arrived[c] - total_bytes[c] :
                /\ recd' = [recd EXCEPT ![c] = n]
                /\ total_bytes' = [total_bytes EXCEPT ![c] = @ + n]
           /\ pc' = [pc EXCEPT ![c] = IF Has(SubSeq(request[c], 1, total_bytes'[c]), CRLF) THEN "check" ELSE "recv"]
           /\ UNCHANGED <<parentVars, clientVars, relayed, answer, forwarded, holders, server, replied>>

(* the client has closed before a line end: recv returns 0 for ever *)
RecvNothing(c) == /\ pc[c] = "recv" /\ total_bytes[c] = arrived[c] /\ shut[c]
                  /\ recd' = [recd EXCEPT ![c] = 0]
                  /\ UNCHANGED <<parentVars, clientVars, pc, total_bytes, relayed, answer, forwarded, holders, server, replied>>

(* the process ends, and with it its copy of the client's socket *)
Ends(c, how) == /\ pc' = [pc EXCEPT ![c] = how]
                /\ holders' = [holders EXCEPT ![c] = @ \ {"worker"}]

(* mutant: counts all bytes, although the request is sent by the last recv  *)
ParsedTextAll(c) == SubSeq(Buff(c) \o CRLF, 1, total_bytes[c] + 2)

(* the parser is given the first recd + 2 bytes of the buffer, to which a   *)
(* line end was added; recd is what the last recv returned                  *)
ParsedText(c) == SubSeq(Buff(c) \o CRLF, 1, recd[c] + 2)

(* What ParsedRequest_parse (module ParsedRequest) makes of these texts:    *)
(* the request line has to be good; every header line before the blank one  *)
(* needs a colon somewhere after its beginning; and a line end has to       *)
(* follow the second character after it, or a null pointer is used.         *)
GoodRequestLine(text) == /\ Len(text) >= MIN_REQ_LEN /\ Has(text, CRLF \o CRLF)
                         /\ text[2] = "A" /\ SubSeq(text, 3, 4) = CRLF
LineStarts(text) == {i \in 5 .. Len(text) : SubSeq(text, i - 2, i - 1) = CRLF}
HeaderStarts(text) == {i \in LineStarts(text) : \A k \in LineStarts(text) : k <= i => SubSeq(text, k, k + 1) # CRLF}
ColonsFrom(text, i) == {j \in i .. Len(text) : text[j] = ":"}
ValueUnended(text, i) == \E j \in ColonsFrom(text, i) :
                           /\ \A k \in ColonsFrom(text, i) : j <= k
                           /\ ~Has(SubSeq(text, j + 2, Len(text)), CRLF)
ParseCrashes(text) == GoodRequestLine(text) /\ \E i \in HeaderStarts(text) : ValueUnended(text, i)
ParsedRequest_parse(text) == GoodRequestLine(text) /\ \A i \in HeaderStarts(text) : ColonsFrom(text, i) # {}

(* GET is looked for in the whole buffer *)
HasGET(c) == "G" \in Range(Buff(c))

Check(c) == /\ pc[c] = "check"
            /\ \/ /\ ~HasGET(c)
                  /\ answer' = [answer EXCEPT ![c] = <<"501">>] /\ Ends(c, "exit")
               \/ /\ HasGET(c) /\ ParseCrashes(ParsedText(c))
                  /\ Ends(c, "killed") /\ UNCHANGED answer
               \/ /\ HasGET(c) /\ ~ParseCrashes(ParsedText(c)) /\ ~ParsedRequest_parse(ParsedText(c))
                  /\ answer' = [answer EXCEPT ![c] = <<"400">>] /\ Ends(c, "exit")
               \/ /\ HasGET(c) /\ ~ParseCrashes(ParsedText(c)) /\ ParsedRequest_parse(ParsedText(c))
                  /\ pc' = [pc EXCEPT ![c] = "connect"] /\ UNCHANGED <<answer, holders>>
            /\ UNCHANGED <<parentVars, clientVars, total_bytes, recd, relayed, forwarded, server, replied>>

(* the name is unknown: the worker ends without an answer *)
Unresolved(c) == /\ pc[c] = "connect"
                 /\ Ends(c, "exit")
                 /\ server' = [server EXCEPT ![c] = "unknown"]
                 /\ UNCHANGED <<parentVars, clientVars, total_bytes, recd, relayed, answer, forwarded, replied>>

(* no address answers: send and recv on the closed socket fail *)
ConnectFails(c) == /\ pc[c] = "connect"
                   /\ server' = [server EXCEPT ![c] = "refused"]
                   /\ answer' = [answer EXCEPT ![c] = <<"500">>]
                   /\ Ends(c, "exit")
                   /\ UNCHANGED <<parentVars, clientVars, total_bytes, recd, relayed, forwarded, replied>>

Connect(c) == /\ pc[c] = "connect"
              /\ server' = [server EXCEPT ![c] = "open"]
              /\ pc' = [pc EXCEPT ![c] = "send"]
              /\ UNCHANGED <<parentVars, clientVars, total_bytes, recd, relayed, answer, forwarded, holders, replied>>

(* send(sockfd2, buff, recd) *)
Forwarded(c) == SubSeq(Buff(c), 1, recd[c])

Send(c) == /\ pc[c] = "send" /\ server[c] # "reset"
           /\ forwarded' = [forwarded EXCEPT ![c] = Forwarded(c)]
           /\ recd' = [recd EXCEPT ![c] = 0]
           /\ pc' = [pc EXCEPT ![c] = "relay"]
           /\ UNCHANGED <<parentVars, clientVars, total_bytes, relayed, answer, holders, server, replied>>

(* the server has reset the connection: send returns -1, and the worker     *)
(* tells the client and goes on to the relay all the same, or SIGPIPE ends  *)
(* it, which nobody catches                                                 *)
SendFails(c) == /\ pc[c] = "send" /\ server[c] = "reset"
                /\ \/ /\ answer' = [answer EXCEPT ![c] = <<"500">>]
                      /\ recd' = [recd EXCEPT ![c] = 0]
                      /\ pc' = [pc EXCEPT ![c] = "relay"] /\ UNCHANGED holders
                   \/ Ends(c, "killed") /\ UNCHANGED <<answer, recd>>
                /\ UNCHANGED <<parentVars, clientVars, total_bytes, relayed, forwarded, server, replied>>

(* mutant: sends the buffer from its start again *)
RelayedAgain(c, n) == SubSeq(Reply, 1, n)

Chunk(c, n) == SubSeq(Reply, relayed[c] + 1, relayed[c] + n)

Relay(c) == /\ pc[c] = "relay" /\ relayed[c] < replied[c]
            /\ \E n \in 1 .. replied[c] - relayed[c] :
                 /\ answer' = [answer EXCEPT ![c] = @ \o Chunk(c, n)]
                 /\ relayed' = [relayed EXCEPT ![c] = @ + n]
            /\ UNCHANGED <<parentVars, clientVars, pc, total_bytes, recd, forwarded, holders, server, replied>>

(* recv returns 0 at the end of the reply, or -1 *)
RelayEnd(c) == /\ pc[c] = "relay"
               /\ (server[c] = "closed" /\ relayed[c] = replied[c]) \/ server[c] = "reset"
               /\ Ends(c, "exit")
               /\ UNCHANGED <<parentVars, clientVars, total_bytes, recd, relayed, answer, forwarded, server, replied>>

WorkerStep(c) == \/ Recv(c) \/ RecvNothing(c) \/ Check(c)
                 \/ Unresolved(c) \/ ConnectFails(c) \/ Connect(c) \/ Send(c) \/ SendFails(c)
                 \/ Relay(c) \/ RelayEnd(c)

-----------------------------------------------------------------------------
(* The server may speak, close or reset the connection at any time.         *)

ServerSends(c) == /\ server[c] = "open" /\ replied[c] < Len(Reply)
                  /\ replied' = [replied EXCEPT ![c] = @ + 1]
                  /\ UNCHANGED <<parentVars, clientVars, workerVars, holders, server>>

ServerCloses(c) == /\ server[c] = "open"
                   /\ server' = [server EXCEPT ![c] = "closed"]
                   /\ UNCHANGED <<parentVars, clientVars, workerVars, holders, replied>>

ServerResets(c) == /\ server[c] \in {"open", "closed"}
                   /\ server' = [server EXCEPT ![c] = "reset"]
                   /\ UNCHANGED <<parentVars, clientVars, workerVars, holders, replied>>

Next == \/ ParentStep
        \/ \E c \in Clients : \/ Arrive(c) \/ HangUp(c) \/ WorkerStep(c)
                             \/ ServerSends(c) \/ ServerCloses(c) \/ ServerResets(c)

(* What a server is obliged to: it answers a complete request, and then     *)
(* closes, unless it was asked to keep the connection.                      *)
Complete(bytes) == Has(bytes, CRLF \o CRLF)
KeepAlive(bytes) == Has(bytes, <<"K", ":", "k">>)
ServerAnswers(c) == /\ Complete(forwarded[c])
                    /\ \/ ServerSends(c)
                       \/ replied[c] = Len(Reply) /\ ~KeepAlive(forwarded[c]) /\ ServerCloses(c)

(* Processes run, and servers do what they must.  Clients need not send.    *)
Spec == /\ Init /\ [][Next]_vars
        /\ WF_vars(ParentStep)
        /\ \A c \in Clients : WF_vars(WorkerStep(c)) /\ WF_vars(ServerAnswers(c))

-----------------------------------------------------------------------------

(* However a request was cut on its way, a server is never sent part of a   *)
(* request line, nor a line the parser has not seen: proxy.c 65 and 140     *)
(* count by the same recv.                                                  *)
RequestLineWhole ==
  \A c \in Clients : forwarded[c] # <<>> =>
    Len(forwarded[c]) >= 4 /\ forwarded[c][2] = "A" /\ SubSeq(forwarded[c], 3, 4) = CRLF

(* When a worker is done, its client has been sent one error, or the reply  *)
(* of its server, in order and as far as it came, with the error before it  *)
(* if the request could not be sent.  It has been sent nothing where the    *)
(* name is unknown, and where a signal ended the worker, which takes a      *)
(* server that resets or a text the parser does not survive.                *)
AnswerExplained ==
  \A c \in Clients :
    /\ pc[c] = "exit" =>
         CASE server[c] = "none" -> answer[c] \in {<<"400">>, <<"501">>} /\ forwarded[c] = <<>>
           [] server[c] = "unknown" -> answer[c] = <<>>
           [] server[c] = "refused" -> answer[c] = <<"500">>
           [] OTHER -> /\ answer[c] = (IF forwarded[c] = <<>> THEN <<"500">> ELSE <<>>) \o SubSeq(Reply, 1, relayed[c])
                       /\ server[c] = "reset" \/ (server[c] = "closed" /\ relayed[c] = replied[c] /\ forwarded[c] # <<>>)
    /\ pc[c] = "killed" => answer[c] = <<>> /\ (server[c] = "reset" \/ ParseCrashes(ParsedText(c)))

(* A client that has sent the end of a line sees the end of the connection, *)
(* whatever becomes of its request: the sockets copied by fork are all      *)
(* closed.  Two faults of proxy.c 140 are excepted, for which the server    *)
(* waits: a request that came in pieces is sent without its end, and the    *)
(* client's own Connection: keep-alive is sent instead of the close that    *)
(* line 74 sets in the parsed object.                                       *)
Waits(c) == server[c] = "open" /\ (~Complete(forwarded[c]) \/ KeepAlive(forwarded[c]))
Disconnected(c) == holders[c] = {}
ClientReleased ==
  \A c \in Clients : Has(SubSeq(request[c], 1, arrived[c]), CRLF) ~> (Disconnected(c) \/ Waits(c))
=============================================================================
