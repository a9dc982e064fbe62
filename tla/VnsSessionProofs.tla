-------------------------- MODULE VnsSessionProofs --------------------------
(***************************************************************************)
(* Proofs about VnsSession for any number of routers, switches, interfaces *)
(* and frames.                                                             *)
(***************************************************************************)
EXTENDS VnsSession, SequencesExt, SequenceTheorems, TLAPS

-----------------------------------------------------------------------------
(* Lists *)

\* Putting an element that the list does not have at its end.
LEMMA AppendRange ==
  ASSUME NEW S, NEW s \in Seq(S), NEW e \in S
  PROVE  /\ Append(s, e) \in Seq(S)
         /\ Range(Append(s, e)) = Range(s) \cup {e}
         /\ IsInjective(s) /\ e \notin Range(s) => IsInjective(Append(s, e))
<1> DEFINE t == Append(s, e)
<1>1. /\ t \in Seq(S) /\ Len(s) \in Nat
      /\ DOMAIN t = 1..Len(s) + 1 /\ DOMAIN s = 1..Len(s)
      /\ t[Len(s) + 1] = e
      /\ \A i \in 1..Len(s) : t[i] = s[i]
  BY AppendProperties, LenProperties
<1> HIDE DEF t
<1>2. Range(t) = Range(s) \cup {e}
  <2>1. ASSUME NEW x \in Range(t) PROVE x \in Range(s) \cup {e}
    <3>1. PICK j \in 1..Len(s) + 1 : t[j] = x
      BY <1>1 DEF Range
    <3> QED  BY <3>1, <1>1 DEF Range
  <2>2. ASSUME NEW x \in Range(s) PROVE x \in Range(t)
    BY <1>1 DEF Range
  <2>3. e \in Range(t)
    BY <1>1 DEF Range
  <2> QED  BY <2>1, <2>2, <2>3
<1>3. ASSUME IsInjective(s), e \notin Range(s) PROVE IsInjective(t)
  <2> SUFFICES ASSUME NEW a \in 1..Len(s) + 1, NEW b \in 1..Len(s) + 1, t[a] = t[b]
               PROVE  a = b
    BY <1>1 DEF IsInjective
  <2>1. \A i \in 1..Len(s) : t[i] # e
    BY <1>1, <1>3 DEF Range
  <2>2. CASE a = Len(s) + 1 \/ b = Len(s) + 1
    BY <2>1, <2>2, <1>1
  <2>3. CASE a # Len(s) + 1 /\ b # Len(s) + 1
    BY <2>3, <1>1, <1>3 DEF IsInjective
  <2> QED  BY <2>2, <2>3
<1> QED  BY <1>1, <1>2, <1>3 DEF t

-----------------------------------------------------------------------------
(* The inductive invariant *)

Intfs == UNION {Interfaces[s] : s \in Switches}
Casts == {Packet(i, f) : i \in Intfs, f \in Frames}
Infos == {Hwinfo(Interfaces[s]) : s \in Switches}
Controls == {Msg("AUTH_REQUEST"), Msg("AUTH_STATUS")} \cup Infos

\* The messages either way.  The hardware information is always that of one
\* switch, and all of it.
ToRouter == Controls \cup Casts
ToServer == {Msg("AUTH_REPLY"), Msg("OPEN"), Msg("OPEN_TEMPLATE")}

States == {"down", "AUTH_REQUEST", "AUTH_STATUS", "RTABLE", "loop", "exit", "abort"}

RouterTypes ==
  /\ pc \in [Routers -> States]
  /\ template \in [Routers -> BOOLEAN] /\ hasKey \in [Routers -> BOOLEAN]
  /\ if_list \in [Routers -> SUBSET Intfs]
  /\ ready \in [Routers -> BOOLEAN] /\ spinning \in [Routers -> BOOLEAN]
  /\ conn \in [Routers -> {"none", "open", "lost"}]
  /\ toRouter \in [Routers -> Seq(ToRouter)] /\ toServer \in [Routers -> Seq(ToServer)]
  /\ early \in [Routers -> BOOLEAN] /\ disturbed \in [Routers -> BOOLEAN]

ServerTypes ==
  /\ srclients \in Seq(Routers)
  /\ interfaces \in {NotYet} \cup {Interfaces[s] : s \in Switches}
  /\ port_to_intfname \in SUBSET Intfs
  /\ info \in {Idle} \cup [switch : Switches, left : SUBSET Intfs]
  /\ casting \in {NoCast} \cup [msg : Casts, next : Nat \ {0}]
  /\ up \in SUBSET Switches /\ frames \in Nat

\* The messages of the negotiation among those under way.
Positions(s) == {i \in DOMAIN s : s[i].type # "PACKET"}
Quiet(s) == Positions(s) = {}
OnlyOf(s, type) == \A i, j \in Positions(s) : i = j /\ s[i].type = type

\* What the router has asked the server for, if the server has not read it yet.
Asked(r, type) == \/ type = "AUTH_REPLY" /\ pc[r] = "AUTH_STATUS"
                  \/ type = "OPEN_TEMPLATE" /\ pc[r] = "RTABLE"
                  \/ type = "OPEN" /\ pc[r] = "loop" /\ ~ready[r]

Known(r) == r \in Range(srclients)

\* A running router and the server are in step.  The server knows every router
\* that has heard from it, and a router has no interfaces before it is ready.
SessionOf(r) ==
  /\ pc[r] = "down" => conn[r] = "none"
  /\ conn[r] = "none" => ~Known(r)
  /\ pc[r] \notin {"down", "AUTH_REQUEST"} => Known(r)
  /\ ~Known(r) => toRouter[r] = <<>> /\ toServer[r] = <<>>
  /\ OnlyOf(toRouter[r], Expected(r))
  /\ Quiet(toRouter[r]) \/ (toServer[r] = <<>> /\ ~ready[r])
  /\ toServer[r] # <<>> => \E t : toServer[r] = <<Msg(t)>> /\ Asked(r, t)
  /\ ready[r] => pc[r] = "loop"
  /\ ~ready[r] => if_list[r] = {}

Gone(r) == pc[r] \in {"exit", "abort"}

SessionInv ==
  /\ RouterTypes /\ ServerTypes
  /\ \A r \in Routers : Gone(r) \/ SessionOf(r)
  /\ HwinfoWhole

-----------------------------------------------------------------------------
(* Messages *)

\* The type of a message, and what the hardware information carries.
LEMMA MessageFacts ==
  /\ \A m \in ToRouter : m.type = "HWINFO" => \E s \in Switches : m.ifs = Interfaces[s]
  /\ \A m \in Casts : m.type = "PACKET"
  /\ \A m \in Controls : m.type # "PACKET"
  /\ Msg("AUTH_REQUEST") \in Controls /\ Msg("AUTH_STATUS") \in Controls
  /\ \A s \in Switches : Hwinfo(Interfaces[s]) \in Controls
  /\ Msg("AUTH_REQUEST").type = "AUTH_REQUEST" /\ Msg("AUTH_STATUS").type = "AUTH_STATUS"
  /\ \A x : Hwinfo(x).type = "HWINFO"
<1>1. \A x : Hwinfo(x).type = "HWINFO" /\ Hwinfo(x).ifs = x
  BY DEF Hwinfo
<1>2. \A m \in Casts : m.type = "PACKET"
  BY DEF Casts, Packet
<1>3. \A t : Msg(t).type = t
  BY DEF Msg
<1>4. ASSUME NEW m \in Infos PROVE m.type = "HWINFO" /\ \E s \in Switches : m.ifs = Interfaces[s]
  BY <1>1 DEF Infos
<1>5. \A m \in Controls : m.type # "PACKET"
  BY <1>3, <1>4 DEF Controls
<1>6. ASSUME NEW m \in ToRouter, m.type = "HWINFO"
      PROVE  \E s \in Switches : m.ifs = Interfaces[s]
  <2>1. m \notin Casts /\ m # Msg("AUTH_REQUEST") /\ m # Msg("AUTH_STATUS")
    <3>1. Msg("AUTH_REQUEST").type # "HWINFO" /\ Msg("AUTH_STATUS").type # "HWINFO"
      BY <1>3
    <3> QED  BY <1>2, <1>6, <3>1
  <2>2. m \in Infos
    BY <2>1 DEF ToRouter, Controls
  <2> QED  BY <2>2, <1>4
<1>7. /\ Msg("AUTH_REQUEST") \in Controls /\ Msg("AUTH_STATUS") \in Controls
      /\ \A s \in Switches : Hwinfo(Interfaces[s]) \in Controls
  BY DEF Controls, Infos
<1> QED  BY <1>1, <1>2, <1>3, <1>5, <1>6, <1>7

\* The receiver takes the head: what follows is in step with what was there.
LEMMA TailStep ==
  ASSUME NEW s \in Seq(ToRouter), s # <<>>, NEW type, OnlyOf(s, type)
  PROVE  /\ Head(s) \in ToRouter /\ Tail(s) \in Seq(ToRouter)
         /\ OnlyOf(Tail(s), type)
         /\ Quiet(s) => Quiet(Tail(s))
         /\ Head(s).type # "PACKET" => Quiet(Tail(s)) /\ ~Quiet(s) /\ Head(s).type = type
<1>1. /\ Len(s) \in Nat \ {0} /\ DOMAIN s = 1..Len(s) /\ Head(s) = s[1]
      /\ Head(s) \in ToRouter /\ Tail(s) \in Seq(ToRouter)
      /\ DOMAIN Tail(s) = 1..Len(s) - 1
      /\ \A i \in 1..Len(s) - 1 : Tail(s)[i] = s[i + 1]
  BY EmptySeq, LenProperties, HeadTailProperties
<1>2. ASSUME NEW i \in Positions(Tail(s))
      PROVE  i + 1 \in Positions(s) /\ Tail(s)[i] = s[i + 1] /\ i \in Nat /\ i # 0
  BY <1>1 DEF Positions
<1>3. ASSUME NEW i \in Positions(Tail(s)), NEW j \in Positions(Tail(s))
      PROVE  i = j /\ Tail(s)[i].type = type
  <2>1. i + 1 = j + 1 /\ s[i + 1].type = type
    BY <1>2 DEF OnlyOf
  <2>2. i \in Nat /\ j \in Nat /\ Tail(s)[i] = s[i + 1]
    BY <1>2
  <2>3. i = j
    BY <2>1, <2>2
  <2> QED  BY <2>1, <2>2, <2>3, Zenon
<1>4. ASSUME Head(s).type # "PACKET"
      PROVE  Quiet(Tail(s)) /\ ~Quiet(s) /\ Head(s).type = type
  <2>1. 1 \in Positions(s)
    BY <1>1, <1>4 DEF Positions
  <2>2. ASSUME NEW i \in Positions(Tail(s)) PROVE FALSE
    <3>1. i + 1 = 1
      BY <1>2, <2>1 DEF OnlyOf
    <3> QED  BY <3>1, <1>2
  <2> QED  BY <1>1, <2>1, <2>2 DEF Quiet, OnlyOf
<1>5. Quiet(s) => Quiet(Tail(s))
  BY <1>2 DEF Quiet
<1> QED  BY <1>1, <1>3, <1>4, <1>5 DEF OnlyOf

\* The sender adds a packet anywhere ...
LEMMA PacketStep ==
  ASSUME NEW s \in Seq(ToRouter), NEW m \in ToRouter, m.type = "PACKET", NEW type, OnlyOf(s, type)
  PROVE  /\ OnlyOf(Append(s, m), type)
         /\ Quiet(s) => Quiet(Append(s, m))
<1> DEFINE t == Append(s, m)
<1>1. /\ Len(s) \in Nat /\ DOMAIN t = 1..Len(s) + 1 /\ DOMAIN s = 1..Len(s)
      /\ t[Len(s) + 1] = m /\ \A i \in 1..Len(s) : t[i] = s[i]
  BY AppendProperties, LenProperties
<1> HIDE DEF t
<1>2. ASSUME NEW i \in Positions(t)
      PROVE  i \in Positions(s) /\ t[i] = s[i]
  BY <1>1 DEF Positions
<1> QED  BY <1>2 DEF Quiet, OnlyOf, t

\* ... and a message of the negotiation when there is no other.
LEMMA AppendStep ==
  ASSUME NEW s \in Seq(ToRouter), Quiet(s), NEW m \in ToRouter
  PROVE  OnlyOf(Append(s, m), m.type)
<1> DEFINE t == Append(s, m)
<1>1. /\ Len(s) \in Nat /\ DOMAIN t = 1..Len(s) + 1 /\ DOMAIN s = 1..Len(s)
      /\ t[Len(s) + 1] = m /\ \A i \in 1..Len(s) : t[i] = s[i]
  BY AppendProperties, LenProperties
<1> HIDE DEF t
<1>2. ASSUME NEW i \in Positions(t) PROVE i = Len(s) + 1
  BY <1>1 DEF Positions, Quiet
<1> QED  BY <1>1, <1>2 DEF OnlyOf, t

-----------------------------------------------------------------------------
(* Frames *)

\* A step that leaves one router, its connection and its queues alone, and does
\* not make it known to the server.
Same(r) ==
  /\ pc'[r] = pc[r] /\ conn'[r] = conn[r] /\ ready'[r] = ready[r]
  /\ if_list'[r] = if_list[r] /\ toRouter'[r] = toRouter[r] /\ toServer'[r] = toServer[r]
  /\ Known(r)' = Known(r)

\* Whatever happens to one session keeps the others in step.
LEMMA SameStep ==
  ASSUME NEW r \in Routers, Gone(r) \/ SessionOf(r), Same(r)
  PROVE  Gone(r)' \/ SessionOf(r)'
<1>1. CASE Gone(r)
  BY <1>1 DEF Same, Gone
<1>2. CASE SessionOf(r)
  <2>1. Expected(r)' = Expected(r) /\ \A t : Asked(r, t)' = Asked(r, t)
    BY DEF Same, Expected, Asked
  <2> QED  BY <1>2, <2>1 DEF Same, SessionOf
<1> QED  BY <1>1, <1>2

\* A router's interface list changes only with its readiness.
LEMMA SameReady ==
  ASSUME HwinfoWhole, UNCHANGED <<ready, if_list>>
  PROVE  HwinfoWhole'
BY DEF HwinfoWhole

\* A state in which only one router's variables change.
LEMMA OneRouter ==
  ASSUME SessionInv, NEW q \in Routers, RouterTypes', ServerTypes', HwinfoWhole',
         Gone(q)' \/ SessionOf(q)', \A r \in Routers \ {q} : Same(r)
  PROVE  SessionInv'
<1>1. ASSUME NEW r \in Routers PROVE Gone(r)' \/ SessionOf(r)'
  BY SameStep DEF SessionInv
<1> QED  BY <1>1 DEF SessionInv

\* Sending keeps the type of the queues and touches one of them.
LEMMA SentFacts ==
  ASSUME RouterTypes, NEW r \in Routers, NEW m \in ToRouter
  PROVE  /\ Sent(toRouter, r, m) \in [Routers -> Seq(ToRouter)]
         /\ \A q \in Routers \ {r} : Sent(toRouter, r, m)[q] = toRouter[q]
         /\ \/ conn[r] = "open" /\ Sent(toRouter, r, m)[r] = Append(toRouter[r], m)
            \/ conn[r] # "open" /\ Sent(toRouter, r, m)[r] = toRouter[r]
<1>1. toRouter[r] \in Seq(ToRouter) /\ Append(toRouter[r], m) \in Seq(ToRouter)
  BY AppendProperties DEF RouterTypes
<1>2. CASE conn[r] = "open"
  BY <1>1, <1>2 DEF Sent, RouterTypes
<1>3. CASE conn[r] # "open"
  BY <1>3 DEF Sent, RouterTypes
<1> QED  BY <1>2, <1>3

LEMMA SentToServerFacts ==
  ASSUME RouterTypes, NEW r \in Routers, toServer[r] = <<>>, NEW t, Msg(t) \in ToServer
  PROVE  /\ Sent(toServer, r, Msg(t)) \in [Routers -> Seq(ToServer)]
         /\ \A q \in Routers \ {r} : Sent(toServer, r, Msg(t))[q] = toServer[q]
         /\ Sent(toServer, r, Msg(t))[r] \in {<<>>, <<Msg(t)>>}
<1> DEFINE m == Msg(t)
<1>1. <<m>> \in Seq(ToServer) /\ Append(toServer[r], m) = <<m>>
  OBVIOUS
<1> HIDE DEF m
<1>2. CASE conn[r] = "open"
  <2>1. Sent(toServer, r, m) = [toServer EXCEPT ![r] = <<m>>]
    BY <1>1, <1>2 DEF Sent
  <2> QED  BY <1>1, <2>1 DEF RouterTypes, m
<1>3. CASE conn[r] # "open"
  BY <1>3 DEF Sent, RouterTypes, m
<1> QED  BY <1>2, <1>3

\* The router takes the head of its queue.
LEMMA ReceivesFacts ==
  ASSUME RouterTypes, NEW r \in Routers, toRouter[r] # <<>>,
         toRouter' = [toRouter EXCEPT ![r] = Tail(@)]
  PROVE  /\ toRouter' \in [Routers -> Seq(ToRouter)]
         /\ toRouter'[r] = Tail(toRouter[r])
         /\ \A q \in Routers \ {r} : toRouter'[q] = toRouter[q]
<1>1. Tail(toRouter[r]) \in Seq(ToRouter)
  BY HeadTailProperties DEF RouterTypes
<1> QED  BY <1>1 DEF RouterTypes

\* The server takes the head of a connection's queue, which is all there is.
LEMMA TakesFacts ==
  ASSUME SessionInv, NEW r \in Routers, NEW type, Takes(r, type)
  PROVE  /\ toServer' \in [Routers -> Seq(ToServer)]
         /\ \A q \in Routers \ {r} : toServer'[q] = toServer[q]
         /\ ~Gone(r) => /\ toServer'[r] = <<>> /\ Asked(r, type)
                        /\ Quiet(toRouter[r]) /\ Known(r) /\ SessionOf(r)
<1>1. Tail(toServer[r]) \in Seq(ToServer) /\ toServer[r] \in Seq(ToServer)
  BY HeadTailProperties DEF Takes, SessionInv, RouterTypes
<1>2. toServer' = [toServer EXCEPT ![r] = Tail(@)] /\ toServer[r] # <<>>
      /\ Head(toServer[r]).type = type
  BY DEF Takes
<1>3. /\ toServer' \in [Routers -> Seq(ToServer)] /\ toServer'[r] = Tail(toServer[r])
      /\ \A q \in Routers \ {r} : toServer'[q] = toServer[q]
  BY <1>1, <1>2 DEF SessionInv, RouterTypes
<1>4. ASSUME ~Gone(r)
      PROVE  /\ Tail(toServer[r]) = <<>> /\ Asked(r, type) /\ Quiet(toRouter[r])
             /\ Known(r) /\ SessionOf(r)
  <2>1. SessionOf(r)
    BY <1>4 DEF SessionInv
  <2>2. PICK t : toServer[r] = <<Msg(t)>> /\ Asked(r, t)
    BY <1>2, <2>1 DEF SessionOf
  <2>3. Head(toServer[r]) = Msg(t) /\ Tail(toServer[r]) = <<>>
    BY <2>2
  <2>4. t = type
    BY <1>2, <2>3 DEF Msg
  <2> QED  BY <1>2, <2>1, <2>2, <2>3, <2>4 DEF SessionOf
<1> QED  BY <1>3, <1>4

-----------------------------------------------------------------------------
(* Every step preserves the invariant *)

LEMMA SessionInit == Init => SessionInv
<1> SUFFICES ASSUME Init PROVE SessionInv
  OBVIOUS
<1>1. RouterTypes
  BY EmptySeq DEF Init, RouterTypes, States
<1>2. ServerTypes
  BY EmptySeq DEF Init, ServerTypes
<1>3. ASSUME NEW r \in Routers PROVE SessionOf(r)
  <2>1. ~Known(r)
    BY DEF Init, Known, Range
  <2>2. OnlyOf(<<>>, Expected(r)) /\ Quiet(<<>>)
    BY DEF OnlyOf, Quiet, Positions
  <2> QED  BY <2>1, <2>2 DEF Init, SessionOf
<1>4. HwinfoWhole
  BY DEF Init, HwinfoWhole
<1> QED  BY <1>1, <1>2, <1>3, <1>4 DEF SessionInv

LEMMA ConnectPreserves ==
  ASSUME SessionInv, NEW r \in Routers, Connect(r)
  PROVE  SessionInv'
<1> USE DEF SessionInv
<1>1. /\ pc[r] = "down"
      /\ UNCHANGED <<template, hasKey, if_list, ready, spinning, toRouter, toServer, early,
                     disturbed, srclients, interfaces, port_to_intfname, info, casting, up,
                     frames>>
  BY DEF Connect, serverVars, poxVars
<1>2. SessionOf(r) /\ ~Known(r) /\ toRouter[r] = <<>> /\ toServer[r] = <<>> /\ ~ready[r]
  BY <1>1 DEF SessionOf, Gone
<1>3. \/ conn' = [conn EXCEPT ![r] = "open"] /\ pc' = [pc EXCEPT ![r] = "AUTH_REQUEST"]
      \/ UNCHANGED conn /\ pc' = [pc EXCEPT ![r] = "exit"]
  BY DEF Connect, Goto
<1>4. RouterTypes'
  BY <1>1, <1>3 DEF RouterTypes, States
<1>5. ServerTypes'
  BY <1>1 DEF ServerTypes
<1>6. Gone(r)' \/ SessionOf(r)'
  <2>1. CASE pc' = [pc EXCEPT ![r] = "exit"]
    BY <2>1 DEF Gone, RouterTypes
  <2>2. CASE /\ conn' = [conn EXCEPT ![r] = "open"]
             /\ pc' = [pc EXCEPT ![r] = "AUTH_REQUEST"]
    <3>1. OnlyOf(<<>>, Expected(r)') /\ Quiet(<<>>)
      BY DEF OnlyOf, Quiet, Positions
    <3>2. pc'[r] = "AUTH_REQUEST" /\ conn'[r] = "open"
      BY <2>2 DEF RouterTypes
    <3> QED  BY <1>1, <1>2, <3>1, <3>2 DEF SessionOf, Known
  <2> QED  BY <1>3, <2>1, <2>2
<1>7. \A q \in Routers \ {r} : Same(q)
  BY <1>1, <1>3 DEF Same, Known, RouterTypes
<1>8. HwinfoWhole'
  BY <1>1, SameReady
<1> QED  BY <1>4, <1>5, <1>6, <1>7, <1>8, OneRouter

\* The router ends, whatever the reason: its session asks for nothing more.
LEMMA EndsPreserves ==
  ASSUME SessionInv, NEW r \in Routers, NEW how \in {"exit", "abort"}, Ends(r, how),
         toRouter[r] # <<>>, toRouter' = [toRouter EXCEPT ![r] = Tail(@)],
         if_list' \in [Routers -> SUBSET Intfs], HwinfoWhole',
         \A q \in Routers \ {r} : if_list'[q] = if_list[q],
         UNCHANGED <<template, hasKey, ready, spinning, toServer, early, disturbed>>,
         UNCHANGED <<srclients, interfaces, port_to_intfname, info, casting, up, frames>>
  PROVE  SessionInv'
<1> USE DEF SessionInv
<1>1. pc' = [pc EXCEPT ![r] = how] /\ conn' = [conn EXCEPT ![r] = "lost"]
  BY DEF Ends, Goto
<1>2. RouterTypes'
  BY <1>1, ReceivesFacts DEF RouterTypes, States
<1>3. ServerTypes'
  BY DEF ServerTypes
<1>4. Gone(r)'
  BY <1>1 DEF Gone, RouterTypes
<1>5. \A q \in Routers \ {r} : Same(q)
  BY <1>1, ReceivesFacts DEF Same, Known, RouterTypes
<1> QED  BY <1>2, <1>3, <1>4, <1>5, OneRouter

\* The router answers AUTH_REQUEST, or ends for want of a key.
LEMMA RecvAuthRequestPreserves ==
  ASSUME SessionInv, NEW r \in Routers, RecvAuthRequest(r)
  PROVE  SessionInv'
<1> USE DEF SessionInv
<1>1. /\ pc[r] = "AUTH_REQUEST" /\ toRouter[r] # <<>> /\ Head(toRouter[r]).type = "AUTH_REQUEST"
      /\ toRouter' = [toRouter EXCEPT ![r] = Tail(@)]
      /\ UNCHANGED <<template, hasKey, if_list, ready, spinning, early, disturbed>>
      /\ UNCHANGED <<srclients, interfaces, port_to_intfname, info, casting, up, frames>>
  BY DEF RecvAuthRequest, Receives, serverVars, poxVars
<1>2. HwinfoWhole'
  BY <1>1, SameReady
<1>3. CASE Ends(r, "exit") /\ UNCHANGED toServer
  BY <1>1, <1>2, <1>3, EndsPreserves DEF RouterTypes
<1>4. CASE /\ Goto(r, "AUTH_STATUS") /\ UNCHANGED conn
           /\ toServer' = Sent(toServer, r, Msg("AUTH_REPLY"))
  <2>1. SessionOf(r)
    BY <1>1 DEF Gone
  <2>2. /\ OnlyOf(toRouter[r], Expected(r)) /\ toRouter[r] \in Seq(ToRouter)
        /\ Known(r) /\ conn[r] # "none"
    BY <1>1, <2>1 DEF SessionOf, RouterTypes
  <2>3. Quiet(Tail(toRouter[r])) /\ ~Quiet(toRouter[r])
    BY <1>1, <2>2, TailStep
  <2>4. toServer[r] = <<>> /\ ~ready[r] /\ if_list[r] = {}
    BY <2>1, <2>3 DEF SessionOf
  <2>5. /\ toServer' \in [Routers -> Seq(ToServer)]
        /\ \A q \in Routers \ {r} : toServer'[q] = toServer[q]
        /\ toServer'[r] \in {<<>>, <<Msg("AUTH_REPLY")>>}
    BY <1>4, <2>4, SentToServerFacts DEF ToServer
  <2>6. pc' = [pc EXCEPT ![r] = "AUTH_STATUS"] /\ pc'[r] = "AUTH_STATUS"
    BY <1>4 DEF Goto, RouterTypes
  <2>7. /\ toRouter' \in [Routers -> Seq(ToRouter)] /\ toRouter'[r] = Tail(toRouter[r])
        /\ \A q \in Routers \ {r} : toRouter'[q] = toRouter[q]
    BY <1>1, ReceivesFacts
  <2>8. RouterTypes'
    BY <1>1, <1>4, <2>5, <2>6, <2>7 DEF RouterTypes, States
  <2>9. ServerTypes'
    BY <1>1 DEF ServerTypes
  <2>10. SessionOf(r)'
    <3>1. OnlyOf(toRouter'[r], Expected(r)') /\ Quiet(toRouter'[r])
      BY <2>3, <2>7 DEF Quiet, OnlyOf
    <3>2. Asked(r, "AUTH_REPLY")' /\ Known(r)'
      BY <1>1, <2>2, <2>6 DEF Asked, Known
    <3> QED  BY <1>1, <1>4, <2>2, <2>4, <2>5, <2>6, <3>1, <3>2 DEF SessionOf
  <2>11. \A q \in Routers \ {r} : Same(q)
    BY <1>1, <1>4, <2>5, <2>6, <2>7 DEF Same, Known, RouterTypes
  <2> QED  BY <1>2, <2>8, <2>9, <2>10, <2>11, OneRouter
<1> QED  BY <1>3, <1>4 DEF RecvAuthRequest

\* The router is authenticated and opens its session.
LEMMA RecvAuthStatusPreserves ==
  ASSUME SessionInv, NEW r \in Routers, RecvAuthStatus(r)
  PROVE  SessionInv'
<1> USE DEF SessionInv
<1>1. /\ pc[r] = "AUTH_STATUS" /\ toRouter[r] # <<>> /\ Head(toRouter[r]).type = "AUTH_STATUS"
      /\ toRouter' = [toRouter EXCEPT ![r] = Tail(@)]
      /\ UNCHANGED <<template, hasKey, if_list, ready, spinning, conn, early, disturbed>>
      /\ UNCHANGED <<srclients, interfaces, port_to_intfname, info, casting, up, frames>>
  BY DEF RecvAuthStatus, Receives, serverVars, poxVars
<1>2. HwinfoWhole'
  BY <1>1, SameReady
<1>3. PICK t, where : /\ \/ t = "OPEN_TEMPLATE" /\ where = "RTABLE"
                         \/ t = "OPEN" /\ where = "loop"
                      /\ toServer' = Sent(toServer, r, Msg(t))
                      /\ pc' = [pc EXCEPT ![r] = where]
  BY DEF RecvAuthStatus, Opens, Goto
<1>4. SessionOf(r)
  BY <1>1 DEF Gone
<1>5. /\ OnlyOf(toRouter[r], Expected(r)) /\ toRouter[r] \in Seq(ToRouter)
      /\ Known(r) /\ conn[r] # "none"
  BY <1>1, <1>4 DEF SessionOf, RouterTypes
<1>6. Quiet(Tail(toRouter[r])) /\ ~Quiet(toRouter[r])
  BY <1>1, <1>5, TailStep
<1>7. toServer[r] = <<>> /\ ~ready[r] /\ if_list[r] = {}
  BY <1>4, <1>6 DEF SessionOf
<1>8. /\ toServer' \in [Routers -> Seq(ToServer)]
      /\ \A q \in Routers \ {r} : toServer'[q] = toServer[q]
      /\ toServer'[r] \in {<<>>, <<Msg(t)>>}
  BY <1>3, <1>7, SentToServerFacts DEF ToServer
<1>9. /\ toRouter' \in [Routers -> Seq(ToRouter)] /\ toRouter'[r] = Tail(toRouter[r])
      /\ \A q \in Routers \ {r} : toRouter'[q] = toRouter[q]
  BY <1>1, ReceivesFacts
<1>10. pc'[r] = where /\ where \in {"RTABLE", "loop"}
  BY <1>3 DEF RouterTypes
<1>11. RouterTypes'
  BY <1>1, <1>3, <1>8, <1>9, <1>10 DEF RouterTypes, States
<1>12. ServerTypes'
  BY <1>1 DEF ServerTypes
<1>13. SessionOf(r)'
  <2>1. OnlyOf(toRouter'[r], Expected(r)') /\ Quiet(toRouter'[r])
    BY <1>6, <1>9 DEF Quiet, OnlyOf
  <2>2. Asked(r, t)' /\ Known(r)'
    BY <1>1, <1>3, <1>5, <1>7, <1>10 DEF Asked, Known
  <2> QED  BY <1>1, <1>5, <1>7, <1>8, <1>10, <2>1, <2>2 DEF SessionOf
<1>14. \A q \in Routers \ {r} : Same(q)
  BY <1>1, <1>3, <1>8, <1>9 DEF Same, Known, RouterTypes
<1> QED  BY <1>2, <1>11, <1>12, <1>13, <1>14, OneRouter

LEMMA UnexpectedPreserves ==
  ASSUME SessionInv, NEW r \in Routers, Unexpected(r)
  PROVE  SessionInv'
<1> USE DEF SessionInv
<1>1. /\ toRouter[r] # <<>> /\ toRouter' = [toRouter EXCEPT ![r] = Tail(@)] /\ Ends(r, "exit")
      /\ UNCHANGED <<template, hasKey, if_list, ready, spinning, toServer, early, disturbed>>
      /\ UNCHANGED <<srclients, interfaces, port_to_intfname, info, casting, up, frames>>
  BY DEF Unexpected, serverVars, poxVars
<1>2. HwinfoWhole'
  BY <1>1, SameReady
<1> QED  BY <1>1, <1>2, EndsPreserves DEF RouterTypes

\* The router is told its interfaces, once.
LEMMA RecvHwinfoPreserves ==
  ASSUME SessionInv, NEW r \in Routers, RecvHwinfo(r)
  PROVE  SessionInv'
<1> USE DEF SessionInv
<1>1. /\ pc[r] = "loop" /\ toRouter[r] # <<>> /\ Head(toRouter[r]).type = "HWINFO"
      /\ toRouter' = [toRouter EXCEPT ![r] = Tail(@)]
      /\ UNCHANGED <<template, hasKey, spinning, toServer, early, disturbed>>
      /\ UNCHANGED <<srclients, interfaces, port_to_intfname, info, casting, up, frames>>
  BY DEF RecvHwinfo, Receives, serverVars, poxVars
<1>2. SessionOf(r)
  BY <1>1 DEF Gone
<1>3. /\ OnlyOf(toRouter[r], Expected(r)) /\ toRouter[r] \in Seq(ToRouter)
      /\ Known(r) /\ conn[r] # "none"
  BY <1>1, <1>2 DEF SessionOf, RouterTypes
<1>4. Quiet(Tail(toRouter[r])) /\ ~Quiet(toRouter[r]) /\ Head(toRouter[r]) \in ToRouter
  BY <1>1, <1>3, TailStep
<1>5. toServer[r] = <<>> /\ ~ready[r] /\ if_list[r] = {}
  BY <1>2, <1>4 DEF SessionOf
<1>6. PICK s \in Switches : Head(toRouter[r]).ifs = Interfaces[s]
  BY <1>1, <1>4, MessageFacts
<1>7. /\ if_list' = [if_list EXCEPT ![r] = Interfaces[s]] /\ Interfaces[s] \in SUBSET Intfs
      /\ if_list'[r] = Interfaces[s] /\ if_list' \in [Routers -> SUBSET Intfs]
      /\ \A q \in Routers \ {r} : if_list'[q] = if_list[q]
  BY <1>5, <1>6 DEF RecvHwinfo, sr_add_interfaces, RouterTypes, Intfs
<1>8. CASE Ends(r, "exit") /\ UNCHANGED ready
  <2>1. HwinfoWhole'
    BY <1>5, <1>7, <1>8 DEF HwinfoWhole
  <2> QED  BY <1>1, <1>7, <1>8, <2>1, EndsPreserves
<1>9. CASE ready' = [ready EXCEPT ![r] = TRUE] /\ UNCHANGED <<pc, conn>>
  <2>1. HwinfoWhole'
    BY <1>7, <1>9 DEF HwinfoWhole, RouterTypes
  <2>2. /\ toRouter' \in [Routers -> Seq(ToRouter)] /\ toRouter'[r] = Tail(toRouter[r])
        /\ \A q \in Routers \ {r} : toRouter'[q] = toRouter[q]
    BY <1>1, ReceivesFacts
  <2>3. RouterTypes'
    BY <1>1, <1>7, <1>9, <2>2 DEF RouterTypes
  <2>4. ServerTypes'
    BY <1>1 DEF ServerTypes
  <2>5. SessionOf(r)'
    <3>1. OnlyOf(toRouter'[r], Expected(r)') /\ Quiet(toRouter'[r])
      BY <1>4, <2>2 DEF Quiet, OnlyOf
    <3>2. ready'[r] = TRUE /\ Known(r)'
      BY <1>1, <1>3, <1>9 DEF RouterTypes, Known
    <3> QED  BY <1>1, <1>3, <1>5, <1>9, <3>1, <3>2 DEF SessionOf
  <2>6. \A q \in Routers \ {r} : Same(q)
    BY <1>1, <1>7, <1>9, <2>2 DEF Same, Known, RouterTypes
  <2> QED  BY <2>1, <2>3, <2>4, <2>5, <2>6, OneRouter
<1> QED  BY <1>8, <1>9 DEF RecvHwinfo

\* A packet in the main loop is dropped or ends the program.
LEMMA RecvPacketPreserves ==
  ASSUME SessionInv, NEW r \in Routers, RecvPacket(r)
  PROVE  SessionInv'
<1> USE DEF SessionInv
<1>1. /\ pc[r] = "loop" /\ toRouter[r] # <<>> /\ Head(toRouter[r]).type = "PACKET"
      /\ toRouter' = [toRouter EXCEPT ![r] = Tail(@)]
      /\ UNCHANGED <<template, hasKey, if_list, ready, spinning, toServer, early, disturbed>>
      /\ UNCHANGED <<srclients, interfaces, port_to_intfname, info, casting, up, frames>>
  BY DEF RecvPacket, Receives, serverVars, poxVars
<1>2. HwinfoWhole'
  BY <1>1, SameReady
<1>3. CASE Ends(r, "abort")
  BY <1>1, <1>2, <1>3, EndsPreserves DEF RouterTypes
<1>4. CASE UNCHANGED <<pc, conn>>
  <2>1. SessionOf(r) /\ OnlyOf(toRouter[r], Expected(r)) /\ toRouter[r] \in Seq(ToRouter)
    BY <1>1 DEF Gone, SessionOf, RouterTypes
  <2>2. OnlyOf(Tail(toRouter[r]), Expected(r)) /\ (Quiet(toRouter[r]) => Quiet(Tail(toRouter[r])))
    BY <1>1, <2>1, TailStep
  <2>3. /\ toRouter' \in [Routers -> Seq(ToRouter)] /\ toRouter'[r] = Tail(toRouter[r])
        /\ \A q \in Routers \ {r} : toRouter'[q] = toRouter[q]
    BY <1>1, ReceivesFacts
  <2>4. RouterTypes'
    BY <1>1, <1>4, <2>3 DEF RouterTypes
  <2>5. ServerTypes'
    BY <1>1 DEF ServerTypes
  <2>6. SessionOf(r)'
    <3>1. /\ Expected(r)' = Expected(r) /\ Known(r)' = Known(r)
          /\ \A t : Asked(r, t)' = Asked(r, t)
      BY <1>1, <1>4 DEF Expected, Known, Asked
    <3>2. Known(r)
      BY <1>1, <2>1 DEF SessionOf
    <3> QED  BY <1>1, <1>4, <2>1, <2>2, <2>3, <3>1, <3>2 DEF SessionOf
  <2>7. \A q \in Routers \ {r} : Same(q)
    BY <1>1, <1>4, <2>3 DEF Same, Known, RouterTypes
  <2> QED  BY <1>2, <2>4, <2>5, <2>6, <2>7, OneRouter
<1> QED  BY <1>3, <1>4 DEF RecvPacket, sr_handlepacket

\* A step that neither the routers, the connections nor the queues take part in.
LEMMA ServerPreserves ==
  ASSUME SessionInv, ServerTypes', RouterTypes',
         UNCHANGED <<pc, if_list, ready, conn, toRouter, toServer, srclients>>
  PROVE  SessionInv'
<1>1. ASSUME NEW r \in Routers PROVE Gone(r)' \/ SessionOf(r)'
  <2>1. Same(r)
    BY DEF Same, Known
  <2> QED  BY <2>1, SameStep DEF SessionInv
<1>2. HwinfoWhole'
  BY SameReady DEF SessionInv
<1> QED  BY <1>1, <1>2 DEF SessionInv

LEMMA RecvEofPreserves ==
  ASSUME SessionInv, NEW r \in Routers, RecvEof(r)
  PROVE  SessionInv'
<1>1. UNCHANGED <<pc, template, hasKey, if_list, ready, conn, toRouter, toServer, srclients,
                  interfaces, port_to_intfname, info, casting, up, frames, early, disturbed>>
  BY DEF RecvEof, serverVars, poxVars
<1>2. RouterTypes' /\ ServerTypes'
  BY <1>1 DEF RecvEof, SessionInv, RouterTypes, ServerTypes
<1> QED  BY <1>1, <1>2, ServerPreserves

\* The server greets a connection it has not seen: the router has just
\* connected, or has ended since.
LEMMA NewClientPreserves ==
  ASSUME SessionInv, NEW r \in Routers, NewClient(r)
  PROVE  SessionInv'
<1> USE DEF SessionInv
<1>1. /\ conn[r] # "none" /\ ~Known(r) /\ srclients' = Append(srclients, r)
      /\ toRouter' = Sent(toRouter, r, Msg("AUTH_REQUEST"))
      /\ UNCHANGED <<pc, template, hasKey, if_list, ready, spinning, conn, toServer, early,
                     disturbed, interfaces, port_to_intfname, info, casting, up, frames>>
  BY DEF NewClient, Known, routerVars, poxVars
<1>2. srclients \in Seq(Routers)
  BY DEF ServerTypes
<1>3. srclients' \in Seq(Routers) /\ Range(srclients') = Range(srclients) \cup {r}
  BY <1>1, <1>2, AppendRange
<1>4. Msg("AUTH_REQUEST") \in ToRouter /\ Msg("AUTH_REQUEST").type = "AUTH_REQUEST"
  BY MessageFacts DEF ToRouter
<1>5. /\ toRouter' \in [Routers -> Seq(ToRouter)]
      /\ \A q \in Routers \ {r} : toRouter'[q] = toRouter[q]
      /\ toRouter'[r] \in {toRouter[r], Append(toRouter[r], Msg("AUTH_REQUEST"))}
  BY <1>1, <1>4, SentFacts
<1>6. RouterTypes'
  BY <1>1, <1>5 DEF RouterTypes
<1>7. ServerTypes'
  BY <1>1, <1>3 DEF ServerTypes
<1>8. Gone(r)' \/ SessionOf(r)'
  <2>1. CASE Gone(r)
    BY <1>1, <2>1 DEF Gone
  <2>2. CASE SessionOf(r)
    <3>1. /\ pc[r] = "AUTH_REQUEST" /\ toRouter[r] = <<>> /\ toServer[r] = <<>> /\ ~ready[r]
          /\ if_list[r] = {}
      BY <1>1, <2>2 DEF SessionOf
    <3>2. Known(r)' /\ Expected(r)' = "AUTH_REQUEST"
      BY <1>1, <1>3, <3>1 DEF Known, Expected
    <3>3. Quiet(toRouter[r]) /\ OnlyOf(toRouter[r], "AUTH_REQUEST")
      BY <3>1 DEF Quiet, OnlyOf, Positions
    <3>4. toRouter[r] \in Seq(ToRouter)
      BY DEF RouterTypes
    <3>5. OnlyOf(toRouter'[r], "AUTH_REQUEST")
      BY <1>4, <1>5, <3>3, <3>4, AppendStep
    <3> QED  BY <1>1, <3>1, <3>2, <3>5 DEF SessionOf
  <2> QED  BY <2>1, <2>2
<1>9. \A q \in Routers \ {r} : Same(q)
  BY <1>1, <1>3, <1>5 DEF Same, Known
<1>10. HwinfoWhole'
  BY <1>1, SameReady
<1> QED  BY <1>6, <1>7, <1>8, <1>9, <1>10, OneRouter

\* The server answers the one message it has from a router.
LEMMA AnswerPreserves ==
  ASSUME SessionInv, NEW r \in Routers, NEW type, Takes(r, type), NEW m \in Controls,
         toRouter' = Sent(toRouter, r, m),
         ~Gone(r) => ~ready[r] /\ m.type = Expected(r),
         UNCHANGED <<pc, template, hasKey, if_list, ready, spinning, conn, early, disturbed>>,
         UNCHANGED <<srclients, interfaces, port_to_intfname, info, casting, up, frames>>
  PROVE  SessionInv'
<1> USE DEF SessionInv
<1>1. /\ toServer' \in [Routers -> Seq(ToServer)]
      /\ \A q \in Routers \ {r} : toServer'[q] = toServer[q]
      /\ ~Gone(r) => /\ toServer'[r] = <<>> /\ Quiet(toRouter[r]) /\ Known(r) /\ SessionOf(r)
  BY TakesFacts
<1>2. m \in ToRouter
  BY DEF ToRouter
<1>3. /\ toRouter' \in [Routers -> Seq(ToRouter)]
      /\ \A q \in Routers \ {r} : toRouter'[q] = toRouter[q]
      /\ toRouter'[r] \in {toRouter[r], Append(toRouter[r], m)}
  BY <1>2, SentFacts
<1>4. RouterTypes'
  BY <1>1, <1>3 DEF RouterTypes
<1>5. ServerTypes'
  BY DEF ServerTypes
<1>6. ASSUME ~Gone(r) PROVE SessionOf(r)'
  <2>1. toRouter[r] \in Seq(ToRouter)
    BY DEF RouterTypes
  <2>2. Expected(r)' = Expected(r) /\ Known(r)' = Known(r)
    BY DEF Expected, Known
  <2>3. OnlyOf(toRouter[r], Expected(r))
    BY <1>1, <1>6 DEF SessionOf
  <2>4. OnlyOf(toRouter'[r], Expected(r))
    BY <1>1, <1>2, <1>3, <1>6, <2>1, <2>3, AppendStep
  <2> QED  BY <1>1, <1>6, <2>2, <2>4 DEF SessionOf
<1>7. Gone(r)' \/ SessionOf(r)'
  BY <1>6 DEF Gone
<1>8. \A q \in Routers \ {r} : Same(q)
  BY <1>1, <1>3 DEF Same, Known
<1>9. HwinfoWhole'
  BY SameReady
<1> QED  BY <1>4, <1>5, <1>7, <1>8, <1>9, OneRouter

LEMMA HandleAuthReplyPreserves ==
  ASSUME SessionInv, NEW r \in Routers, HandleAuthReply(r)
  PROVE  SessionInv'
<1>1. /\ Takes(r, "AUTH_REPLY") /\ toRouter' = Sent(toRouter, r, Msg("AUTH_STATUS"))
      /\ UNCHANGED <<pc, template, hasKey, if_list, ready, spinning, conn, early, disturbed>>
      /\ UNCHANGED <<srclients, interfaces, port_to_intfname, info, casting, up, frames>>
  BY DEF HandleAuthReply, routerVars, serverVars, poxVars
<1>2. ASSUME ~Gone(r) PROVE ~ready[r] /\ Expected(r) = "AUTH_STATUS"
  <2>1. Asked(r, "AUTH_REPLY") /\ SessionOf(r)
    BY <1>1, <1>2, TakesFacts
  <2> QED  BY <2>1 DEF Asked, SessionOf, Expected
<1>3. Msg("AUTH_STATUS") \in Controls /\ Msg("AUTH_STATUS").type = "AUTH_STATUS"
  BY MessageFacts
<1> QED  BY <1>1, <1>2, <1>3, AnswerPreserves

\* The server takes OPEN without an answer, or the connection is lost with it.
LEMMA NoAnswerPreserves ==
  ASSUME SessionInv, NEW r \in Routers, NEW type, Takes(r, type),
         conn' = conn \/ conn' = [conn EXCEPT ![r] = "lost"], early' \in [Routers -> BOOLEAN],
         UNCHANGED <<pc, template, hasKey, if_list, ready, spinning, toRouter, disturbed>>,
         UNCHANGED <<srclients, interfaces, port_to_intfname, info, casting, up, frames>>
  PROVE  SessionInv'
<1> USE DEF SessionInv
<1>1. /\ toServer' \in [Routers -> Seq(ToServer)]
      /\ \A q \in Routers \ {r} : toServer'[q] = toServer[q]
      /\ ~Gone(r) => /\ toServer'[r] = <<>> /\ Asked(r, type) /\ Quiet(toRouter[r])
                     /\ Known(r) /\ SessionOf(r)
  BY TakesFacts
<1>2. RouterTypes'
  BY <1>1 DEF RouterTypes
<1>3. ServerTypes'
  BY DEF ServerTypes
<1>4. ASSUME ~Gone(r) PROVE SessionOf(r)'
  <2>1. Expected(r)' = Expected(r) /\ Known(r)' = Known(r) /\ pc[r] # "down"
    BY <1>1, <1>4 DEF Expected, Known, Asked
  <2>2. conn[r] # "none" /\ conn'[r] # "none"
    BY <1>1, <1>4 DEF SessionOf, RouterTypes
  <2> QED  BY <1>1, <1>4, <2>1, <2>2 DEF SessionOf
<1>5. Gone(r)' \/ SessionOf(r)'
  BY <1>4 DEF Gone
<1>6. \A q \in Routers \ {r} : Same(q)
  BY <1>1 DEF Same, Known, RouterTypes
<1>7. HwinfoWhole'
  BY SameReady
<1> QED  BY <1>2, <1>3, <1>5, <1>6, <1>7, OneRouter

LEMMA HandleOpenPreserves ==
  ASSUME SessionInv, NEW r \in Routers, HandleOpen(r)
  PROVE  SessionInv'
<1>1. /\ Takes(r, "OPEN")
      /\ UNCHANGED <<pc, template, hasKey, if_list, ready, spinning, conn, disturbed>>
      /\ UNCHANGED <<srclients, interfaces, port_to_intfname, info, casting, up, frames>>
  BY DEF HandleOpen, routerVars, serverVars, poxVars
<1>2. CASE interfaces = NotYet /\ early' = [early EXCEPT ![r] = TRUE] /\ UNCHANGED toRouter
  <2>1. early' \in [Routers -> BOOLEAN]
    BY <1>2 DEF SessionInv, RouterTypes
  <2> QED  BY <1>1, <1>2, <2>1, NoAnswerPreserves
<1>3. CASE interfaces # NotYet /\ toRouter' = Sent(toRouter, r, Hwinfo(interfaces)) /\ UNCHANGED early
  <2>1. Hwinfo(interfaces) \in Controls /\ Hwinfo(interfaces).type = "HWINFO"
    BY <1>3, MessageFacts DEF SessionInv, ServerTypes
  <2>2. ASSUME ~Gone(r) PROVE ~ready[r] /\ Expected(r) = "HWINFO"
    <3>1. Asked(r, "OPEN")
      BY <1>1, <2>2, TakesFacts
    <3> QED  BY <3>1 DEF Asked, Expected
  <2> QED  BY <1>1, <1>3, <2>1, <2>2, AnswerPreserves
<1> QED  BY <1>2, <1>3 DEF HandleOpen

LEMMA HandleOpenTemplatePreserves ==
  ASSUME SessionInv, NEW r \in Routers, HandleOpenTemplate(r)
  PROVE  SessionInv'
<1>1. /\ Takes(r, "OPEN_TEMPLATE") /\ conn' = [conn EXCEPT ![r] = "lost"]
      /\ UNCHANGED <<pc, template, hasKey, if_list, ready, spinning, toRouter, early, disturbed>>
      /\ UNCHANGED <<srclients, interfaces, port_to_intfname, info, casting, up, frames>>
  BY DEF HandleOpenTemplate, routerVars, serverVars, poxVars
<1>2. early' \in [Routers -> BOOLEAN]
  BY <1>1 DEF SessionInv, RouterTypes
<1> QED  BY <1>1, <1>2, NoAnswerPreserves

-----------------------------------------------------------------------------
(* POX's thread *)

\* A switch is handled one interface at a time; the list is published whole.
LEMMA SwitchPreserves ==
  ASSUME SessionInv, (\E s \in Switches : SwitchUp(s)) \/ RouterInfo
  PROVE  SessionInv'
<1>1. UNCHANGED <<pc, template, hasKey, if_list, ready, spinning, conn, toRouter, toServer,
                  srclients, casting, frames, early, disturbed>>
  BY DEF SwitchUp, RouterInfo, routerVars, serverVars
<1>2. RouterTypes'
  BY <1>1 DEF SessionInv, RouterTypes
<1>3. ASSUME NEW s \in Switches, SwitchUp(s) PROVE ServerTypes'
  <2>1. Interfaces[s] \in SUBSET Intfs
    BY DEF Intfs
  <2>2. info' \in [switch : Switches, left : SUBSET Intfs]
    BY <1>3, <2>1 DEF SwitchUp
  <2> QED  BY <1>1, <1>3, <2>2 DEF SwitchUp, serverVars, SessionInv, ServerTypes
<1>4. ASSUME RouterInfo PROVE ServerTypes'
  <2>1. info \in [switch : Switches, left : SUBSET Intfs]
    BY <1>4 DEF RouterInfo, SessionInv, ServerTypes
  <2>2. PICK i \in info.left :
          /\ port_to_intfname' = port_to_intfname \cup {i}
          /\ interfaces' = Published(info.switch, info.left \ {i})
          /\ \/ info' = Idle
             \/ info' = [info EXCEPT !.left = info.left \ {i}]
    BY <1>4 DEF RouterInfo
  <2>3. /\ i \in Intfs /\ info.switch \in Switches
        /\ info' \in {Idle} \cup [switch : Switches, left : SUBSET Intfs]
    BY <2>1, <2>2
  <2>4. interfaces' \in {interfaces, Interfaces[info.switch]}
    BY <2>2 DEF Published
  <2>5. UNCHANGED up
    BY <1>4 DEF RouterInfo
  <2> QED  BY <1>1, <2>2, <2>3, <2>4, <2>5 DEF SessionInv, ServerTypes
<1>5. ServerTypes'
  BY <1>3, <1>4
<1> QED  BY <1>1, <1>2, <1>5, ServerPreserves

LEMMA PacketInPreserves ==
  ASSUME SessionInv, NEW i \in Intfs, NEW f \in Frames, PacketIn(i, f)
  PROVE  SessionInv'
<1>1. UNCHANGED <<pc, template, hasKey, if_list, ready, spinning, conn, toRouter, toServer,
                  srclients, interfaces, port_to_intfname, info, up, early, disturbed>>
  BY DEF PacketIn, routerVars, serverVars
<1>2. RouterTypes'
  BY <1>1 DEF SessionInv, RouterTypes
<1>3. Packet(i, f) \in Casts
  BY DEF Casts
<1>4. casting' \in {NoCast} \cup [msg : Casts, next : Nat \ {0}] /\ frames' = frames + 1
  BY <1>3 DEF PacketIn
<1>5. ServerTypes'
  BY <1>1, <1>4 DEF SessionInv, ServerTypes
<1> QED  BY <1>1, <1>2, <1>5, ServerPreserves

\* A packet is sent to one client, whatever its session is waiting for.
LEMMA BroadcastPreserves ==
  ASSUME SessionInv, Broadcast
  PROVE  SessionInv'
<1> USE DEF SessionInv
<1>1. /\ casting \in [msg : Casts, next : Nat \ {0}]
      /\ UNCHANGED <<pc, template, hasKey, if_list, ready, spinning, conn, toServer, early>>
      /\ UNCHANGED <<srclients, interfaces, port_to_intfname, info, up, frames>>
  BY DEF Broadcast, routerVars, serverVars, ServerTypes
<1>2. CASE casting' = NoCast /\ UNCHANGED <<toRouter, disturbed>>
  <2>1. RouterTypes' /\ ServerTypes'
    BY <1>1, <1>2 DEF RouterTypes, ServerTypes
  <2> QED  BY <1>1, <1>2, <2>1, ServerPreserves
<1>3. CASE /\ casting.next <= Len(srclients)
           /\ LET r == srclients[casting.next]
              IN  /\ toRouter' = Sent(toRouter, r, casting.msg)
                  /\ disturbed' = [disturbed EXCEPT ![r] = @ \/ ~ready[r]]
           /\ casting' = [casting EXCEPT !.next = @ + 1]
  <2>1. srclients \in Seq(Routers) /\ casting.next \in Nat \ {0} /\ casting.msg \in Casts
    BY <1>1 DEF ServerTypes
  <2>2. casting.next \in DOMAIN srclients /\ srclients[casting.next] \in Routers
    BY <1>3, <2>1, LenProperties, ElementOfSeq
  <2>3. PICK r \in Routers, m \in Casts : r = srclients[casting.next] /\ m = casting.msg
    BY <2>1, <2>2
  <2>4. m \in ToRouter /\ m.type = "PACKET" /\ Known(r)
    BY <2>2, <2>3, MessageFacts DEF ToRouter, Known, Range
  <2>5. toRouter' = Sent(toRouter, r, m) /\ disturbed' = [disturbed EXCEPT ![r] = @ \/ ~ready[r]]
    BY <1>3, <2>3
  <2>6. casting' \in [msg : Casts, next : Nat \ {0}]
    BY <1>1, <1>3
  <2>7. /\ toRouter' \in [Routers -> Seq(ToRouter)]
        /\ \A q \in Routers \ {r} : toRouter'[q] = toRouter[q]
        /\ toRouter'[r] \in {toRouter[r], Append(toRouter[r], m)}
    BY <2>4, <2>5, SentFacts
  <2>8. disturbed' \in [Routers -> BOOLEAN]
    BY <2>5 DEF RouterTypes
  <2>9. RouterTypes'
    BY <1>1, <2>7, <2>8 DEF RouterTypes
  <2>10. ServerTypes'
    BY <1>1, <2>6 DEF ServerTypes
  <2>11. ASSUME SessionOf(r) PROVE SessionOf(r)'
    <3>1. /\ Expected(r)' = Expected(r) /\ Known(r)' = Known(r)
          /\ \A t : Asked(r, t)' = Asked(r, t)
      BY <1>1 DEF Expected, Known, Asked
    <3>2. toRouter[r] \in Seq(ToRouter) /\ OnlyOf(toRouter[r], Expected(r))
      BY <2>11 DEF RouterTypes, SessionOf
    <3>3. /\ OnlyOf(toRouter'[r], Expected(r))
          /\ Quiet(toRouter[r]) => Quiet(toRouter'[r])
      <4>1. /\ OnlyOf(Append(toRouter[r], m), Expected(r))
            /\ Quiet(toRouter[r]) => Quiet(Append(toRouter[r], m))
        BY <2>4, <3>2, PacketStep
      <4> QED  BY <2>7, <3>2, <4>1
    <3> QED  BY <1>1, <2>4, <2>11, <3>1, <3>3 DEF SessionOf
  <2>12. Gone(r)' \/ SessionOf(r)'
    BY <1>1, <2>11 DEF Gone, SessionInv
  <2>13. \A q \in Routers \ {r} : Same(q)
    BY <1>1, <2>7 DEF Same, Known
  <2>14. HwinfoWhole'
    BY <1>1, SameReady
  <2> QED  BY <2>9, <2>10, <2>12, <2>13, <2>14, OneRouter
<1> QED  BY <1>2, <1>3 DEF Broadcast

-----------------------------------------------------------------------------
(* The theorems *)

LEMMA SessionStep == SessionInv /\ [Next]_vars => SessionInv'
<1> SUFFICES ASSUME SessionInv, [Next]_vars PROVE SessionInv'
  OBVIOUS
<1>1. ASSUME NEW r \in Routers, Connect(r) \/ RouterStep(r) PROVE SessionInv'
  BY <1>1, ConnectPreserves, RecvAuthRequestPreserves, RecvAuthStatusPreserves,
     UnexpectedPreserves, RecvHwinfoPreserves, RecvPacketPreserves, RecvEofPreserves
     DEF RouterStep
<1>2. ASSUME NEW r \in Routers, ReactorStep(r) PROVE SessionInv'
  BY <1>2, NewClientPreserves, HandleAuthReplyPreserves, HandleOpenPreserves,
     HandleOpenTemplatePreserves DEF ReactorStep
<1>3. ASSUME NEW s \in Switches, SwitchUp(s) PROVE SessionInv'
  BY <1>3, SwitchPreserves
<1>4. ASSUME NEW i \in Intfs, NEW f \in Frames, PacketIn(i, f) PROVE SessionInv'
  BY <1>4, PacketInPreserves
<1>5. CASE PoxStep
  BY <1>5, SwitchPreserves, BroadcastPreserves DEF PoxStep
<1>6. CASE UNCHANGED vars
  <2>1. UNCHANGED <<pc, template, hasKey, if_list, ready, spinning, conn, toRouter, toServer,
                    srclients, interfaces, port_to_intfname, info, casting, up, frames, early,
                    disturbed>>
    BY <1>6 DEF vars, routerVars, serverVars, poxVars
  <2>2. RouterTypes' /\ ServerTypes'
    BY <2>1 DEF SessionInv, RouterTypes, ServerTypes
  <2> QED  BY <2>1, <2>2, ServerPreserves
<1> QED  BY <1>1, <1>2, <1>3, <1>4, <1>5, <1>6 DEF Next, Intfs

LEMMA SessionInvariant == Spec => []SessionInv
BY SessionInit, SessionStep, PTL DEF Spec

\* While a router runs, at most one message of the negotiation is under way
\* between it and the server, and its receiver waits for it: only a broadcast
\* packet can be unexpected (sr_read_from_server_expect).
THEOREM SessionsInStep == Spec => []InStep
<1>1. SessionInv => InStep
  <2>1. ASSUME SessionInv, NEW r \in Routers, pc[r] \notin {"exit", "abort"}
        PROVE  /\ \A i, j \in Control(r) : i = j /\ toServer[r] = <<>>
               /\ Len(toServer[r]) <= 1
               /\ \A i \in Control(r) : toRouter[r][i].type = Expected(r)
               /\ \A i \in DOMAIN toServer[r] : Asked(r, toServer[r][i].type)
    <3>1. SessionOf(r) /\ Control(r) = Positions(toRouter[r])
      BY <2>1 DEF SessionInv, Gone, Control, Positions
    <3>2. \A i, j \in Control(r) : i = j /\ toRouter[r][i].type = Expected(r)
      BY <3>1 DEF SessionOf, OnlyOf
    <3>3. Control(r) # {} => toServer[r] = <<>>
      BY <3>1 DEF SessionOf, Quiet
    <3>4. CASE toServer[r] = <<>>
      <4>1. Len(toServer[r]) = 0 /\ DOMAIN toServer[r] = {}
        BY <3>4
      <4> QED  BY <3>2, <3>4, <4>1
    <3>5. CASE toServer[r] # <<>>
      <4>1. PICK t : toServer[r] = <<Msg(t)>> /\ Asked(r, t)
        BY <3>1, <3>5 DEF SessionOf
      <4>2. Msg(t).type = t
        BY DEF Msg
      <4> DEFINE m == Msg(t)
      <4>3. toServer[r] = <<m>>
        BY <4>1
      <4> HIDE DEF m
      <4>4. Len(toServer[r]) = 1 /\ DOMAIN toServer[r] = 1..1 /\ toServer[r][1] = m
        BY <4>3
      <4>5. \A i \in DOMAIN toServer[r] : toServer[r][i] = m
        BY <4>4
      <4>6. m.type = t
        BY <4>2 DEF m
      <4>7. \A i \in DOMAIN toServer[r] : Asked(r, toServer[r][i].type)
        BY <4>1, <4>5, <4>6
      <4> QED  BY <3>2, <3>3, <3>5, <4>4, <4>7
    <3> QED  BY <3>4, <3>5
  <2> QED  BY <2>1 DEF InStep, Asked
<1> QED  BY <1>1, SessionInvariant, PTL

\* A router that is ready has the whole interface list of one switch: the
\* server's list is published only once it is filled, and HWINFO is sent once.
THEOREM InterfacesWhole == Spec => []HwinfoWhole
<1>1. SessionInv => HwinfoWhole
  BY DEF SessionInv
<1> QED  BY <1>1, SessionInvariant, PTL
=============================================================================
