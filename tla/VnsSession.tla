----------------------------- MODULE VnsSession -----------------------------
(***************************************************************************)
(* The session of the router program (sr_main.c, sr_vns_comm.c) with the   *)
(* VNS server inside POX (srhandler.py): authentication, OPEN, hardware    *)
(* information, packets.  The server runs on two threads: the reactor      *)
(* serves the connections, and POX delivers the switch's events, among     *)
(* them packets, which are broadcast to every client there ever was.       *)
(*                                                                         *)
(* A read of sr_read_from_server_expect takes a whole message.  A frame is *)
(* its 16-bit Ethernet type, whether it is long enough for an ARP header,  *)
(* and whether it is an ARP request for another address.                   *)
(***************************************************************************)
EXTENDS Integers, Sequences, FiniteSets, SequencesExt

CONSTANTS
  Routers,
  Switches,
  Interfaces,   \* the interfaces of each switch that IP_CONFIG names
  RTable,       \* interfaces the routing table uses
  Frames,
  NotYet,       \* no RouterInfo so far
  MaxFrames     \* bound: frames the switches report

ASSUME InterfacesAssumption == \A s \in Switches : Interfaces[s] # {}

VARIABLES
  pc,           \* router: what it expects next, "loop", "exit" or "abort"
  template,     \* router: started with -T
  hasKey,       \* router: the file auth_key can be read
  if_list,      \* router
  ready,        \* router: has printed "Ready to process packets"
  spinning,     \* router: recv keeps returning 0
  conn,         \* connection: "none", "open" or "lost"
  toRouter, toServer,
  srclients,    \* server: connections in the order they came
  interfaces,   \* server: NotYet, or what a switch told
  port_to_intfname, \* server: interfaces whose port is known
  info,         \* POX thread: the switch being handled and its interfaces left
  casting,      \* POX thread: the packet being broadcast and the next client
  up,           \* switches that have connected
  frames,
  early,        \* history: OPEN came before any RouterInfo
  disturbed     \* history: a packet was sent before the router was ready

routerVars == <<pc, template, hasKey, if_list, ready, spinning>>
serverVars == <<srclients, interfaces, port_to_intfname>>
poxVars == <<info, casting, up, frames>>
vars == <<routerVars, conn, toRouter, toServer, serverVars, poxVars, early, disturbed>>

Idle == [switch |-> "none", left |-> {}]

Msg(type) == [type |-> type]
Hwinfo(ifs) == [type |-> "HWINFO", ifs |-> ifs]
Packet(intf, frame) == [type |-> "PACKET", intf |-> intf, frame |-> frame]
NoCast == [msg |-> Msg("none"), next |-> 0]

Init == /\ pc = [r \in Routers |-> "down"]
        /\ template \in [Routers -> BOOLEAN] /\ hasKey \in [Routers -> BOOLEAN]
        /\ if_list = [r \in Routers |-> {}]
        /\ ready = [r \in Routers |-> FALSE] /\ spinning = [r \in Routers |-> FALSE]
        /\ conn = [r \in Routers |-> "none"]
        /\ toRouter = [r \in Routers |-> <<>>] /\ toServer = [r \in Routers |-> <<>>]
        /\ srclients = <<>> /\ interfaces = NotYet /\ port_to_intfname = {}
        /\ info = Idle /\ casting = NoCast /\ up = {} /\ frames = 0
        /\ early = [r \in Routers |-> FALSE] /\ disturbed = [r \in Routers |-> FALSE]

Goto(r, where) == pc' = [pc EXCEPT ![r] = where]

(* what is written to a connection that is gone is lost *)
Sent(pipe, r, msg) == IF conn[r] = "open" THEN [pipe EXCEPT ![r] = Append(@, msg)] ELSE pipe

-----------------------------------------------------------------------------
(* The router *)

Connect(r) == /\ pc[r] = "down"
              /\ \/ conn' = [conn EXCEPT ![r] = "open"] /\ Goto(r, "AUTH_REQUEST")
                 \/ UNCHANGED conn /\ Goto(r, "exit")
              /\ UNCHANGED <<template, hasKey, if_list, ready, spinning, toRouter, toServer, serverVars, poxVars, early, disturbed>>

Negotiating(r) == pc[r] \in {"AUTH_REQUEST", "AUTH_STATUS", "RTABLE"}

(* The process ends, and its connection with it *)
Ends(r, how) == Goto(r, how) /\ conn' = [conn EXCEPT ![r] = "lost"]

Receives(r, type) == /\ toRouter[r] # <<>> /\ Head(toRouter[r]).type = type
                     /\ toRouter' = [toRouter EXCEPT ![r] = Tail(@)]

(* sr_handle_auth_request *)
RecvAuthRequest(r) ==
  /\ pc[r] = "AUTH_REQUEST" /\ Receives(r, "AUTH_REQUEST")
  /\ \/ hasKey[r] /\ Goto(r, "AUTH_STATUS") /\ toServer' = Sent(toServer, r, Msg("AUTH_REPLY")) /\ UNCHANGED conn
     \/ ~hasKey[r] /\ Ends(r, "exit") /\ UNCHANGED toServer
  /\ UNCHANGED <<template, hasKey, if_list, ready, spinning, serverVars, poxVars, early, disturbed>>

(* mutant: the session is not opened *)
OpenNotSent(r) == toServer

Opens(r) == Sent(toServer, r, Msg(IF template[r] THEN "OPEN_TEMPLATE" ELSE "OPEN"))

(* sr_handle_auth_status, and then OPEN; with a template the routing table  *)
(* comes before the main loop                                               *)
RecvAuthStatus(r) ==
  /\ pc[r] = "AUTH_STATUS" /\ Receives(r, "AUTH_STATUS")
  /\ toServer' = Opens(r)
  /\ Goto(r, IF template[r] THEN "RTABLE" ELSE "loop")
  /\ UNCHANGED <<template, hasKey, if_list, ready, spinning, conn, serverVars, poxVars, early, disturbed>>

(* any other message during the negotiation ends the program *)
Unexpected(r) ==
  /\ Negotiating(r) /\ toRouter[r] # <<>> /\ Head(toRouter[r]).type # pc[r]
  /\ toRouter' = [toRouter EXCEPT ![r] = Tail(@)]
  /\ Ends(r, "exit")
  /\ UNCHANGED <<template, hasKey, if_list, ready, spinning, toServer, serverVars, poxVars, early, disturbed>>

(* sr_verify_routing_table *)
sr_verify_routing_table(ifs) == ifs # {} /\ RTable # {} /\ RTable \subseteq ifs

(* sr_add_interface, sr_set_ether_addr and sr_set_ether_ip for each of them *)
sr_add_interfaces(ifs, new) == ifs \cup new

RecvHwinfo(r) ==
  /\ pc[r] = "loop" /\ Receives(r, "HWINFO")
  /\ if_list' = [if_list EXCEPT ![r] = sr_add_interfaces(@, Head(toRouter[r]).ifs)]
  /\ \/ /\ sr_verify_routing_table(if_list'[r])
        /\ ready' = [ready EXCEPT ![r] = TRUE] /\ UNCHANGED <<pc, conn>>
     \/ /\ ~sr_verify_routing_table(if_list'[r])
        /\ Ends(r, "exit") /\ UNCHANGED ready
  /\ UNCHANGED <<template, hasKey, spinning, toServer, serverVars, poxVars, early, disturbed>>

(* the type is compared without ntohs *)
Swapped(word) == (word % 256) * 256 + word \div 256
ethertype_arp == 2054
ethertype_ip  == 2048
packet_type(frame) == CASE Swapped(frame.ether_type) = ethertype_arp -> 1
                        [] Swapped(frame.ether_type) = ethertype_ip -> 9
                        [] OTHER -> 0

sr_get_interface(r, name) == {i \in if_list[r] : i = name}

(* sr_arp_req_not_for_us; its assertion on the interface is part of         *)
(* RecvPacket                                                               *)
sr_arp_req_not_for_us(frame) == frame.long /\ frame.ether_type = ethertype_arp /\ frame.forOther

(* The assertion that packet_type is not 0.  No frame of type ARP or IP     *)
(* gets further.                                                            *)
sr_handlepacket(r, frame) == packet_type(frame) = 0 /\ Ends(r, "abort")

RecvPacket(r) ==
  /\ pc[r] = "loop" /\ Receives(r, "PACKET")
  /\ LET msg == Head(toRouter[r])
         unknown == msg.frame.long /\ sr_get_interface(r, msg.intf) = {}
     IN  \/ ~unknown /\ sr_arp_req_not_for_us(msg.frame) /\ UNCHANGED <<pc, conn>>
         \/ unknown /\ Ends(r, "abort")
         \/ ~unknown /\ ~sr_arp_req_not_for_us(msg.frame) /\ sr_handlepacket(r, msg.frame)
  /\ UNCHANGED <<template, hasKey, if_list, ready, spinning, toServer, serverVars, poxVars, early, disturbed>>

(* the server has closed: recv returns 0, and the loop asks again *)
RecvEof(r) == /\ Negotiating(r) \/ pc[r] = "loop"
              /\ toRouter[r] = <<>> /\ conn[r] = "lost"
              /\ spinning' = [spinning EXCEPT ![r] = TRUE]
              /\ UNCHANGED <<pc, template, hasKey, if_list, ready, conn, toRouter, toServer, serverVars, poxVars, early, disturbed>>

RouterStep(r) == \/ RecvAuthRequest(r) \/ RecvAuthStatus(r) \/ Unexpected(r) \/ RecvHwinfo(r)
                 \/ RecvPacket(r) \/ RecvEof(r)

-----------------------------------------------------------------------------
(* The server: the reactor's thread *)

(* the list only grows: a client that has gone stays in it *)
NewClient(r) == /\ conn[r] # "none" /\ r \notin Range(srclients)
                /\ srclients' = Append(srclients, r)
                /\ toRouter' = Sent(toRouter, r, Msg("AUTH_REQUEST"))
                /\ UNCHANGED <<routerVars, conn, toServer, interfaces, port_to_intfname, poxVars, early, disturbed>>

Takes(r, type) == /\ toServer[r] # <<>> /\ Head(toServer[r]).type = type
                  /\ toServer' = [toServer EXCEPT ![r] = Tail(@)]

(* mutant: the hardware information at once, and again for OPEN *)
HandleAuthReplyInfo(r) ==
  /\ Takes(r, "AUTH_REPLY")
  /\ toRouter' = IF conn[r] = "open" /\ interfaces # NotYet
                 THEN [toRouter EXCEPT ![r] = @ \o <<Msg("AUTH_STATUS"), Hwinfo(interfaces)>>]
                 ELSE Sent(toRouter, r, Msg("AUTH_STATUS"))
  /\ UNCHANGED <<routerVars, conn, serverVars, poxVars, early, disturbed>>

(* _handle_auth_reply: everybody is authenticated *)
HandleAuthReply(r) ==
  /\ Takes(r, "AUTH_REPLY")
  /\ toRouter' = Sent(toRouter, r, Msg("AUTH_STATUS"))
  /\ UNCHANGED <<routerVars, conn, serverVars, poxVars, early, disturbed>>

(* _handle_open_msg: nothing is sent, now or later, if no switch is known *)
HandleOpen(r) ==
  /\ Takes(r, "OPEN")
  /\ \/ interfaces # NotYet /\ toRouter' = Sent(toRouter, r, Hwinfo(interfaces)) /\ UNCHANGED early
     \/ interfaces = NotYet /\ early' = [early EXCEPT ![r] = TRUE] /\ UNCHANGED toRouter
  /\ UNCHANGED <<routerVars, conn, serverVars, poxVars, disturbed>>

(* there is no _handle_open_template_msg: Twisted drops the connection when *)
(* the callback raises                                                      *)
HandleOpenTemplate(r) ==
  /\ Takes(r, "OPEN_TEMPLATE")
  /\ conn' = [conn EXCEPT ![r] = "lost"]
  /\ UNCHANGED <<routerVars, toRouter, serverVars, poxVars, early, disturbed>>

ReactorStep(r) == NewClient(r) \/ HandleAuthReply(r) \/ HandleOpen(r) \/ HandleOpenTemplate(r)

-----------------------------------------------------------------------------
(* The server: POX's thread, which handles one event at a time *)

PoxIdle == info = Idle /\ casting = NoCast

SwitchUp(s) == /\ PoxIdle /\ s \notin up
               /\ up' = up \cup {s} /\ info' = [switch |-> s, left |-> Interfaces[s]]
               /\ UNCHANGED <<routerVars, conn, toRouter, toServer, serverVars, casting, frames, early, disturbed>>

(* mutant: the list is published before it is filled *)
PublishedAtOnce(s, left) == Interfaces[s] \ left

(* self.interfaces is assigned after the loop *)
Published(s, left) == IF left = {} THEN Interfaces[s] ELSE interfaces

(* _handle_RouterInfo, one interface at a time *)
RouterInfo == /\ info # Idle
              /\ \E i \in info.left :
                   LET left == info.left \ {i}
                   IN  /\ port_to_intfname' = port_to_intfname \cup {i}
                       /\ interfaces' = Published(info.switch, left)
                       /\ info' = IF left = {} THEN Idle ELSE [info EXCEPT !.left = left]
              /\ UNCHANGED <<routerVars, conn, toRouter, toServer, srclients, casting, up, frames, early, disturbed>>

(* _handle_SRPacketIn *)
PacketIn(i, frame) ==
  /\ PoxIdle /\ frames < MaxFrames
  /\ frames' = frames + 1
  /\ casting' = (IF i \in port_to_intfname THEN [msg |-> Packet(i, frame), next |-> 1] ELSE NoCast)
  /\ UNCHANGED <<routerVars, conn, toRouter, toServer, serverVars, info, up, early, disturbed>>

(* broadcast, one client at a time; the list may grow meanwhile *)
Broadcast == /\ casting # NoCast
             /\ \/ /\ casting.next <= Len(srclients)
                   /\ LET r == srclients[casting.next]
                      IN  /\ toRouter' = Sent(toRouter, r, casting.msg)
                          /\ disturbed' = [disturbed EXCEPT ![r] = @ \/ ~ready[r]]
                   /\ casting' = [casting EXCEPT !.next = @ + 1]
                \/ /\ casting.next > Len(srclients)
                   /\ casting' = NoCast /\ UNCHANGED <<toRouter, disturbed>>
             /\ UNCHANGED <<routerVars, conn, toServer, serverVars, info, up, frames, early>>

PoxStep == RouterInfo \/ Broadcast

Next == \/ \E r \in Routers : Connect(r) \/ RouterStep(r) \/ ReactorStep(r)
        \/ \E s \in Switches : SwitchUp(s)
        \/ \E i \in UNION {Interfaces[s] : s \in Switches}, f \in Frames : PacketIn(i, f)
        \/ PoxStep

(* The programs run on; users, switches and hosts need not do anything. *)
Spec == /\ Init /\ [][Next]_vars
        /\ \A r \in Routers : WF_vars(RouterStep(r)) /\ WF_vars(ReactorStep(r))
        /\ WF_vars(PoxStep)

-----------------------------------------------------------------------------
(* Apart from broadcast packets the two sides are in step: at most one      *)
(* message of the negotiation is under way, and it is the one its receiver  *)
(* waits for.  So nothing but a broadcast packet can be unexpected.         *)
Control(r) == {i \in DOMAIN toRouter[r] : toRouter[r][i].type # "PACKET"}
Expected(r) == IF pc[r] = "loop" THEN "HWINFO" ELSE pc[r]
InStep ==
  \A r \in Routers : pc[r] \notin {"exit", "abort"} =>
    /\ \A i, j \in Control(r) : i = j /\ toServer[r] = <<>>
    /\ Len(toServer[r]) <= 1
    /\ \A i \in Control(r) : toRouter[r][i].type = Expected(r)
    /\ \A i \in DOMAIN toServer[r] :
         \/ toServer[r][i].type = "AUTH_REPLY" /\ pc[r] = "AUTH_STATUS"
         \/ toServer[r][i].type = "OPEN_TEMPLATE" /\ pc[r] = "RTABLE"
         \/ toServer[r][i].type = "OPEN" /\ pc[r] = "loop" /\ ~ready[r]

(* A router that says it is ready has the whole interface list of one       *)
(* switch, although the two threads of the server share it without a lock   *)
HwinfoWhole == \A r \in Routers : ready[r] => \E s \in Switches : if_list[r] = Interfaces[s]

(* A connected router becomes ready, unless it has no key or its routing    *)
(* table does not fit, OPEN came before the first RouterInfo, a packet was  *)
(* broadcast to it too early, or it asked for a template, which leaves it   *)
(* reading from a closed connection                                         *)
Ended(r) == pc[r] = "exit" /\ (~hasKey[r] \/ (if_list[r] # {} /\ ~(RTable \subseteq if_list[r])))
SessionSettles ==
  \A r \in Routers : conn[r] = "open" ~>
    (ready[r] \/ Ended(r) \/ early[r] \/ disturbed[r] \/ (template[r] /\ spinning[r]))
=============================================================================
