------------------------------ MODULE VnsBridge ------------------------------
(***************************************************************************)
(* The POX application that connects the router of project 4 with its      *)
(* switch.  Two threads share the SRServerListener of srhandler.py:        *)
(*   - the POX thread runs the OpenFlow handlers of ofhandler.py, raises   *)
(*     RouterInfo when a switch comes up and SRPacketIn for every packet;  *)
(*   - the Twisted reactor accepts the routers, reads their messages and   *)
(*     calls the handlers that answer them or raise SRPacketOut.           *)
(* A router is the client side of router/sr_vns_comm.c.                    *)
(***************************************************************************)
EXTENDS VnsProtocol, SequencesExt, FiniteSets

CONSTANTS Clients,     \* TCP connections to the server, each used once
          Announced,   \* what the switch announces each time: name of interface -> port
          Ports,       \* ports of a switch, those without a name included
          Strays,      \* messages of other VNS clients
          Chunks,      \* what the socket may hand over at most
          MaxFrames    \* bound on the packets the switch sends up

VARIABLES pox,               \* what the POX thread is in the middle of
          ups,               \* the infos announced, by connection of the switch
          intfname_to_port, port_to_intfname,
          interfaces,        \* self.interfaces, <<>> before the first assignment
          srclients,         \* self.srclients, never shortened
          accepting,         \* connections between append and send in _handle_new_client
          conn,              \* "new", "open", or "lost" at the server
          packet,            \* the bytes dataReceived has accumulated
          toServer,          \* bytes on their way to the server
          toClient,          \* frames on their way to the router
          phase,             \* where sr_connect_to_server and the loop behind it are
          known,             \* the interfaces the router was told of, one record each
          arrived,           \* history: port, name and number of ups of each packet sent up
          out,               \* history: packets put out: number, name, port, number of ups
          sent, got,         \* history: messages sent to the server, and handled
          told               \* history: what the router has read

server == <<intfname_to_port, port_to_intfname, interfaces>>
clientVars == <<phase, known, sent, told>>
vars == <<pox, ups, server, srclients, accepting, conn, packet, toServer, toClient,
          clientVars, arrived, out, got>>

Idle == [op |-> "idle"]

(* The messages of the session with their contents. *)
AuthReply(k) == Message("VNSAuthReply", [username_len |-> Num(4)],
                        Bytes(Sym("user", k), 4) \o Bytes(Sym("sha1", k), 20), <<>>)
Open(k) == Message("VNSOpen", [topo_id |-> Num(0), vhost |-> Sym(k, "host"),
                               user |-> Sym(k, "user"), pw |-> Sym(k, "pw")], <<>>, <<>>)
Packet(n, id) == Message("VNSPacket", [intf_name |-> Num(n)], Bytes(Num(id), 4), <<>>)

Init ==
    /\ pox = Idle
    /\ ups = <<>>
    /\ intfname_to_port = [n \in {} |-> 0] /\ port_to_intfname = [p \in {} |-> ""]
    /\ interfaces = <<>>
    /\ srclients = <<>> /\ accepting = {}
    /\ conn = [k \in Clients |-> "new"]
    /\ packet = [k \in Clients |-> <<>>]
    /\ toServer = [k \in Clients |-> <<>>] /\ toClient = [k \in Clients |-> <<>>]
    /\ phase = [k \in Clients |-> "off"]
    /\ known = [k \in Clients |-> <<>>]
    /\ arrived = <<>> /\ out = <<>>
    /\ sent = [k \in Clients |-> <<>>] /\ got = [k \in Clients |-> <<>>]
    /\ told = [k \in Clients |-> <<>>]

(* VNSInterface(intf, pack_mac(mac), pack_ip(ip), mask) *)
Interface(n) == [name |-> Num(n), mac |-> Sym(n, "mac"), ip |-> Sym(n, "ip"),
                 mask |-> Sym("255.255.255.255", "mask")]

(* The frames of all messages of a session, the lists of interfaces as     *)
(* long as a switch has them.                                              *)
AuthRequest(k) == Message("VNSAuthRequest", NoFields, Bytes(Sym("salt", k), 20), <<>>)
AuthStatus == Message("VNSAuthStatus", [auth_ok |-> Num(1)],
                      Bytes(Sym("authenticated", "msg"), 4), <<>>)
HardwareInfo(list) == Message("VNSHardwareInfo", NoFields, <<>>, list)
InterfaceNames == UNION {DOMAIN Announced[u] : u \in DOMAIN Announced}
Sendable(k) == Strays \union {AuthReply(k), Open(k)}
                      \union {Packet(n, id) : n \in InterfaceNames, id \in 0 .. MaxFrames}
Lists(info) == {SubSeq(SetToSeq(DOMAIN info), 1, n) : n \in 0 .. Cardinality(DOMAIN info)}
Answers == {AuthRequest(k) : k \in Clients} \union {AuthStatus}
           \union {HardwareInfo([i \in DOMAIN s |-> Interface(s[i])]) :
                        s \in UNION {Lists(Announced[u]) : u \in DOMAIN Announced}}
Frame == [m \in Answers \union UNION {Sendable(k) : k \in Clients} |-> pack_with_header(m)]

(* conn.send: write() to a transport that is no longer connected returns. *)
Written(k, m) ==
    IF conn[k] = "open" THEN [toClient EXCEPT ![k] = Append(@, Frame[m])]
                        ELSE toClient

-----------------------------------------------------------------------------
(* The POX thread. *)

(* ConnectionUp: OFHandler collects the named ports of the switch and      *)
(* raises RouterInfo, whose handler works through the interfaces.          *)
_handle_ConnectionUp ==
    /\ pox = Idle
    /\ Len(ups) < Len(Announced)
    /\ ups' = Append(ups, Announced[Len(ups) + 1])
    /\ pox' = [op |-> "info", todo |-> SetToSeq(DOMAIN Last(ups')), list |-> <<>>]
    /\ UNCHANGED <<server, srclients, accepting, conn, packet, toServer, toClient,
                   clientVars, arrived, out, got>>

(* Mutant: the mapping of a port that has a name already is kept. *)
KeepsOldName(info, n) ==
    /\ intfname_to_port' = (n :> info[n]) @@ intfname_to_port
    /\ port_to_intfname' = port_to_intfname @@ (info[n] :> n)

MapInterface(info, n) ==
    /\ intfname_to_port' = (n :> info[n]) @@ intfname_to_port
    /\ port_to_intfname' = (info[n] :> n) @@ port_to_intfname

(* Mutant: self.interfaces is appended to in place. *)
AppendsInPlace ==
    /\ pox.op = "info" /\ pox.todo # <<>>
    /\ pox' = [pox EXCEPT !.todo = Tail(@), !.list = Append(@, Interface(Head(pox.todo)))]
    /\ interfaces' = <<pox'.list>>
    /\ MapInterface(Last(ups), Head(pox.todo))
    /\ UNCHANGED <<ups, srclients, accepting, conn, packet, toServer, toClient,
                   clientVars, arrived, out, got>>

(* One turn of the loop of _handle_RouterInfo. *)
RouterInfoStep ==
    /\ pox.op = "info" /\ pox.todo # <<>>
    /\ pox' = [pox EXCEPT !.todo = Tail(@), !.list = Append(@, Interface(Head(pox.todo)))]
    /\ MapInterface(Last(ups), Head(pox.todo))
    /\ UNCHANGED <<ups, interfaces, srclients, accepting, conn, packet, toServer, toClient,
                   clientVars, arrived, out, got>>

RouterInfoEnd ==
    /\ pox.op = "info" /\ pox.todo = <<>>
    /\ interfaces' = <<pox.list>>
    /\ pox' = Idle
    /\ UNCHANGED <<ups, intfname_to_port, port_to_intfname, srclients, accepting, conn, packet,
                   toServer, toClient, clientVars, arrived, out, got>>

(* SRPacketIn: the interface of the port is named and the packet           *)
(* broadcast, or left where the port has no name.                          *)
_handle_SRPacketIn(p, id) ==
    IF p \in DOMAIN port_to_intfname
    THEN [op |-> "broadcast", next |-> 1, msg |-> Packet(port_to_intfname[p], id)]
    ELSE Idle

(* PacketIn: the handler raises SRPacketIn for the packet, tagged here     *)
(* with its number.  The packet out without actions that it sends after    *)
(* that releases the buffer of the switch, which is not part of the state. *)
_handle_PacketIn(p) ==
    /\ pox = Idle
    /\ ups # <<>>
    /\ Len(arrived) < MaxFrames
    /\ arrived' = Append(arrived, [port |-> p, ups |-> Len(ups),
                                    name |-> IF p \in DOMAIN port_to_intfname
                                             THEN port_to_intfname[p] ELSE ""])
    /\ pox' = _handle_SRPacketIn(p, Len(arrived'))
    /\ UNCHANGED <<ups, server, srclients, accepting, conn, packet, toServer, toClient,
                   clientVars, out, got>>

(* broadcast: the list is walked while the reactor may append to it, and   *)
(* write() is called from a thread that is not the reactor's: what it      *)
(* appends is lost when the reactor empties the transport's buffer at the  *)
(* same time.                                                              *)
Broadcast ==
    /\ pox.op = "broadcast" /\ pox.next <= Len(srclients)
    /\ pox' = [pox EXCEPT !.next = @ + 1]
    /\ \/ toClient' = Written(srclients[pox.next], pox.msg)
       \/ /\ toClient[srclients[pox.next]] # <<>>
          /\ UNCHANGED toClient
    /\ UNCHANGED <<ups, server, srclients, accepting, conn, packet, toServer,
                   clientVars, arrived, out, got>>

BroadcastEnd ==
    /\ pox.op = "broadcast" /\ pox.next > Len(srclients)
    /\ pox' = Idle
    /\ UNCHANGED <<ups, server, srclients, accepting, conn, packet, toServer, toClient,
                   clientVars, arrived, out, got>>

-----------------------------------------------------------------------------
(* The reactor thread: it takes the next event when no handler is running  *)
(* and dataReceived has no whole frame left.                               *)
ReactorFree == accepting = {} /\ \A k \in Clients : conn[k] = "open" => ~ Complete(packet[k])

(* connectionMade and the first half of _handle_new_client: the router is  *)
(* among the receivers of broadcasts before it has been sent anything.     *)
connectionMade(k) ==
    /\ ReactorFree
    /\ phase[k] # "off" /\ conn[k] = "new"
    /\ conn' = [conn EXCEPT ![k] = "open"]
    /\ srclients' = Append(srclients, k)
    /\ accepting' = {k}
    /\ UNCHANGED <<pox, ups, server, packet, toServer, toClient, clientVars, arrived, out, got>>

_handle_new_client(k) ==
    /\ k \in accepting
    /\ accepting' = {}
    /\ toClient' = Written(k, AuthRequest(k))
    /\ UNCHANGED <<pox, ups, server, srclients, conn, packet, toServer, clientVars, arrived, out, got>>

(* dataReceived appends what the socket had. *)
dataReceived(k, n) ==
    /\ ReactorFree
    /\ conn[k] = "open" /\ toServer[k] # <<>>
    /\ LET m == IF n < Len(toServer[k]) THEN n ELSE Len(toServer[k])
       IN  /\ packet' = [packet EXCEPT ![k] = @ \o SubSeq(toServer[k], 1, m)]
           /\ toServer' = [toServer EXCEPT ![k] = From(@, m)]
    /\ UNCHANGED <<pox, ups, server, srclients, accepting, conn, toClient, clientVars,
                   arrived, out, got>>

(* What _handle_recv_msg does with a message: the answer it sends, the     *)
(* packet it puts out, or the exception that makes Twisted drop the        *)
(* connection.  Closing raises too: the farewell is not a message.         *)
Nothing == [answer |-> <<>>, put |-> <<>>, fails |-> FALSE]
Failed == [Nothing EXCEPT !.fails = TRUE]

_handle_auth_reply(m) ==
    [Nothing EXCEPT !.answer = <<AuthStatus>>]

(* Mutant: an open message is answered once every switch is there only. *)
WaitsForSwitch(m) ==
    IF interfaces = <<>> \/ pox.op = "info" THEN Nothing
    ELSE [Nothing EXCEPT !.answer = <<HardwareInfo(interfaces[1])>>]

_handle_open_msg(m) ==
    IF interfaces = <<>> THEN Nothing
    ELSE [Nothing EXCEPT !.answer = <<HardwareInfo(interfaces[1])>>]

_handle_close_msg(m) == Failed

(* SRPacketOut: every OFHandler sends the packet out through the port; the *)
(* send of one whose connection is gone does nothing.                      *)
_handle_SRPacketOut(m, port) ==
    <<[id |-> ReadField(m.data, 0, 4)[2], name |-> m.val.intf_name[2], port |-> port,
       ups |-> Len(ups)]>>

(* An unknown interface raises: the message of the log names the port that *)
(* was not found.                                                          *)
_handle_packet_msg(m) ==
    IF m.val.intf_name[2] \in DOMAIN intfname_to_port
    THEN [Nothing EXCEPT !.put = _handle_SRPacketOut(m, intfname_to_port[m.val.intf_name[2]])]
    ELSE Failed

_handle_recv_msg(m) ==
    CASE m.cls = "None" -> _handle_close_msg(m)
      [] m.cls = "VNSAuthReply" -> _handle_auth_reply(m)
      [] m.cls = "VNSOpen" -> _handle_open_msg(m)
      [] m.cls = "VNSClose" -> _handle_close_msg(m)
      [] m.cls = "VNSPacket" -> _handle_packet_msg(m)
      [] m.cls = "VNSOpenTemplate" -> Failed
      [] OTHER -> Nothing

(* Mutant: the rest of the buffer is thrown away with the frame. *)
DropsRest(k) ==
    /\ accepting = {}
    /\ conn[k] = "open" /\ Complete(packet[k])
    /\ \E u \in Unpacked(packet[k]) :
       \E r \in {IF u.raises THEN Failed ELSE _handle_recv_msg(u.msg)} :
           /\ packet' = [packet EXCEPT ![k] = <<>>]
           /\ got' = IF u.raises THEN got ELSE [got EXCEPT ![k] = Append(@, u.msg)]
           /\ conn' = IF r.fails THEN [conn EXCEPT ![k] = "lost"] ELSE conn
           /\ toClient' = IF r.answer = <<>> THEN toClient ELSE Written(k, r.answer[1])
           /\ out' = out \o r.put
    /\ UNCHANGED <<pox, ups, server, srclients, accepting, toServer, clientVars, arrived>>

(* One turn of the loop of dataReceived. *)
HandleFrame(k) ==
    /\ accepting = {}
    /\ conn[k] = "open" /\ Complete(packet[k])
    /\ \E u \in Unpacked(packet[k]) :
       \E r \in {IF u.raises THEN Failed ELSE _handle_recv_msg(u.msg)} :
           /\ packet' = [packet EXCEPT ![k] = From(@, LenNeeded(@))]
           /\ got' = IF u.raises THEN got ELSE [got EXCEPT ![k] = Append(@, u.msg)]
           /\ conn' = IF r.fails THEN [conn EXCEPT ![k] = "lost"] ELSE conn
           /\ toClient' = IF r.answer = <<>> THEN toClient ELSE Written(k, r.answer[1])
           /\ out' = out \o r.put
    /\ UNCHANGED <<pox, ups, server, srclients, accepting, toServer, clientVars, arrived>>

(* loseConnection() on the transport; the router stays in srclients. *)
_handle_client_disconnected(k) == conn' = [conn EXCEPT ![k] = "lost"]

(* The router is gone. *)
connectionLost(k) ==
    /\ ReactorFree
    /\ conn[k] = "open" /\ phase[k] \in {"failed", "quit"} /\ toServer[k] = <<>>
    /\ _handle_client_disconnected(k)
    /\ UNCHANGED <<pox, ups, server, srclients, accepting, packet, toServer, toClient,
                   clientVars, arrived, out, got>>

-----------------------------------------------------------------------------
(* The router, sr_vns_comm.c. *)
Transmit(k, m) ==
    /\ sent' = [sent EXCEPT ![k] = Append(@, m)]
    /\ toServer' = [toServer EXCEPT ![k] = @ \o Frame[m]]

Connect(k) ==
    /\ phase[k] = "off"
    /\ phase' = [phase EXCEPT ![k] = "auth"]
    /\ UNCHANGED <<pox, ups, server, srclients, accepting, conn, packet, toServer, toClient,
                   known, sent, told, arrived, out, got>>

FrameType(b) == AsNat(ReadField(b, 4, 4))
TypeOf(c) == VNS_MESSAGES[c].type

(* sr_handle_hwinfo: the entries by their keys. *)
HwEntry(b, i) == 8 + (4 + HwSize) * (i - 1)
Interfaces(b) ==
    LET n == (Len(b) - 8) \div (4 + HwSize)
        key(i) == AsNat(ReadField(b, HwEntry(b, i), 4))
        starts == SelectSeq([i \in 1 .. n |-> i], LAMBDA i : key(i) = 1)
        value(j, k, w) ==
            LET e == CHOOSE i \in starts[j] .. n : key(i) = k
            IN  ReadField(b, HwEntry(b, e) + 4, w)
    IN  [j \in DOMAIN starts |->
            [name |-> value(j, 1, HwSize), mac |-> value(j, 32, HwSize), ip |-> value(j, 64, 4)]]

(* What the histories keep of a frame: its type, and a packet's number. *)
Digest(b) == [type |-> FrameType(b),
              id |-> IF FrameType(b) = TypeOf("VNSPacket")
                     THEN AsNat(ReadField(b, 8 + NameSize, 4)) ELSE 0]

ReadFrame(k) ==
    /\ toClient' = [toClient EXCEPT ![k] = Tail(@)]
    /\ told' = [told EXCEPT ![k] = Append(@, Digest(Head(toClient[k])))]
    /\ UNCHANGED <<pox, ups, server, srclients, accepting, conn, packet, arrived, out, got>>

(* sr_read_from_server_expect during the login: another frame ends it. *)
LoginFails(k) ==
    /\ toClient[k] # <<>>
    /\ \/ phase[k] = "auth" /\ FrameType(Head(toClient[k])) # TypeOf("VNSAuthRequest")
       \/ phase[k] = "status" /\ FrameType(Head(toClient[k])) # TypeOf("VNSAuthStatus")
    /\ phase' = [phase EXCEPT ![k] = "failed"]
    /\ ReadFrame(k)
    /\ UNCHANGED <<known, sent, toServer>>

sr_handle_auth_request(k) ==
    /\ phase[k] = "auth" /\ toClient[k] # <<>>
    /\ FrameType(Head(toClient[k])) = TypeOf("VNSAuthRequest")
    /\ ReadFrame(k)
    /\ phase' = [phase EXCEPT ![k] = "status"]
    /\ Transmit(k, AuthReply(k))
    /\ UNCHANGED known

sr_handle_auth_status(k) ==
    /\ phase[k] = "status" /\ toClient[k] # <<>>
    /\ FrameType(Head(toClient[k])) = TypeOf("VNSAuthStatus")
    /\ ReadFrame(k)
    /\ phase' = [phase EXCEPT ![k] = "wait"]
    /\ Transmit(k, Open(k))
    /\ UNCHANGED known

(* The router ends when its routing table, which is read from a file, does *)
(* not fit the interfaces announced (sr_verify_routing_table).             *)
sr_handle_hwinfo(k) ==
    /\ phase[k] = "wait" /\ toClient[k] # <<>>
    /\ FrameType(Head(toClient[k])) = TypeOf("VNSHardwareInfo")
    /\ ReadFrame(k)
    /\ known' = [known EXCEPT ![k] = Interfaces(Head(toClient[k]))]
    /\ \E verified \in BOOLEAN :
          phase' = [phase EXCEPT ![k] = IF verified THEN "up" ELSE "failed"]
    /\ UNCHANGED <<sent, toServer>>

PacketIsNext(k) == /\ phase[k] \in {"wait", "up"} /\ toClient[k] # <<>>
                   /\ FrameType(Head(toClient[k])) = TypeOf("VNSPacket")

(* A packet for the router.  One that is up may answer it or forward it    *)
(* through an interface it knows; one that waits knows none yet.           *)
sr_handlepacket(k) ==
    /\ PacketIsNext(k)
    /\ ReadFrame(k)
    /\ \/ \E u \in Unpacked(Head(toClient[k])), i \in DOMAIN known[k] :
              Transmit(k, [u.msg EXCEPT !.val.intf_name = known[k][i].name])
       \/ UNCHANGED <<sent, toServer>>
    /\ UNCHANGED <<phase, known>>

(* sr_arp_req_not_for_us asserts that the router knows the interface of a  *)
(* packet that has room for an ARP header, which any packet may have.      *)
AssertFails(k) ==
    /\ PacketIsNext(k)
    /\ \E u \in Unpacked(Head(toClient[k])) :
          \A i \in DOMAIN known[k] : known[k][i].name # u.msg.val.intf_name
    /\ phase' = [phase EXCEPT ![k] = "failed"]
    /\ ReadFrame(k)
    /\ UNCHANGED <<known, sent, toServer>>

(* Another client of the protocol sends what the router does not, or a     *)
(* packet of its own (number 0), and a client ends.                        *)
Stray(k, m) ==
    /\ phase[k] = "up"
    /\ ~ \E i \in DOMAIN sent[k] : sent[k][i] \in Strays \/ sent[k][i].data = Bytes(Num(0), 4)
    /\ Transmit(k, m)
    /\ UNCHANGED <<pox, ups, server, srclients, accepting, conn, packet, toClient, phase, known,
                   told, arrived, out, got>>

OwnPackets(k) == {Packet(known[k][i].name[2], 0) : i \in DOMAIN known[k]}

Quit(k) ==
    /\ phase[k] = "up"
    /\ phase' = [phase EXCEPT ![k] = "quit"]
    /\ UNCHANGED <<pox, ups, server, srclients, accepting, conn, packet, toServer, toClient,
                   known, sent, told, arrived, out, got>>

-----------------------------------------------------------------------------
Pox == \/ _handle_ConnectionUp
       \/ RouterInfoStep
       \/ RouterInfoEnd
       \/ \E p \in Ports : _handle_PacketIn(p)
       \/ Broadcast
       \/ BroadcastEnd

Reactor(k) == \/ connectionMade(k)
              \/ _handle_new_client(k)
              \/ \E n \in Chunks : dataReceived(k, n)
              \/ HandleFrame(k)
              \/ connectionLost(k)

Reads(k) == \/ LoginFails(k)
            \/ sr_handle_auth_request(k)
            \/ sr_handle_auth_status(k)
            \/ sr_handle_hwinfo(k)
            \/ sr_handlepacket(k)
            \/ AssertFails(k)

Next == \/ Pox
        \/ \E k \in Clients : \/ Reactor(k)
                              \/ Reads(k)
                              \/ Connect(k)
                              \/ \E m \in Strays \union OwnPackets(k) : Stray(k, m)
                              \/ Quit(k)

(* The reactor goes on as long as there is something to do, and so do the  *)
(* clients, which read in a loop.                                          *)
Fairness == WF_vars(\E k \in Clients : Reactor(k)) /\ WF_vars(\E k \in Clients : Reads(k))

Spec == Init /\ [][Next]_vars /\ Fairness

-----------------------------------------------------------------------------
(* Both tables are partial functions over the names and ports announced,   *)
(* and the accumulated bytes are those of the session's own messages.      *)
TypeOK ==
    /\ DOMAIN intfname_to_port \subseteq InterfaceNames
    /\ \A n \in DOMAIN intfname_to_port : intfname_to_port[n] \in DOMAIN port_to_intfname
    /\ conn \in [Clients -> {"new", "open", "lost"}]
    /\ phase \in [Clients -> {"off", "auth", "status", "wait", "up", "failed", "quit"}]
    /\ accepting \subseteq Clients
    /\ Len(interfaces) <= 1

(* However TCP cuts the stream, the messages handed to _handle_recv_msg    *)
(* are those the client sent, in order and unaltered, with None for the    *)
(* one class that has no unpack(): every session implements MessageFifo.   *)
AsHandled(m) == IF m.cls = "VNSHardwareInfo" THEN None ELSE m
Fifo(k) == INSTANCE MessageFifo
               WITH Objects <- {AsHandled(m) : m \in Sendable(k)},
                    sent <- [i \in DOMAIN sent[k] |-> AsHandled(sent[k][i])],
                    got <- got[k]
ImplementsFifo ==
    /\ \A k \in Clients : Fifo(k)!Init
    /\ [][\A k \in Clients : UNCHANGED <<sent[k], got[k]>> \/ Fifo(k)!Next]_vars

(* The server drops a router that is up only for one of the messages it    *)
(* cannot handle.  In particular a router that sends through an interface  *)
(* it was told of is never dropped, although _handle_RouterInfo may be     *)
(* half way through its tables: they are filled before the list is there.  *)
Refused(m) == m.cls \in {"VNSClose", "VNSOpenTemplate", "VNSHardwareInfo"}
SessionKept ==
    \A k \in Clients : (conn[k] = "lost" /\ phase[k] = "up") =>
        \E i \in DOMAIN sent[k] : Refused(sent[k][i])

(* A router that is up knows all interfaces of a switch that has come up,  *)
(* with their addresses, never a part of them.                             *)
InterfacesComplete ==
    \A k \in Clients : phase[k] = "up" =>
        \E u \in DOMAIN ups :
            /\ Len(known[k]) = Cardinality(DOMAIN ups[u])
            /\ ToSet(known[k]) = {[name |-> Num(n), mac |-> Sym(n, "mac"), ip |-> Sym(n, "ip")]
                                    : n \in DOMAIN ups[u]}

(* An answer through the interface under which a packet was handed to the  *)
(* router leaves by the port the packet came in through, unless the switch *)
(* has connected again in between: names and ports are kept in two tables, *)
(* one used in each direction, by two threads.                             *)
AnswersReturn ==
    \A i \in {j \in DOMAIN out : out[j].id # 0} :
        LET came == arrived[out[i].id]
        IN  (out[i].ups = came.ups /\ out[i].name = came.name) => out[i].port = came.port

(* No router is handed a packet twice or two packets in the wrong order,   *)
(* although it may join while a broadcast walks the list and stays in the  *)
(* list for good.                                                          *)
IsPacket(d) == d.type = TypeOf("VNSPacket")
PacketsOnce ==
    \A k \in Clients : \A i, j \in DOMAIN told[k] :
        (i < j /\ IsPacket(told[k][i]) /\ IsPacket(told[k][j])) => told[k][i].id < told[k][j].id

(* Apart from packets a router reads the request, the status and the       *)
(* hardware information in this order; so only a packet that was broadcast *)
(* while it logged in can make its login fail.                             *)
LoginOrder ==
    \A k \in Clients :
        LET s == SelectSeq(told[k], LAMBDA d : ~ IsPacket(d))
        IN  IsPrefix([i \in DOMAIN s |-> s[i].type],
                     <<TypeOf("VNSAuthRequest"), TypeOf("VNSAuthStatus"), TypeOf("VNSHardwareInfo")>>)

(* A router that connects when the interfaces are known gets through the   *)
(* login, unless a packet interferes with it.                              *)
LoginEnds ==
    \A k \in Clients :
        (phase[k] = "auth" /\ interfaces # <<>>) ~> phase[k] \in {"up", "failed", "quit"}

(* Two threads and the network never leave a session half done: tables     *)
(* agree with each other, routers are told whole interface lists in the    *)
(* order of the login, and a router that behaves is not dropped.           *)
SessionsSound == TypeOK /\ SessionKept /\ InterfacesComplete /\ LoginOrder

(* Packets cross the bridge in both directions as they came: once, in      *)
(* order, and back to the port they came from.                             *)
PacketsCross == AnswersReturn /\ PacketsOnce
=============================================================================
