--------------------------- MODULE LearningSwitch ---------------------------
(***************************************************************************)
(* The software switch (switch_impl.py, with the controller roles of       *)
(* nx_switch_impl.py), connected to controllers that run l2_learning or    *)
(* l3_learning.  Messages travel on one queue per direction and            *)
(* connection.  Messages that neither has a handler for (errors, role      *)
(* replies, port status) are left out.                                     *)
(***************************************************************************)
EXTENDS FlowTable, Addresses

CONSTANTS Conns,       \* connections of controllers
          L3Conns,     \* those of controllers that run l3_learning
          NoConn,      \* not a connection
          Ports,       \* port numbers
          Arrivals,    \* packets that may arrive, with the port they arrive at
          Multicast,   \* multicast destinations
          Filtered,    \* bridge filtered destinations
          AdminMods,   \* flow_mods that other components of a controller send
          MaxArrivals, \* bound on arriving packets
          MaxEvents    \* bound on flow_mods, role requests and ports going down

ASSUME SwitchAssumption ==
    /\ NoConn \notin Conns /\ L3Conns \subseteq Conns /\ Ports \subseteq Nat /\ Filtered \subseteq Multicast
    /\ {MaxArrivals, MaxEvents} \subseteq Nat

VARIABLES table,          \* the SwitchFlowTable
          packet_buffer,  \* packet_buffer[i]: the packet of buffer i, or Free
          ports,          \* ports that are up
          connections,    \* NXSwitchImpl.connections
          role,           \* role_by_conn
          in_action,      \* connection_in_action
          next_other,
          toSwitch, toController,  \* messages on their way, per connection
          macToPort,      \* LearningSwitch.macToPort, per connection
          arpTable,       \* l3_switch.arpTable, per connection
          warm,           \* FLOOD_DELAY has passed
          used,           \* how often the bounded steps have happened
          outs,           \* packets that left, with their port (history)
          raised          \* a handler raised (history)

vars == <<table, packet_buffer, ports, connections, role, in_action, next_other, toSwitch,
          toController, macToPort, arpTable, warm, used, outs, raised>>

Free == <<>>
OFP_DEFAULT_PRIORITY == 32768
OFPP_IN_PORT == 65528
OFPP_FLOOD == 65531
OFPP_ALL == 65532
OFPP_CONTROLLER == 65533

Init ==
    /\ table = <<>> /\ packet_buffer = <<>> /\ ports = Ports
    /\ connections = <<>> /\ role = [c \in Conns |-> "other"]
    /\ in_action = NoConn /\ next_other = 0
    /\ toSwitch = [c \in Conns |-> <<>>] /\ toController = [c \in Conns |-> <<>>]
    /\ macToPort = [c \in Conns |-> <<>>] /\ arpTable = [c \in Conns |-> <<>>]
    /\ warm = FALSE
    /\ used = [arrivals |-> 0, events |-> 0]
    /\ outs = <<>> /\ raised = FALSE

Bump(what, max) == used[what] < max /\ used' = [used EXCEPT ![what] = @ + 1]

-----------------------------------------------------------------------------
(* Buffers.  Buffer ids count from 1. *)
IsFree(slot) == slot = Free

_buffer_packet(buffer, p, in_port) ==
    LET i == SelectInSeq(buffer, IsFree)
    IN  IF i = 0 THEN Append(buffer, <<p, in_port>>) ELSE [buffer EXCEPT ![i] = <<p, in_port>>]
BufferId(buffer) == LET i == SelectInSeq(buffer, IsFree) IN IF i = 0 THEN Len(buffer) + 1 ELSE i

packet_in(buffer, p, in_port) ==
    [type |-> "packet_in", buffer_id |-> BufferId(buffer), in_port |-> in_port, pkt |-> p]

-----------------------------------------------------------------------------
(* Actions on a packet.  s is what they change: the packet, the buffers,   *)
(* the packets that leave, the packet_ins and whether an action raised.    *)
_output_packet(s, out, in_port) ==
    CASE out \in {OFPP_FLOOD, OFPP_ALL} ->
           [s EXCEPT !.outs = @ \o SetToSeq({[pkt |-> s.pkt, port |-> q] : q \in ports \ {in_port}})]
      [] out = OFPP_CONTROLLER ->
           [s EXCEPT !.buffer = _buffer_packet(@, s.pkt, in_port),
                     !.ins = Append(@, packet_in(s.buffer, s.pkt, in_port))]
      [] OTHER ->
           LET q == IF out = OFPP_IN_PORT THEN in_port ELSE out
           IN  IF q \in ports THEN [s EXCEPT !.outs = Append(@, [pkt |-> s.pkt, port |-> q])]
               ELSE [s EXCEPT !.raised = TRUE]

(* set_vlan_vid and set_vlan_pcp push an empty tag in front of nothing and *)
(* set their value on the Ethernet header; the network and transport       *)
(* actions change attributes that no header writes.  enqueue and unknown   *)
(* actions raise.                                                          *)
PushVlan(p) == IF p.vlan # None THEN p ELSE [p EXCEPT !.vlan = 0, !.pcp = 0, !.next = "nothing"]
(* push_mpls puts a header in front of nothing as well, and popping such a *)
(* header raises.                                                          *)
MplsSets == {"push_mpls", "set_mpls_label", "set_mpls_tc", "set_mpls_ttl"}
PushMpls(p) == [p EXCEPT !.type = MPLS_TYPE, !.vlan = None, !.pcp = None, !.next = "pushed mpls"]
IsMpls(p) == p.next \in {"mpls", "pushed mpls"}
NoEffect == {"dec_mpls_ttl", "set_nw_src", "set_nw_dst", "set_nw_tos", "set_tp_src", "set_tp_dst"}
handler_map(s, a, in_port) ==
    CASE s.raised -> s
      [] a.type = "output" -> _output_packet(s, a.port, in_port)
      [] a.type \in {"set_vlan_vid", "set_vlan_pcp"} -> [s EXCEPT !.pkt = PushVlan(@)]
      [] a.type = "strip_vlan" -> [s EXCEPT !.pkt.vlan = None, !.pkt.pcp = None]
      [] a.type = "set_dl_src" -> [s EXCEPT !.pkt.src = a.dl_addr]
      [] a.type = "set_dl_dst" -> [s EXCEPT !.pkt.dst = a.dl_addr]
      [] a.type \in MplsSets ->
           IF a.type # "push_mpls" /\ IsMpls(s.pkt) THEN s ELSE [s EXCEPT !.pkt = PushMpls(@)]
      [] a.type = "pop_mpls" ->
           IF s.pkt.next = "mpls" THEN [s EXCEPT !.pkt.next = "other"]
           ELSE [s EXCEPT !.raised = s.pkt.next = "pushed mpls"]
      [] a.type \in NoEffect -> s
      [] OTHER -> [s EXCEPT !.raised = TRUE]

_process_actions_for_packet(actions, buffer, p, in_port) ==
    FoldLeft(LAMBDA s, a : handler_map(s, a, in_port),
             [pkt |-> p, buffer |-> buffer, outs |-> <<>>, ins |-> <<>>, raised |-> FALSE],
             actions)

Nothing(buffer) == [buffer |-> buffer, outs |-> <<>>, ins |-> <<>>, raised |-> FALSE]

(* A buffer that is not in use is reported and nothing happens; the one    *)
(* just behind the last raises.  The buffer is freed when all actions have *)
(* been done, and not if one of them raises.                               *)
_process_actions_for_packet_from_buffer(actions, buffer_id) ==
    IF buffer_id = Len(packet_buffer) + 1
    THEN [Nothing(packet_buffer) EXCEPT !.raised = TRUE]
    ELSE IF buffer_id > Len(packet_buffer) + 1 \/ packet_buffer[buffer_id] = Free
    THEN Nothing(packet_buffer)
    ELSE LET slot == packet_buffer[buffer_id]
             s == _process_actions_for_packet(actions, packet_buffer, slot[1], slot[2])
         IN  IF s.raised THEN s ELSE [s EXCEPT !.buffer[buffer_id] = Free]

-----------------------------------------------------------------------------
(* NXSwitchImpl.send() of packet_ins, while a is the connection in action: *)
(* to a, else to the first master, else to the others in turn.             *)
WithRole(r) == {k \in DOMAIN connections : role[connections[k]] = r}

At(ks, n) == {connections[k] : k \in {x \in ks : Cardinality({y \in ks : y < x}) = n}}
Turn(i) == (next_other + i - 1) % Cardinality(WithRole("other"))

(* Mutant: the master has no privilege and the answer none either. *)
AlwaysInTurn(a, i) == IF WithRole("other") # {} THEN At(WithRole("other"), Turn(i))
                      ELSE At(DOMAIN connections, 0)
(* Who is sent the i-th of several messages. *)
Receiver(a, i) ==
    IF a # NoConn THEN {a}
    ELSE IF WithRole("master") # {} THEN At(WithRole("master"), 0)
    ELSE IF WithRole("other") # {} THEN At(WithRole("other"), Turn(i))
    ELSE {}

Picked(msgs, S) == LET s == SetToSortSeq(S, <) IN [k \in DOMAIN s |-> msgs[s[k]]]

send(a, msgs) ==
    LET share(c) == {i \in DOMAIN msgs : c \in Receiver(a, i)}
    IN  /\ toController' =
              [c \in Conns |-> IF share(c) = {} THEN toController[c]
                              ELSE toController[c] \o Picked(msgs, share(c))]
        /\ next_other' = IF /\ msgs # <<>> /\ a = NoConn
                            /\ WithRole("master") = {} /\ WithRole("other") # {}
                         THEN Turn(Len(msgs)) + 1 ELSE next_other

(* What the switch does after s was computed. *)
Finish(s, c) ==
    /\ packet_buffer' = s.buffer
    /\ outs' = outs \o s.outs
    /\ raised' = (raised \/ s.raised)
    /\ send(c, s.ins)

-----------------------------------------------------------------------------
(* set_connection(), set_io_worker() *)
add_connection(c) ==
    /\ c \notin ToSet(connections)
    /\ connections' = Append(connections, c)
    /\ role' = [role EXCEPT ![c] = "other"]
    /\ UNCHANGED <<table, packet_buffer, ports, in_action, next_other, toSwitch, toController,
                   macToPort, arpTable, warm, used, outs, raised>>

(* process_packet(): a packet without an entry is buffered and sent to a   *)
(* controller.                                                             *)
process_packet(p, in_port) ==
    /\ in_port \in ports /\ Bump("arrivals", MaxArrivals)
    /\ LET pkt == [p EXCEPT !.id = used.arrivals + 1]
           i == entry_for_packet(table, pkt, in_port)
       IN  Finish(IF i # 0
                  THEN _process_actions_for_packet(table[i].actions, packet_buffer, pkt, in_port)
                  ELSE [Nothing(packet_buffer) EXCEPT
                           !.buffer = _buffer_packet(@, pkt, in_port),
                           !.ins = <<packet_in(packet_buffer, pkt, in_port)>>],
                  in_action)
    /\ UNCHANGED <<table, ports, connections, role, in_action, toSwitch, macToPort, arpTable, warm>>

set_role(c, r) ==
    [d \in Conns |-> IF d = c THEN r
                     ELSE IF r = "master" /\ d \in ToSet(connections) THEN "slave"
                     ELSE role[d]]

(* check_rights(): messages that a slave may not send are answered with an *)
(* error.                                                                  *)
check_rights(c, m) == role[c] # "slave" \/ m.type \notin {"flow_mod", "packet_out"}

(* What the handler of message m does. *)
Handle(m) ==
    CASE m.type = "flow_mod" /\ FlowModRaises(m) -> [Nothing(packet_buffer) EXCEPT !.raised = TRUE]
      [] m.type \in {"flow_mod", "packet_out"} /\ m.buffer_id > 0 ->
            _process_actions_for_packet_from_buffer(m.actions, m.buffer_id)
      [] m.type = "packet_out" /\ m.buffer_id = 0 ->
            _process_actions_for_packet(m.actions, packet_buffer, m.data, m.in_port)
      [] OTHER -> Nothing(packet_buffer)

(* The handlers of beef_up_handlers(): when a handler raises, the          *)
(* connection remains the one in action.                                   *)
Receive(c) ==
    /\ toSwitch[c] # <<>>
    /\ LET m == Head(toSwitch[c])
           s == IF check_rights(c, m) THEN Handle(m) ELSE Nothing(packet_buffer)
       IN  /\ Finish(s, c)
           /\ in_action' = IF s.raised THEN c ELSE NoConn
           /\ table' = IF m.type = "flow_mod" /\ check_rights(c, m) /\ ~ FlowModRaises(m)
                       THEN process_flow_mod(table, m) ELSE table
           /\ role' = IF m.type = "role_request" THEN set_role(c, m.role) ELSE role
    /\ toSwitch' = [toSwitch EXCEPT ![c] = Tail(@)]
    /\ UNCHANGED <<ports, connections, macToPort, arpTable, warm, used>>

take_port_down(q) ==
    /\ q \in ports /\ Bump("events", MaxEvents)
    /\ ports' = ports \ {q}
    /\ UNCHANGED <<table, packet_buffer, connections, role, in_action, next_other, toSwitch,
                   toController, macToPort, arpTable, warm, outs, raised>>
bring_port_up(q) ==
    /\ q \in Ports \ ports
    /\ ports' = ports \union {q}
    /\ UNCHANGED <<table, packet_buffer, connections, role, in_action, next_other, toSwitch,
                   toController, macToPort, arpTable, warm, used, outs, raised>>

(* FlowTable.remove_expired_entries() *)
Expire(gone) ==
    /\ gone \in expired_entries(table) /\ gone # {}
    /\ table' = remove_expired_entries(table, gone)
    /\ UNCHANGED <<packet_buffer, ports, connections, role, in_action, next_other, toSwitch,
                   toController, macToPort, arpTable, warm, used, outs, raised>>

-----------------------------------------------------------------------------
(* l2_learning *)
packet_out(m, actions) ==
    [type |-> "packet_out", buffer_id |-> m.buffer_id, in_port |-> m.in_port,
     actions |-> actions]
flow_mod(m, actions) ==
    [type |-> "flow_mod", command |-> OFPFC_ADD, match |-> from_packet(m.pkt, None),
     priority |-> OFP_DEFAULT_PRIORITY, actions |-> actions, buffer_id |-> m.buffer_id,
     timeout |-> TRUE, check_overlap |-> FALSE, out_port |-> None, for |-> {<<m.pkt, None>>}]
output(q) == <<[type |-> "output", port |-> q]>>

(* During FLOOD_DELAY the packet is dropped instead. *)
flood(m) == packet_out(m, IF warm THEN output(OFPP_FLOOD) ELSE <<>>)

LLDP_TYPE == 35020

(* The component is started without its option `transparent'. *)
Answer(m, learned) ==
    CASE m.pkt.type = LLDP_TYPE \/ m.pkt.dst \in Filtered -> packet_out(m, <<>>)
      [] m.pkt.dst \in Multicast \ Filtered -> flood(m)
      [] m.pkt.dst \notin DOMAIN learned -> flood(m)
      [] learned[m.pkt.dst] = m.in_port -> flow_mod(m, <<>>)
      [] OTHER -> flow_mod(m, output(learned[m.pkt.dst]))

(* A flow_mod on the wire *)
Wire(m) == IF m.type = "flow_mod" THEN [m EXCEPT !.match = unpack(pack(@))] ELSE m

SendTwice(c) ==
    LET m == Head(toController[c])
        learned == [h \in DOMAIN macToPort[c] \union {m.pkt.src} |->
                       IF h = m.pkt.src THEN m.in_port ELSE macToPort[c][h]]
    IN  /\ c \notin L3Conns /\ toController[c] # <<>>
        /\ macToPort' = [macToPort EXCEPT ![c] = learned]
        /\ toSwitch' = [toSwitch EXCEPT ![c] = @ \o <<Wire(Answer(m, learned)), packet_out(m, <<>>)>>]
        /\ toController' = [toController EXCEPT ![c] = Tail(@)]
        /\ UNCHANGED <<table, packet_buffer, ports, connections, role, in_action, next_other,
                       arpTable, warm, used, outs, raised>>
(* LearningSwitch._handle_PacketIn() *)
_handle_PacketIn(c) ==
    /\ c \notin L3Conns /\ toController[c] # <<>>
    /\ LET m == Head(toController[c])
           learned == [h \in DOMAIN macToPort[c] \union {m.pkt.src} |->
                          IF h = m.pkt.src THEN m.in_port ELSE macToPort[c][h]]
       IN  /\ macToPort' = [macToPort EXCEPT ![c] = learned]
           /\ toSwitch' = [toSwitch EXCEPT ![c] = Append(@, Wire(Answer(m, learned)))]
    /\ toController' = [toController EXCEPT ![c] = Tail(@)]
    /\ UNCHANGED <<table, packet_buffer, ports, connections, role, in_action, next_other,
                   arpTable, warm, used, outs, raised>>

-----------------------------------------------------------------------------
(* l3_learning: the table maps network addresses to the port and hardware  *)
(* address they were last heard from.                                      *)
REQUEST == 1
REPLY == 2

(* For an ARP packet, l4 tells whether it is one for IPv4 over Ethernet;   *)
(* its opcode is in proto.                                                 *)
Teaches(p) == p.next = "ipv4" \/ (p.next = "arp" /\ p.l4 /\ p.nw_src # 0)

Entry(arps, m) ==
    IF m.pkt.type = LLDP_TYPE \/ ~ Teaches(m.pkt) THEN arps
    ELSE [ip \in DOMAIN arps \union {m.pkt.nw_src} |->
             IF ip = m.pkt.nw_src THEN [port |-> m.in_port, mac |-> m.pkt.src] ELSE arps[ip]]

(* The reply to an ARP request, in the name of the host that is asked for *)
ArpReply(m, entry) ==
    [type |-> "packet_out", buffer_id |-> 0, in_port |-> m.in_port, actions |-> output(OFPP_IN_PORT),
     data |-> [m.pkt EXCEPT !.id = -@, !.src = entry.mac, !.dst = m.pkt.src, !.proto = REPLY,
                            !.nw_src = m.pkt.nw_dst, !.nw_dst = m.pkt.nw_src]]

(* The flow is for packets of this port only.  Packets that are not        *)
(* forwarded and requests that are answered stay in their buffers.         *)
L3Answer(m, arps, expired) ==
    LET p == m.pkt
        known == p.nw_dst \in DOMAIN arps
    IN  CASE p.type = LLDP_TYPE -> <<>>
          [] p.next = "ipv4" ->
               IF known /\ arps[p.nw_dst].port # m.in_port
               THEN <<[flow_mod(m, output(arps[p.nw_dst].port)) EXCEPT
                          !.match = from_packet(p, m.in_port), !.for = {<<p, m.in_port>>}]>>
               ELSE <<>>
          [] p.next = "arp" ->
               IF Teaches(p) /\ p.proto = REQUEST /\ known /\ ~ expired
               THEN <<ArpReply(m, arps[p.nw_dst])>>
               ELSE <<packet_out(m, output(OFPP_FLOOD))>>
          [] OTHER -> <<>>

(* l3_switch._handle_PacketIn().  The entry that would answer a request    *)
(* may have expired.                                                       *)
_handle_PacketIn_l3(c, expired) ==
    /\ c \in L3Conns /\ toController[c] # <<>>
    /\ LET m == Head(toController[c])
           arps == Entry(arpTable[c], m)
           answer == L3Answer(m, arps, expired)
       IN  /\ arpTable' = [arpTable EXCEPT ![c] = arps]
           /\ toSwitch' = [toSwitch EXCEPT ![c] = @ \o [i \in DOMAIN answer |-> Wire(answer[i])]]
    /\ toController' = [toController EXCEPT ![c] = Tail(@)]
    /\ UNCHANGED <<table, packet_buffer, ports, connections, role, in_action, next_other,
                   macToPort, warm, used, outs, raised>>

(* Another component of the controller sends a flow_mod or asks for a role. *)
SendMod(c, fm) ==
    /\ c \in ToSet(connections) /\ Bump("events", MaxEvents)
    /\ toSwitch' = [toSwitch EXCEPT ![c] = Append(@, Wire(fm))]
    /\ UNCHANGED <<table, packet_buffer, ports, connections, role, in_action, next_other,
                   toController, macToPort, arpTable, warm, outs, raised>>
SendRole(c, r) ==
    /\ c \in ToSet(connections) /\ Bump("events", MaxEvents)
    /\ toSwitch' = [toSwitch EXCEPT ![c] = Append(@, [type |-> "role_request", role |-> r])]
    /\ UNCHANGED <<table, packet_buffer, ports, connections, role, in_action, next_other,
                   toController, macToPort, arpTable, warm, outs, raised>>

Warm ==
    /\ ~ warm /\ warm' = TRUE
    /\ UNCHANGED <<table, packet_buffer, ports, connections, role, in_action, next_other,
                   toSwitch, toController, macToPort, arpTable, used, outs, raised>>

-----------------------------------------------------------------------------
Next ==
    \/ \E a \in Arrivals : process_packet(a.pkt, a.in_port)
    \/ \E c \in Conns : add_connection(c) \/ Receive(c) \/ _handle_PacketIn(c)
    \/ \E c \in Conns, expired \in BOOLEAN : _handle_PacketIn_l3(c, expired)
    \/ \E q \in Ports : take_port_down(q) \/ bring_port_up(q)
    \/ \E gone \in SUBSET DOMAIN table : Expire(gone)
    \/ \E c \in Conns, fm \in AdminMods : SendMod(c, fm)
    \/ \E c \in Conns, r \in {"master", "other", "slave"} : SendRole(c, r)
    \/ Warm

Spec == Init /\ [][Next]_vars

-----------------------------------------------------------------------------
Named(c) == SelectSeq(toController[c], LAMBDA m : m.type = "packet_in")
              \o SelectSeq(toSwitch[c], LAMBDA m : m.type # "role_request" /\ m.buffer_id > 0)

(* Buffer ids in messages name buffers that exist, so that no handler      *)
(* reads behind the last.                                                  *)
TypeOK ==
    /\ ports \subseteq Ports /\ ToSet(connections) \subseteq Conns
    /\ in_action \in Conns \union {NoConn}
    /\ \A i \in DOMAIN table : table[i].match.wildcards \in Wildcards
    /\ \A c \in Conns : \A i \in DOMAIN Named(c) :
          Named(c)[i].buffer_id \in DOMAIN packet_buffer

(* The table is sorted, and no two entries have the same match and         *)
(* priority, whatever flow_mods arrive in whatever order.                  *)
TableOrdered ==
    \A i, j \in DOMAIN table : i < j =>
        /\ EffectivePriority(table[i]) >= EffectivePriority(table[j])
        /\ ~ (Same(table[i].match, table[j].match) /\ table[i].priority = table[j].priority)

(* entry_for_packet() finds an entry that covers the packet exactly when   *)
(* there is one, and then one of the highest priority among them.          *)
BestEntryFound ==
    (\A i \in DOMAIN table : Canonical(table[i].match)) =>
    \A a \in Arrivals :
        LET covering == {i \in DOMAIN table : Covers(table[i].match, a.pkt, a.in_port)}
            i == entry_for_packet(table, a.pkt, a.in_port)
        IN  IF covering = {} THEN i = 0
            ELSE /\ i \in covering
                 /\ \A j \in covering : EffectivePriority(table[i]) >= EffectivePriority(table[j])

(* A match that encompasses that of an entry covers every packet of that   *)
(* entry: a non-strict modification changes no other flow.                 *)
EncompassesMeansCovers ==
    \A fm \in AdminMods, i \in DOMAIN table :
        matches_with_wildcards(fm.match, table[i].match, TRUE) =>
            \A a \in Arrivals : Covers(table[i].match, a.pkt, a.in_port)
                                   => Covers(fm.match, a.pkt, a.in_port)

(* Addresses and networks mean what is written, whatever the form; and the *)
(* network of an entry of the table, written as "address/length", contains *)
(* the addresses of the packets that the entry covers in that field and no *)
(* others.  (An address of the table is the first bits of a written one.)  *)
WrittenAddr(a) == Digits(a * 2 ^ (Width - AddrBits), Byte, 4)
NetworksAsWritten ==
    /\ FormsAgree
    /\ \A i \in DOMAIN table, f \in NwFields :
          LET m == table[i].match
              nw == get_nw(m, f)
              text == [addr |-> WrittenAddr(nw.addr), suffix |-> "length", arg |-> nw.len]
          IN  (nw.addr # None /\ Canonical(m)) =>
                 \A a \in 0 .. 2 ^ AddrBits - 1 :
                     inNetworkText(WrittenAddr(a), text)
                         = Is(NetworkIncluded(m, set_nw(NewMatch, f, a, AddrBits), f))

(* The flow that l2_learning or l3_learning installs for a packet, after   *)
(* its way over the wire, covers that packet.                              *)
FlowCoversItsPacket ==
    \A i \in DOMAIN table : \A f \in table[i].for : Covers(table[i].match, f[1], f[2])

(* The flow table is sound after any sequence of flow_mods, expiries and   *)
(* packets: process_flow_mod keeps it sorted and without duplicates,       *)
(* lookups find the best entry, and matches mean the same before and after *)
(* their way over the wire.                                                *)
FlowTableSound ==
    TableOrdered /\ BestEntryFound /\ EncompassesMeansCovers /\ FlowCoversItsPacket

(* A buffer is named by at most one message on its way, and a free one by  *)
(* none: packets are released once, and the buffer is not reused before.   *)
BufferNamedOnce ==
    \A b \in DOMAIN packet_buffer :
        LET naming(c) == {i \in DOMAIN Named(c) : Named(c)[i].buffer_id = b}
            msgs == UNION {{c} \X naming(c) : c \in Conns}
        IN  Cardinality(msgs) <= IF packet_buffer[b] = Free THEN 0 ELSE 1

(* A packet leaves a port at most once, whether a flow or a controller     *)
(* sends it.                                                               *)
LeavesOnce ==
    \A i, j \in DOMAIN outs : i # j => outs[i].port # outs[j].port \/ outs[i].pkt.id # outs[j].pkt.id

(* The switch and its controllers hand a buffered packet on exactly as     *)
(* often as they may: messages name buffers that exist, each buffer once,  *)
(* and no packet leaves a port twice.                                      *)
PacketsReleasedOnce == TypeOK /\ BufferNamedOnce /\ LeavesOnce

(* At most one controller is master, in whatever order roles are asked for *)
(* and controllers connect, and a slave is not sent packet_ins, as long as *)
(* no handler has raised.                                                  *)
AtMostOneMaster == Cardinality({c \in Conns : role[c] = "master"}) <= 1
IsSent(c) ==
    /\ toController'[c] # toController[c]
    /\ toController[c] # <<>> => toController'[c] # Tail(toController[c])
SlavesSpared == \A c \in Conns : role[c] = "slave" /\ IsSent(c) => raised
RolesKept == [][AtMostOneMaster' /\ SlavesSpared]_vars
=============================================================================
