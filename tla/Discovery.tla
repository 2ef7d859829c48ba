------------------------------- MODULE Discovery -------------------------------
(***************************************************************************)
(* openflow.discovery: an LLDP packet is kept for every port of every      *)
(* connected switch, a timer sends them in rotation, and a packet coming   *)
(* in at another port is a link.  Links that are not seen again expire.    *)
(*                                                                         *)
(* A link is <<dpid1, port1, dpid2, port2>>.  c.adjacency maps each known  *)
(* link to its age: how often the expiry timer has fired since it was last *)
(* seen (the code keeps a time stamp).  c.packets is the list of (dpid,    *)
(* port) whose LLDP packet is sent next.  Messages that only release a     *)
(* packet buffer of a switch change nothing here.                          *)
(***************************************************************************)
EXTENDS Revent

CONSTANTS LinkTimeout,   \* LINK_TIMEOUT in periods of the expiry timer
          OfppMax        \* OFPP_MAX, the largest number of a physical port

ASSUME TimeoutPositive == LinkTimeout \in Nat \ {0} /\ OfppMax \in Nat

(***************************************************************************)
(* The discovery packet.  Texts are lists of digits, with or without the   *)
(* tag dpid:, or bytes.                                                    *)
(***************************************************************************)
Digits(base) ==
    LET digits[n \in Nat] == IF n < base THEN <<n>> ELSE Append(digits[n \div base], n % base)
    IN  digits
Number(base, ds) ==
    LET value[i \in 0 .. Len(ds)] == IF i = 0 THEN 0 ELSE value[i - 1] * base + ds[i]
    IN  value[Len(ds)]

Tagged(ds) == [kind |-> "dpid:", digits |-> ds]
Plain(ds) == [kind |-> "text", digits |-> ds]
Bytes(bs) == [kind |-> "bytes", digits |-> bs]

(* What the switch sends out and another one hands to the controller: the  *)
(* Ethernet header's type and destination and, where it parses as LLDP,    *)
(* its TLVs.                                                               *)
create_discovery_packet(dpid, portNum) ==
    [type |-> "lldp", dst |-> "ndp", parsed |-> TRUE, tlvs |->
      <<[tlv |-> "chassis_id", subtype |-> "local", id |-> Tagged(Digits(16)[dpid])],
        [tlv |-> "port_id", subtype |-> "port", id |-> Plain(Digits(10)[portNum])],
        [tlv |-> "ttl", subtype |-> "", id |-> Plain(<<1, 2, 0>>)],
        [tlv |-> "system_description", subtype |-> "", id |-> Tagged(Digits(16)[dpid])],
        [tlv |-> "end", subtype |-> "", id |-> Plain(<<>>)]>>]

NoNumber == 0

(* int(text, 16), whose ValueError for no digits is swallowed.             *)
HexNumber(text) == IF Len(text.digits) = 0 THEN NoNumber ELSE Number(16, text.digits)

(* The first system description decides, if it is a dpid: line or 8 bytes. *)
lookInSysDesc(tlvs) ==
    LET descs == SelectSeq(SubSeq(tlvs, 4, Len(tlvs)), LAMBDA t : t.tlv = "system_description")
    IN  IF descs = <<>> THEN NoNumber
        ELSE IF descs[1].id.kind = "dpid:" THEN HexNumber(descs[1].id)
        ELSE IF descs[1].id.kind = "bytes" /\ Len(descs[1].id.digits) = 8 THEN Number(256, descs[1].id.digits)
        ELSE NoNumber

(* Otherwise the chassis ID: a MAC address is padded to a DPID.  The NOX   *)
(* form, dpid: in a local ID, is never read: the ID is a str, which has no *)
(* tostring(), and the AttributeError is swallowed.                        *)
OriginatorDPID(tlvs) ==
    LET told == lookInSysDesc(tlvs)
    IN  IF told # NoNumber THEN told
        ELSE IF tlvs[1].subtype = "mac" /\ tlvs[1].id.kind = "bytes" /\ Len(tlvs[1].id.digits) = 6
             THEN Number(256, tlvs[1].id.digits)
        ELSE NoNumber

OriginatorPort(tlv) ==
    IF tlv.id.kind = "text" /\ Len(tlv.id.digits) > 0 THEN Number(10, tlv.id.digits)
    ELSE IF tlv.id.kind = "bytes" /\ Len(tlv.id.digits) = 2 THEN Number(256, tlv.id.digits)
    ELSE NoNumber

(***************************************************************************)
(* LLDPSender                                                              *)
(***************************************************************************)
WithoutSwitch(packets, dpid) == SelectSeq(packets, LAMBDA p : p[1] # dpid)

addSwitch(st, dpid, ports) ==
    [st EXCEPT !.c.packets = WithoutSwitch(@, dpid) \o
        SelectSeq([i \in DOMAIN ports |-> <<dpid, ports[i]>>], LAMBDA p : p[2] <= OfppMax)]
delSwitch(st, dpid) == [st EXCEPT !.c.packets = WithoutSwitch(@, dpid)]
delPort(st, dpid, port) == [st EXCEPT !.c.packets = SelectSeq(@, LAMBDA p : p # <<dpid, port>>)]
addPort(st, dpid, port) ==
    IF port > OfppMax THEN st
    ELSE [delPort(st, dpid, port) EXCEPT !.c.packets = Append(@, <<dpid, port>>)]

(* The timer runs while there are packets; it sends the first one and puts *)
(* it at the end.                                                          *)
NeverRotates(st) == st
_timerHandler(st) == [st EXCEPT !.c.packets = Append(Tail(@), Head(@))]

(***************************************************************************)
(* Discovery: being wired, switches and ports; DiscoveryEvents has what    *)
(* raises LinkEvents.                                                      *)
(***************************************************************************)
Discovery__init__(st) ==
    IF hasComponent(st, "openflow")
    THEN listenTo(st, "discovery", OpenFlow, Unspecified)
    ELSE listenTo(st, "discovery", Core, Unspecified)

_handle_ComponentRegistered(st, ev) ==
    IF ev.name = "openflow"
    THEN Returns(listenTo(st, "discovery", OpenFlow, Unspecified), EventRemove)
    ELSE st

flip(l) == <<l[3], l[4], l[1], l[2]>>

DiscoveryConnectionUp(st, dpid, ports) ==
    IF dpid \in st.c.dps THEN Raises(st)
    ELSE addSwitch([st EXCEPT !.c.dps = @ \union {dpid}], dpid, ports)

(* The order in which a dictionary is walked: c.descending picks one of    *)
(* two orders of its keys for a behaviour.                                 *)
Precedes(l, m) ==
    \E i \in 1 .. 4 : l[i] < m[i] /\ \A j \in 1 .. i - 1 : l[j] = m[j]
InDictOrder(st, links) ==
    LET n == Cardinality(links)
        at(l) == 1 + Cardinality({m \in links : IF st.c.descending THEN Precedes(l, m) ELSE Precedes(m, l)})
    IN  [i \in 1 .. n |-> CHOOSE l \in links : at(l) = i]

DiscoveryPortStatus(st, ev) ==
    IF ev.port > OfppMax THEN st
    ELSE CASE ev.reason = "add" -> addPort(st, ev.dpid, ev.port)
           [] ev.reason = "delete" -> delPort(st, ev.dpid, ev.port)
           [] OTHER -> st

isSwitchOnlyPort(st, dpid, port) ==
    \E l \in DOMAIN st.c.adjacency : <<dpid, port>> \in {<<l[1], l[2]>>, <<l[3], l[4]>>}
================================================================================
