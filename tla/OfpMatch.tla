------------------------------ MODULE OfpMatch ------------------------------
(***************************************************************************)
(* ofp_match of libopenflow_01.py: a match holds a value for every field,  *)
(* a wildcard bit for most of them and, for the two network addresses, the *)
(* number of low bits that are ignored.  Addresses have AddrBits bits      *)
(* instead of 32.  None is -1, all other values are numbers.               *)
(***************************************************************************)
EXTENDS Integers, FiniteSets

CONSTANT AddrBits
ASSUME AddrBitsAssumption == AddrBits \in Nat \ {0}

None == -1
IP_TYPE == 2048
ARP_TYPE == 2054
MPLS_TYPE == 34887
OFP_VLAN_NONE == 65535
TpProtocols == {1, 6, 17}

TpFields == {"tp_src", "tp_dst"}
Flags == {"in_port", "dl_vlan", "dl_src", "dl_dst", "dl_type", "nw_proto", "dl_vlan_pcp",
          "nw_tos"} \union TpFields
NwFields == {"nw_src", "nw_dst"}
MaxBits == 2 * AddrBits - 1     \* what the wildcard word has room for

Wildcards == [flags : SUBSET Flags, bits : [NwFields -> 0 .. MaxBits]]

-----------------------------------------------------------------------------
(* More than AddrBits ignored bits mean AddrBits. *)
_normalize_wildcards(w) ==
    [w EXCEPT !.bits = [f \in NwFields |-> IF @[f] > AddrBits THEN AddrBits ELSE @[f]]]

AllWild == [flags |-> Flags, bits |-> [f \in NwFields |-> MaxBits]]

(* ofp_match() matches everything. *)
NewMatch == [wildcards |-> _normalize_wildcards(AllWild),
             val |-> [f \in Flags \union NwFields |-> 0]]

(* get_nw_src(), get_nw_dst(): the address and the length of its prefix *)
get_nw(m, f) ==
    IF m.wildcards.bits[f] >= AddrBits THEN [addr |-> None, len |-> 0]
    ELSE [addr |-> m.val[f], len |-> AddrBits - m.wildcards.bits[f]]

(* __getattr__ *)
Get(m, f) ==
    IF f \in NwFields THEN get_nw(m, f).addr
    ELSE IF f \in m.wildcards.flags THEN None ELSE m.val[f]

(* set_nw_src(), set_nw_dst() with a prefix of length b.  With None,       *)
(* set_nw_dst() resets the address of the source.                          *)
set_nw(m, f, addr, b) ==
    IF addr = None
    THEN [m EXCEPT !.val["nw_src"] = 0, !.wildcards.bits[f] = AddrBits]
    ELSE [m EXCEPT !.val[f] = addr, !.wildcards.bits[f] = AddrBits - b]

(* __setattr__ *)
Set(m, f, v) ==
    IF f \in NwFields THEN set_nw(m, f, v, AddrBits)
    ELSE IF v = None THEN [m EXCEPT !.val[f] = 0, !.wildcards.flags = @ \union {f}]
    ELSE [m EXCEPT !.val[f] = v, !.wildcards.flags = @ \ {f}]

(* Assigns the fields of the function v, in any order. *)
SetAll(m, v) ==
    [wildcards |-> [flags |-> m.wildcards.flags \ DOMAIN v,
                    bits |-> [f \in NwFields |->
                                 IF f \in DOMAIN v THEN 0 ELSE m.wildcards.bits[f]]],
     val |-> [f \in DOMAIN m.val |-> IF f \in DOMAIN v THEN v[f] ELSE m.val[f]]]

-----------------------------------------------------------------------------
(* A packet has addresses, a type, an optional VLAN tag and what follows:  *)
(* next is "ipv4", "arp" or "other"; l4 tells whether ports (or the type   *)
(* and code of ICMP) were parsed.                                          *)
from_packet(p, in_port) ==
    LET link == [dl_src |-> p.src, dl_dst |-> p.dst, dl_type |-> p.type,
                 dl_vlan |-> IF p.vlan = None THEN OFP_VLAN_NONE ELSE p.vlan,
                 dl_vlan_pcp |-> IF p.vlan = None THEN 0 ELSE p.pcp]
        net  == [nw_src |-> p.nw_src, nw_dst |-> p.nw_dst, nw_proto |-> p.proto]
        m1   == SetAll(IF in_port = None THEN NewMatch ELSE Set(NewMatch, "in_port", in_port),
                       link)
    IN  CASE p.next = "ipv4" ->
               LET m2 == Set(SetAll(m1, net), "nw_tos", p.tos)
               IN  IF p.l4 THEN SetAll(m2, [tp_src |-> p.tp_src, tp_dst |-> p.tp_dst]) ELSE m2
          [] p.next = "arp" /\ p.proto <= 255 -> SetAll(m1, net)
          [] OTHER -> m1

-----------------------------------------------------------------------------
(* pack(flow_mod=True) and unpack(flow_mod=True).  Fields that the type of *)
(* the match makes meaningless are sent as 0 and without their wildcards;  *)
(* the receiver sets those wildcards again.                                *)
Meaningless(type, proto) ==
    CASE type = IP_TYPE  -> IF proto \in TpProtocols THEN {} ELSE TpFields
      [] type = ARP_TYPE -> {"nw_tos"} \union TpFields
      [] OTHER           -> {"nw_tos", "nw_proto"} \union TpFields \union NwFields

_wire_wildcards(m, w) ==
    LET gone == Meaningless(Get(m, "dl_type"), Get(m, "nw_proto"))
    IN  [flags |-> w.flags \ gone,
         bits |-> [f \in NwFields |-> IF f \in gone THEN 0 ELSE w.bits[f]]]

_unwire_wildcards(val, w) ==
    LET gone == Meaningless(val["dl_type"], val["nw_proto"])
    IN  [flags |-> w.flags \union (gone \ NwFields),
         bits |-> [f \in NwFields |-> IF f \in gone THEN MaxBits ELSE w.bits[f]]]

pack(m) ==
    LET gone == Meaningless(Get(m, "dl_type"), Get(m, "nw_proto"))
    IN  [wildcards |-> _wire_wildcards(m, m.wildcards),
         val |-> [f \in DOMAIN m.val |->
                    IF f \in gone \/ Get(m, f) = None THEN 0 ELSE Get(m, f)]]

unpack(wire) ==
    [wildcards |-> _normalize_wildcards(_unwire_wildcards(wire.val, wire.wildcards)),
     val |-> wire.val]

-----------------------------------------------------------------------------
is_wildcarded(m) == m.wildcards.flags # {} \/ \E f \in NwFields : m.wildcards.bits[f] # 0

(* __eq__ *)
Same(a, b) ==
    a.wildcards = b.wildcards /\ \A f \in Flags \union NwFields : Get(a, f) = Get(b, f)

(* IPAddr.inNetwork(): only the address is masked, not the network. *)
inNetwork(addr, network, bits) == addr - (addr % 2 ^ bits) = network

NetworkIncluded(a, b, f) ==
    LET mine == get_nw(a, f)
        other == get_nw(b, f)
    IN  mine.addr = None \/
        (mine.len <= other.len /\ inNetwork(other.addr, mine.addr, AddrBits - mine.len))

(* Whether a encompasses b. *)
matches_with_wildcards(a, b, consider_other_wildcards) ==
    \/ Same(a, b)
    \/ /\ consider_other_wildcards => b.wildcards.flags \subseteq a.wildcards.flags
       /\ \A f \in Flags : Get(a, f) \in {None, Get(b, f)}
       /\ \A f \in NwFields : NetworkIncluded(a, b, f)

-----------------------------------------------------------------------------
(* What a match means: the packets it covers.  A field that a packet does  *)
(* not have is covered by a wildcard only.                                 *)
Covers(m, p, in_port) ==
    LET q == from_packet(p, in_port)
    IN  /\ \A f \in Flags : Get(m, f) \in {None, Get(q, f)}
        /\ \A f \in NwFields :
              Get(m, f) = None \/
              (Get(q, f) # None /\ m.val[f] \div 2 ^ m.wildcards.bits[f]
                                     = q.val[f] \div 2 ^ m.wildcards.bits[f])

(* The ignored bits of the addresses are 0. *)
Canonical(m) ==
    \A f \in NwFields : Get(m, f) = None \/ m.val[f] % 2 ^ m.wildcards.bits[f] = 0
=============================================================================
