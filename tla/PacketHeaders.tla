---------------------------- MODULE PacketHeaders ---------------------------
(***************************************************************************)
(* The packet library of POX: what the parse() methods read from the bytes *)
(* of a frame, which class they hand the rest to, and what the hdr()       *)
(* methods write back.  A frame is a sequence of numbers 0..255; a 32 bit  *)
(* field that no code computes with stays a sequence of four.              *)
(*                                                                         *)
(* parse() of one class is an operator of its raw bytes that yields a      *)
(* header: its attributes val, whether it set parsed, and the class and    *)
(* the bytes of next ("bytes" when next is a string or None, which pack()  *)
(* treats alike).  An exception that leaves parse() is a raised header.    *)
(***************************************************************************)
EXTENDS ByteLayout, TLC

U8(b, i) == b[i + 1]
U16(b, i) == 256 * b[i + 1] + b[i + 2]
P16(n) == <<n \div 256, n % 256>>
Zeros(n) == [i \in 1 .. n |-> 0]
Bit(n, k) == ((n \div k) % 2) = 1

Header(val, next, rest) ==
    [raised |-> FALSE, parsed |-> TRUE, val |-> val, next |-> next, rest |-> rest]
Unparsed(val) ==
    [raised |-> FALSE, parsed |-> FALSE, val |-> val, next |-> "bytes", rest |-> <<>>]
Raised == [raised |-> TRUE]

(* The sum of the 16 bit words of data on a little-endian host; skip_word  *)
(* is -1 when no word is left out.                                         *)
WordSum(data, skip_word) ==
    LET n == Len(data) \div 2
        sum[i \in 0 .. n] ==
            IF i = 0 THEN 0
            ELSE sum[i - 1] + (IF i - 1 = skip_word THEN 0
                               ELSE data[2 * i - 1] + 256 * data[2 * i])
    IN  sum[n] + (IF Len(data) % 2 = 1 THEN data[Len(data)] ELSE 0)

ntohs(n) == (n % 256) * 256 + n \div 256

ChecksumWithoutFold(data, skip_word) == ntohs(65535 - (WordSum(data, skip_word) % 65536))
(* The Internet checksum: the carries are added back twice. *)
checksum(data, skip_word) ==
    LET start == WordSum(data, skip_word)
        once == start \div 65536 + (start % 65536)
    IN  ntohs(65535 - ((once + once \div 65536) % 65536))

-----------------------------------------------------------------------------
(* Link layer *)

ETHER_ANY == Zeros(6)
IP_ANY == Zeros(4)

(* ethernet.type_parsers *)
TypeParser(type) ==
    CASE type = 33024 -> "vlan"
      [] type \in {2054, 32821} -> "arp"
      [] type = 2048 -> "ipv4"
      [] type = 35020 -> "lldp"
      [] type = 34958 -> "eapol"
      [] type \in {34887, 34888} -> "mpls"
      [] OTHER -> "bytes"

ethernet_parse(raw) ==
    IF Len(raw) < 14 THEN Unparsed([dst |-> ETHER_ANY, src |-> ETHER_ANY, type |-> 0])
    ELSE Header([dst |-> Slice(raw, 0, 6), src |-> Slice(raw, 6, 12), type |-> U16(raw, 12)],
                TypeParser(U16(raw, 12)), From(raw, 14))

ethernet_hdr(v) == v.dst \o v.src \o P16(v.type)

(* A tag that does not say what it carries loses its payload; the CFI bit  *)
(* is kept in place (c is 0 or 0x1000).                                    *)
vlan_parse(raw) ==
    IF Len(raw) < 4 THEN Unparsed([pcp |-> 0, id |-> 0, eth_type |-> 0])
    ELSE LET pcpid == U16(raw, 0)
             type == U16(raw, 2)
             val == [pcp |-> pcpid \div 8192, c |-> ((pcpid \div 4096) % 2) * 4096,
                     id |-> pcpid % 4096, eth_type |-> type]
         IN  CASE type = 33024 -> Raised
               [] TypeParser(type) # "bytes" -> Header(val, TypeParser(type), From(raw, 4))
               [] OTHER -> Header(val, "bytes", <<>>)

vlan_hdr(v) == P16(v.pcp * 8192 + v.id) \o P16(v.eth_type)

mpls_parse(raw) ==
    IF Len(raw) < 4 THEN Unparsed([label |-> 0, tc |-> 0, s |-> 0, ttl |-> 0])
    ELSE LET low == U8(raw, 2)
         IN  Header([label |-> U16(raw, 0) * 16 + low \div 16, tc |-> (low % 16) \div 2,
                     s |-> low % 2, ttl |-> U8(raw, 3)], "bytes", From(raw, 4))

mpls_hdr(v) ==
    P16(v.label \div 16) \o <<(v.label % 16) * 16 + v.tc * 2 + v.s, v.ttl>>

arp_parse(raw) ==
    IF Len(raw) < 28
    THEN Unparsed([hwtype |-> 1, prototype |-> 2048, hwlen |-> 6, protolen |-> 4, opcode |-> 0,
                   hwsrc |-> ETHER_ANY, hwdst |-> ETHER_ANY,
                   protosrc |-> IP_ANY, protodst |-> IP_ANY])
    ELSE LET hw == U8(raw, 4) = 6
             proto == U8(raw, 5) = 4
         IN  Header([hwtype |-> U16(raw, 0), prototype |-> U16(raw, 2), hwlen |-> U8(raw, 4),
                     protolen |-> U8(raw, 5), opcode |-> U16(raw, 6),
                     hwsrc |-> IF hw THEN Slice(raw, 8, 14) ELSE ETHER_ANY,
                     hwdst |-> IF hw THEN Slice(raw, 18, 24) ELSE ETHER_ANY,
                     protosrc |-> IF proto THEN Slice(raw, 14, 18) ELSE IP_ANY,
                     protodst |-> IF proto THEN Slice(raw, 24, 28) ELSE IP_ANY],
                    "bytes", From(raw, 28))

arp_hdr(v) ==
    P16(v.hwtype) \o P16(v.prototype) \o <<v.hwlen, v.protolen>> \o P16(v.opcode)
    \o v.hwsrc \o v.protosrc \o v.hwdst \o v.protodst

(* EAP over LAN: only type 0 has a body that is kept. *)
eapol_parse(raw) ==
    IF Len(raw) < 4 THEN Unparsed([version |-> 1, type |-> 0, bodylen |-> 0])
    ELSE LET val == [version |-> U8(raw, 0), type |-> U8(raw, 1), bodylen |-> U16(raw, 2)]
         IN  IF val.type = 0 THEN Header(val, "eap", From(raw, 4)) ELSE Header(val, "bytes", <<>>)

eapol_hdr(v) == <<v.version, v.type>> \o P16(v.bodylen)

(* Requests and responses need a fifth byte, the method; nothing writes it *)
(* back.                                                                   *)
eap_parse(raw) ==
    IF Len(raw) < 4 THEN Unparsed([code |-> 1, id |-> 0, length |-> 0])
    ELSE LET val == [code |-> U8(raw, 0), id |-> U8(raw, 1), length |-> U16(raw, 2)]
         IN  CASE val.code \in {1, 2} /\ Len(raw) = 4 -> Raised
               [] val.code \in {1, 2} /\ Len(raw) > 4 ->
                    Header(val @@ [type |-> U8(raw, 4)], "bytes", <<>>)
               [] OTHER -> Header(val, "bytes", <<>>)

eap_hdr(v) == <<v.code, v.id>> \o P16(v.length)

-----------------------------------------------------------------------------
(* IPv4.  addrs says whether the addresses were made IPAddr objects; they  *)
(* stay numbers when parse() gives up behind the fixed part.               *)

ipv4_default(fresh) ==
    [v |-> 4, hl |-> 5, tos |-> 0, id |-> fresh, flags |-> 0, frag |-> 0, ttl |-> 64,
     protocol |-> 0, srcip |-> IP_ANY, dstip |-> IP_ANY, addrs |-> TRUE]

ipv4_parse(raw, fresh) ==
    IF Len(raw) < 20 THEN Unparsed(ipv4_default(fresh))
    ELSE LET hl == U8(raw, 0) % 16
             iplen == U16(raw, 2)
             val == [v |-> U8(raw, 0) \div 16, hl |-> hl, tos |-> U8(raw, 1), id |-> U16(raw, 4),
                     flags |-> U16(raw, 6) \div 8192, frag |-> U16(raw, 6) % 8192,
                     ttl |-> U8(raw, 8), protocol |-> U8(raw, 9),
                     srcip |-> Slice(raw, 12, 16), dstip |-> Slice(raw, 16, 20), addrs |-> TRUE]
             body == Slice(raw, hl * 4, iplen)
         IN  CASE val.v # 4 \/ hl < 5 \/ iplen < 20 \/ hl * 4 >= iplen \/ hl * 4 > Len(raw) ->
                    Unparsed([val EXCEPT !.addrs = FALSE])
               [] OTHER ->
                    CASE val.protocol = 17 -> Header(val, "udp", body)
                      [] val.protocol = 6 -> Header(val, "tcp", body)
                      [] val.protocol = 1 -> Header(val, "icmp", body)
                      [] OTHER -> Header(val, "bytes", IF Len(raw) < iplen THEN <<>> ELSE body)

(* The fixed 20 bytes: options are not written, hl still counts them. *)
ipv4_hdr(v, payload) ==
    LET Fixed(csum) ==
            <<v.v * 16 + v.hl, v.tos>> \o P16(v.hl * 4 + Len(payload)) \o P16(v.id)
            \o P16(v.flags * 8192 + v.frag) \o <<v.ttl, v.protocol>> \o P16(csum)
            \o v.srcip \o v.dstip
    IN  Fixed(checksum(Fixed(0), -1))

(* A message too short for a header has no attribute parsed, which ipv4    *)
(* reads next.                                                             *)
icmp_parse(raw) ==
    IF Len(raw) < 4 THEN Raised
    ELSE Header([type |-> U8(raw, 0), code |-> U8(raw, 1)],
                CASE U8(raw, 0) \in {0, 8} -> "echo" [] U8(raw, 0) = 3 -> "unreach"
                  [] OTHER -> "bytes", From(raw, 4))

icmp_hdr(v, payload) ==
    LET csum == checksum(<<v.type, v.code, 0, 0>> \o payload, -1)
    IN  <<v.type, v.code>> \o P16(csum)

(* An echo that cannot be read has a random identifier. *)
echo_parse(raw, fresh) ==
    IF Len(raw) < 4 THEN Unparsed([id |-> fresh, seq |-> 0])
    ELSE Header([id |-> U16(raw, 0), seq |-> U16(raw, 2)], "bytes", From(raw, 4))

echo_hdr(v) == P16(v.id) \o P16(v.seq)

unreach_parse(raw) ==
    IF Len(raw) < 4 THEN Unparsed([unused |-> 0, next_mtu |-> 0])
    ELSE Header([unused |-> U16(raw, 0), next_mtu |-> U16(raw, 2)],
                IF Len(raw) >= 28 THEN "ipv4" ELSE "bytes", From(raw, 4))

unreach_hdr(v) == P16(v.unused) \o P16(v.next_mtu)

(* The ports decide whether DHCP or DNS is read from a datagram. *)
udp_parse(raw) ==
    IF Len(raw) < 8 THEN Unparsed([srcport |-> 0, dstport |-> 0])
    ELSE LET src == U16(raw, 0)
             dst == U16(raw, 2)
             len == U16(raw, 4)
             val == [srcport |-> src, dstport |-> dst]
         IN  CASE len < 8 -> Header(val, "bytes", <<>>)
               [] len >= 8 /\ dst \in {67, 68} -> Header(val, "dhcp", From(raw, 8))
               [] len >= 8 /\ dst \notin {67, 68} /\ 53 \in {src, dst} ->
                    Header(val, "dns", From(raw, 8))
               [] OTHER -> Header(val, "bytes", IF Len(raw) < len THEN <<>> ELSE From(raw, 8))

pseudo_header(ip, len) == ip.srcip \o ip.dstip \o <<0, ip.protocol>> \o P16(len)

udp_checksum(v, ip, payload) ==
    LET len == 8 + Len(payload)
        r == checksum(pseudo_header(ip, len) \o P16(v.srcport) \o P16(v.dstport)
                      \o P16(len) \o <<0, 0>> \o payload, 9)
    IN  IF r = 0 THEN 65535 ELSE r

udp_hdr(v, ip, payload) ==
    P16(v.srcport) \o P16(v.dstport) \o P16(8 + Len(payload)) \o P16(udp_checksum(v, ip, payload))

(* tcp_opt: a SACK option forgets its kind and length, an unknown option   *)
(* writes nothing.                                                         *)
to_bytes(o) ==
    CASE o.type \in {0, 1} -> <<o.type>>
      [] o.type = 2 -> <<2, 4>> \o o.val
      [] o.type = 3 -> <<3, 3>> \o o.val
      [] o.type = 4 -> <<4, 2>>
      [] o.type = 5 -> o.val
      [] o.type = 8 -> <<8, 10>> \o o.val
      [] OTHER -> <<>>

(* parse_options() from offset i; an exception ends it with ok FALSE. *)
RECURSIVE parse_options(_, _, _)
parse_options(arr, i, hdr_len) ==
    LET kind == U8(arr, i)
        len == U8(arr, i + 1)
        Then(val, n) ==
            LET r == parse_options(arr, i + n, hdr_len)
            IN  [r EXCEPT !.options = <<[type |-> kind, val |-> val]>> \o @]
        Fixed == (2 :> 4) @@ (3 :> 3) @@ (4 :> 2) @@ (8 :> 10)
        fails == [ok |-> FALSE, options |-> <<>>]
    IN  CASE i >= hdr_len -> [ok |-> TRUE, options |-> <<>>]
          [] i < hdr_len /\ kind = 0 -> [ok |-> TRUE, options |-> <<>>]
          [] i < hdr_len /\ kind = 1 -> Then(<<>>, 1)
          [] OTHER ->
               IF i + 2 > Len(arr) THEN fails
               ELSE IF i + len > Len(arr) \/ len < 2 THEN fails
               ELSE IF kind \in DOMAIN Fixed
                    THEN IF len = Fixed[kind] THEN Then(Slice(arr, i + 2, i + len), len) ELSE fails
               ELSE IF kind = 5
                    THEN IF (len - 2) % 8 = 0 /\ Len(arr) - (i + 2) = len - 2
                         THEN Then(From(arr, i + 2), len) ELSE fails
               ELSE Then(Slice(arr, i + 2, i + 2 + len), len)

tcp_parse(raw) ==
    LET none == [srcport |-> 0, dstport |-> 0]
        off == U8(raw, 12) \div 16
        opts == parse_options(raw, 20, off * 4)
    IN  IF Len(raw) < 20 THEN Unparsed(none)
        ELSE IF off < 5 \/ off * 4 > Len(raw) THEN Unparsed(none)
        ELSE IF ~ opts.ok THEN Unparsed(none)
        ELSE Header([srcport |-> U16(raw, 0), dstport |-> U16(raw, 2),
                     seq |-> Slice(raw, 4, 8), ack |-> Slice(raw, 8, 12),
                     off |-> off, res |-> U8(raw, 12) % 16, flags |-> U8(raw, 13),
                     win |-> U16(raw, 14), urg |-> U16(raw, 18), options |-> opts.options],
                    "bytes", From(raw, off * 4))

tcp_hdr(v, ip, payload) ==
    LET Fixed(csum) ==
            P16(v.srcport) \o P16(v.dstport) \o v.seq \o v.ack \o <<v.off * 16 + v.res, v.flags>>
            \o P16(v.win) \o P16(csum) \o P16(v.urg)
            \o Concat([k \in DOMAIN v.options |-> to_bytes(v.options[k])])
        segment == Fixed(0) \o payload
    IN  Fixed(checksum(pseudo_header(ip, Len(segment)) \o segment, 14))
=============================================================================
