---------------------------- MODULE PacketLibrary ---------------------------
(***************************************************************************)
(* The variable-length protocols of the packet library (LLDP, DNS, DHCP)   *)
(* and whole packets: ethernet(raw) builds a chain of headers, pack()      *)
(* writes the chain back from the innermost header outwards.               *)
(***************************************************************************)
EXTENDS PacketHeaders

-----------------------------------------------------------------------------
(* LLDP.  A TLV is its type and the bytes its pack() writes. *)

Tlv(type, body) == [ok |-> TRUE, tlv_type |-> type, b |-> P16(type * 512 + Len(body)) \o body]
TlvKeeping(type, len, body) == [ok |-> TRUE, tlv_type |-> type, b |-> P16(type * 512 + len) \o body]
TlvFails == [ok |-> FALSE]

(* s padded or cut to n bytes, as struct's format "<n>s" does. *)
FillTo(s, n) == Slice(s, 0, n) \o Zeros(IF n > Len(s) THEN n - Len(s) ELSE 0)

chassis_id(data, len) ==
    IF len < 2 \/ Len(data) < 3 THEN TlvFails
    ELSE TlvKeeping(1, len, <<data[3]>> \o FillTo(From(data, 3), len - 1))

port_id(data, len) ==
    IF len < 2 \/ Len(data) < 3 \/ len # Len(data) - 2 THEN TlvFails
    ELSE Tlv(2, From(data, 2))

ttl_tlv(data, len) ==
    IF len # 2 THEN TlvKeeping(3, len, <<0, 0>>)
    ELSE IF Len(data) < 4 THEN TlvFails ELSE Tlv(3, From(data, 2))

end_tlv(data, len) == TlvKeeping(0, len, <<>>)

(* system_name, system_description, port_description and unknown_tlv. *)
basic_tlv(type, data, len) == TlvKeeping(type, len, From(data, 2))

organizationally_specific(data, len) ==
    IF Len(data) < 6 THEN TlvFails ELSE basic_tlv(127, data, len)

(* Reading uses `cap and (1 << i)`: one capability stands for all sixteen. *)
system_capabilities(data, len) ==
    LET All(i) == IF U16(data, i) = 0 THEN P16(0) ELSE P16(65535)
    IN  IF Len(data) # 6 THEN TlvFails ELSE TlvKeeping(7, len, All(2) \o All(4))

management_address(data, len) ==
    LET asl == U8(data, 2) - 1
        address == Slice(data, 4, 4 + asl)
        oid == Slice(data, 10 + asl, 10 + asl + U8(data, 9 + asl))
    IN  IF Len(data) < 4 THEN TlvFails
        ELSE IF Len(data) < 10 + asl THEN TlvFails
        ELSE Tlv(8, <<Len(address) + 1, U8(data, 3)>> \o address
                    \o Slice(data, 4 + asl, 9 + asl) \o <<Len(oid)>> \o oid)

(* next_tlv(): the TLV at the front of array and the bytes it takes; more  *)
(* is FALSE for the return value None.                                     *)
next_tlv(array) ==
    LET type == U16(array, 0) \div 512
        length == U16(array, 0) % 512
        data == Slice(array, 0, 2 + length)
        tlv == CASE type = 0 -> end_tlv(data, length)
                 [] type = 1 -> chassis_id(data, length)
                 [] type = 2 -> port_id(data, length)
                 [] type = 3 -> ttl_tlv(data, length)
                 [] type = 7 -> system_capabilities(data, length)
                 [] type = 8 -> management_address(data, length)
                 [] type = 127 -> organizationally_specific(data, length)
                 [] OTHER -> basic_tlv(type, data, length)
    IN  IF Len(array) < 2 THEN [more |-> FALSE]
        ELSE IF Len(array) < length THEN [more |-> FALSE]
        ELSE [more |-> TRUE, ret |-> 2 + length, tlv |-> tlv]

(* The TLVs from the k-th on, the first three of which must be chassis,    *)
(* port and TTL; the list ends at an END TLV.                              *)
RECURSIVE lldp_tlvs(_, _)
lldp_tlvs(raw, k) ==
    LET stop(n, parsed) == [raised |-> FALSE, parsed |-> parsed, tlvs |-> <<n.tlv>>]
        go_on(n) == Apply(LAMBDA r : IF r.raised THEN r ELSE [r EXCEPT !.tlvs = <<n.tlv>> \o @],
                          lldp_tlvs(From(raw, n.ret), k + 1))
        found(n) ==
            IF ~ n.more THEN [raised |-> FALSE, parsed |-> FALSE, tlvs |-> <<>>]
            ELSE IF ~ n.tlv.ok THEN [raised |-> TRUE]
            ELSE IF k <= 3 /\ n.tlv.tlv_type # k THEN stop(n, FALSE)
            ELSE IF k > 3 /\ n.tlv.tlv_type = 0 THEN stop(n, TRUE)
            ELSE IF k > 3 /\ n.ret >= Len(raw) THEN stop(n, FALSE)
            ELSE go_on(n)
    IN  Apply(found, next_tlv(raw))

lldp_parse(raw) ==
    IF Len(raw) < 14 THEN Unparsed([tlvs |-> <<>>])
    ELSE Apply(LAMBDA r : IF r.raised THEN Raised
                          ELSE [Unparsed([tlvs |-> r.tlvs]) EXCEPT !.parsed = r.parsed],
               lldp_tlvs(raw, 1))

lldp_hdr(v) == Concat([k \in DOMAIN v.tlvs |-> v.tlvs[k].b])

-----------------------------------------------------------------------------
(* DNS.  A name is the sequence of its labels. *)

NoName == [ok |-> FALSE, index |-> 0, labels |-> <<>>]

(* _read_dns_name_from_index(): depth bounds the calls for compressed      *)
(* names, as Python's recursion limit does; a chain of pointers longer     *)
(* than the message goes round in a circle.                                *)
RECURSIVE read_dns_name(_, _, _)
read_dns_name(l, index, depth) ==
    IF index >= Len(l) \/ depth = 0 THEN NoName
    ELSE LET size == U8(l, index)
             pointed == read_dns_name(l, (size % 4) * 256 + U8(l, index + 1), depth - 1)
             more == read_dns_name(l, index + 1 + size, depth)
         IN  CASE size >= 192 ->
                    IF index + 1 >= Len(l) THEN NoName ELSE [pointed EXCEPT !.index = index + 1]
               [] size = 0 -> [ok |-> TRUE, index |-> index, labels |-> <<>>]
               [] OTHER -> [more EXCEPT !.labels = <<Slice(l, index + 1, index + 1 + size)>> \o @]

NameAt(l, index) == read_dns_name(l, index, Len(l))

NoRecord == [ok |-> FALSE]

next_question(l, start) ==
    LET question(n, index) ==
            IF ~ n.ok \/ index + 4 > Len(l) THEN NoRecord
            ELSE [ok |-> TRUE, index |-> index + 4,
                  entry |-> [name |-> n.labels, qtype |-> U16(l, index), qclass |-> U16(l, index + 2)]]
    IN  Apply(LAMBDA n : question(n, n.index + 1), NameAt(l, start))

(* get_rddata(): a name, or the bytes as they are. *)
get_rddata(l, type, dlen, beg) ==
    CASE type = 1 /\ dlen # 4 -> NoName
      [] type \in {2, 12} -> NameAt(l, beg)
      [] type = 15 -> NameAt(l, beg + 2)
      [] OTHER -> [ok |-> TRUE, index |-> beg + dlen, labels |-> <<Slice(l, beg, beg + dlen)>>]

next_rr(l, start) ==
    LET record(n, index, rdlen, data) ==
            IF ~ data.ok THEN NoRecord
            ELSE [ok |-> TRUE, index |-> index + 10 + rdlen,
                  entry |-> [name |-> n.labels, qtype |-> U16(l, index), qclass |-> U16(l, index + 2),
                             ttl |-> Slice(l, index + 4, index + 8), rddata |-> data.labels]]
        resource(n, index) ==
            IF ~ n.ok \/ index + 10 > Len(l) THEN NoRecord
            ELSE IF index + 10 + U16(l, index + 8) > Len(l) THEN NoRecord
            ELSE Apply(LAMBDA data : record(n, index, U16(l, index + 8), data),
                       get_rddata(l, U16(l, index), U16(l, index + 8), index + 10))
    IN  Apply(LAMBDA n : resource(n, n.index + 1), NameAt(l, start))

RECURSIVE DnsSection(_, _, _, _)
(* count entries from index on, with the loop's try around each of them. *)
DnsSection(l, index, count, question) ==
    LET stopped(ok) == [ok |-> ok, index |-> index, entries |-> <<>>]
        and_others(e) ==
            IF ~ e.ok THEN stopped(FALSE)
            ELSE Apply(LAMBDA r : [r EXCEPT !.entries = <<e.entry>> \o @],
                       DnsSection(l, e.index, count - 1, question))
    IN  IF count = 0 THEN stopped(TRUE)
        ELSE Apply(and_others, IF question THEN next_question(l, index) ELSE next_rr(l, index))

(* The sections from the k-th on: questions, answers, authorities and      *)
(* additional records; a section that cannot be read ends parse().         *)
RECURSIVE DnsSections(_, _, _)
DnsSections(raw, index, k) ==
    IF k > 4 THEN [ok |-> TRUE, sections |-> <<>>]
    ELSE LET and_others(s) ==
                 IF ~ s.ok THEN [ok |-> FALSE, sections |-> <<>>]
                 ELSE Apply(LAMBDA r : [r EXCEPT !.sections = <<s.entries>> \o @],
                            DnsSections(raw, s.index, k + 1))
         IN  Apply(and_others, DnsSection(raw, index, U16(raw, 2 + 2 * k), k = 1))

dns_parse(raw) ==
    IF Len(raw) < 12 THEN Unparsed([id |-> 0])
    ELSE LET b0 == U8(raw, 2)
             b1 == U8(raw, 3)
             flags == [id |-> U16(raw, 0), qr |-> Bit(b0, 128), opcode |-> (b0 \div 16) % 8,
                       aa |-> Bit(b0, 4), tc |-> Bit(b0, 2), rd |-> Bit(b0, 1),
                       ra |-> Bit(b1, 128), z |-> Bit(b1, 64), ad |-> Bit(b1, 32),
                       cd |-> Bit(b1, 16), rcode |-> b1 % 16]
             with(r) ==
                 IF ~ r.ok THEN Unparsed(flags)
                 ELSE Header(flags @@ [questions |-> r.sections[1], answers |-> r.sections[2],
                                       authorities |-> r.sections[3], additional |-> r.sections[4]],
                             "bytes", <<>>)
         IN  Apply(with, DnsSections(raw, 12, 1))

-----------------------------------------------------------------------------
(* DHCP *)

MAGIC == <<99, 130, 83, 99>>
OVERLOAD_OPT == 52

(* parseOptionSegment(): a repeated option is appended to the first one. *)
RECURSIVE parseOptionSegment(_, _, _)
parseOptionSegment(barr, ofs, options) ==
    LET opt == U8(barr, ofs)
        len == U8(barr, ofs + 1)
        val == Slice(barr, ofs + 2, ofs + 2 + len)
        old == IF opt \in DOMAIN options THEN options[opt] ELSE <<>>
    IN  IF ofs >= Len(barr) THEN options
        ELSE IF opt = 255 THEN options
        ELSE IF opt = 0 THEN parseOptionSegment(barr, ofs + 1, options)
        ELSE IF ofs + 1 >= Len(barr) THEN options
        ELSE IF ofs + 2 + len > Len(barr) THEN options
        ELSE parseOptionSegment(barr, ofs + 2 + len, (opt :> old \o val) @@ options)

(* An option that overloads the name fields is compared with a number and  *)
(* then formatted as one: parseOptions() raises.  A message too short,     *)
(* with a long hardware address or with another magic gets no options.     *)
dhcp_parse(raw) ==
    IF Len(raw) < 240 THEN Unparsed([op |-> 0])
    ELSE LET hlen == U8(raw, 2)
             val == [op |-> U8(raw, 0), htype |-> U8(raw, 1), hlen |-> hlen, hops |-> U8(raw, 3),
                     xid |-> Slice(raw, 4, 8), secs |-> U16(raw, 8), flags |-> U16(raw, 10),
                     ciaddr |-> Slice(raw, 12, 16), yiaddr |-> Slice(raw, 16, 20),
                     siaddr |-> Slice(raw, 20, 24), giaddr |-> Slice(raw, 24, 28),
                     chaddr |-> Slice(raw, 28, IF hlen = 6 THEN 34 ELSE 44),
                     sname |-> Slice(raw, 44, 108), file |-> Slice(raw, 102, 236),
                     magic |-> Slice(raw, 236, 240)]
             options == parseOptionSegment(From(raw, 240), 0, <<>>)
         IN  CASE hlen > 16 \/ val.magic # MAGIC -> Header(val, "bytes", <<>>)
               [] hlen <= 16 /\ val.magic = MAGIC /\ OVERLOAD_OPT \in DOMAIN options -> Raised
               [] OTHER -> Header(val @@ [options |-> options], "bytes", <<>>)

-----------------------------------------------------------------------------
(* Whole packets *)

parse_header(cls, raw, fresh) ==
    CASE cls = "ethernet" -> ethernet_parse(raw) [] cls = "vlan" -> vlan_parse(raw)
      [] cls = "mpls" -> mpls_parse(raw)         [] cls = "arp" -> arp_parse(raw)
      [] cls = "eapol" -> eapol_parse(raw)       [] cls = "eap" -> eap_parse(raw)
      [] cls = "lldp" -> lldp_parse(raw)         [] cls = "ipv4" -> ipv4_parse(raw, fresh)
      [] cls = "icmp" -> icmp_parse(raw)         [] cls = "echo" -> echo_parse(raw, fresh)
      [] cls = "unreach" -> unreach_parse(raw)   [] cls = "udp" -> udp_parse(raw)
      [] cls = "tcp" -> tcp_parse(raw)           [] cls = "dns" -> dns_parse(raw)
      [] cls = "dhcp" -> dhcp_parse(raw)

(* The constructor of a class with raw: its header and those of next.      *)
(* ipv4 puts the bytes back in place of a next that could not be parsed.   *)
RECURSIVE parse(_, _, _)
parse(cls, raw, fresh) ==
    LET layer(h) == [cls |-> cls, parsed |-> h.parsed, val |-> h.val]
        alone(h) == [raised |-> FALSE, at |-> cls, layers |-> <<layer(h)>>, rest |-> h.rest]
        with(h, next) ==
            IF next.raised THEN next
            ELSE IF cls = "ipv4" /\ ~ next.layers[1].parsed THEN alone(h)
            ELSE [next EXCEPT !.layers = <<layer(h)>> \o @]
        object(h) ==
            IF h.raised THEN [raised |-> TRUE, at |-> cls]
            ELSE IF h.next = "bytes" THEN alone(h)
            ELSE Apply(LAMBDA next : with(h, next), parse(h.next, h.rest, fresh))
    IN  Apply(object, parse_header(cls, raw, fresh))

(* hdr() that raises: a tag with CFI set or never read; addresses left as  *)
(* numbers; an unreachable message without next; a DNS message in every    *)
(* case (putName assigns to s, and without names None is returned) and a   *)
(* DHCP message too (no options, no chaddr, or addresses struct refuses).  *)
hdr_raises(layer) ==
    CASE layer.cls = "vlan" -> ~ layer.parsed \/ layer.val.c # 0
      [] layer.cls = "ipv4" -> ~ layer.val.addrs
      [] layer.cls = "unreach" -> ~ layer.parsed
      [] layer.cls \in {"dns", "dhcp"} -> TRUE
      [] OTHER -> FALSE

hdr(layer, prev, payload) ==
    LET v == layer.val
    IN  CASE layer.cls = "ethernet" -> ethernet_hdr(v)   [] layer.cls = "vlan" -> vlan_hdr(v)
          [] layer.cls = "mpls" -> mpls_hdr(v)           [] layer.cls = "arp" -> arp_hdr(v)
          [] layer.cls = "eapol" -> eapol_hdr(v)         [] layer.cls = "eap" -> eap_hdr(v)
          [] layer.cls = "lldp" -> lldp_hdr(v)           [] layer.cls = "ipv4" -> ipv4_hdr(v, payload)
          [] layer.cls = "icmp" -> icmp_hdr(v, payload)  [] layer.cls = "echo" -> echo_hdr(v)
          [] layer.cls = "unreach" -> unreach_hdr(v)
          [] layer.cls = "udp" -> udp_hdr(v, prev.val, payload)
          [] layer.cls = "tcp" -> tcp_hdr(v, prev.val, payload)

(* pack() of the k-th header of packet p. *)
RECURSIVE pack_from(_, _)
pack_from(p, k) ==
    IF k > Len(p.layers) THEN [raised |-> FALSE, b |-> p.rest]
    ELSE LET with(next) ==
                 IF next.raised THEN next
                 ELSE IF hdr_raises(p.layers[k]) THEN [raised |-> TRUE, b |-> <<>>]
                 ELSE [raised |-> FALSE,
                       b |-> hdr(p.layers[k], p.layers[IF k = 1 THEN 1 ELSE k - 1], next.b) \o next.b]
         IN  Apply(with, pack_from(p, k + 1))

ethernet(raw, fresh) == parse("ethernet", raw, fresh)
packet_pack(p) == pack_from(p, 1)
=============================================================================
