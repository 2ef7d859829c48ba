---------------------------- MODULE MCPacketPath ----------------------------
(***************************************************************************)
(* Frames for the packet path, made from a description of their headers    *)
(* the way the protocols define them.  A header is [cls, val, b]: its      *)
(* attributes and its bytes, with zero for the lengths and checksums that  *)
(* depend on what follows.                                                 *)
(***************************************************************************)
EXTENDS PacketPath, MCOpenFlowStream

Lay(cls, val, b) == [cls |-> cls, val |-> val, b |-> b]

MacA == <<2, 0, 0, 200, 0, 1>>
MacB == <<10, 255, 3, 0, 9, 7>>
IpA == <<10, 0, 0, 200>>
IpB == <<192, 168, 255, 254>>

(* The one's complement sum of the protocols, by big-endian words. *)
InternetSum(b) ==
    LET n == (Len(b) + 1) \div 2
        word(i) == 256 * b[2 * i - 1] + (IF 2 * i <= Len(b) THEN b[2 * i] ELSE 0)
        sum[i \in 0 .. n] == IF i = 0 THEN 0 ELSE sum[i - 1] + word(i)
    IN  IF sum[n] = 0 THEN 65535 ELSE 65535 - (((sum[n] - 1) % 65535) + 1)

Eth(type) ==
    Lay("ethernet", [dst |-> MacB, src |-> MacA, type |-> type], MacB \o MacA \o P16(type))
Vlan(type) ==
    Lay("vlan", [pcp |-> 5, id |-> 3001, eth_type |-> type], P16(5 * 8192 + 3001) \o P16(type))
Mpls ==
    Lay("mpls", [label |-> 703710, tc |-> 5, s |-> 1, ttl |-> 254], <<171, 205, 14 * 16 + 11, 254>>)
Arp(op) ==
    Lay("arp", [hwtype |-> 1, prototype |-> 2048, hwlen |-> 6, protolen |-> 4, opcode |-> op,
                hwsrc |-> MacA, hwdst |-> MacB, protosrc |-> IpA, protodst |-> IpB],
        <<0, 1, 8, 0, 6, 4>> \o P16(op) \o MacA \o IpA \o MacB \o IpB)
Ip(proto, opts) ==
    LET hl == 5 + Len(opts) \div 4
    IN  Lay("ipv4", [v |-> 4, hl |-> hl, tos |-> 16, id |-> 64001, flags |-> 2, frag |-> 0,
                     ttl |-> 63, protocol |-> proto, srcip |-> IpA, dstip |-> IpB],
            <<64 + hl, 16, 0, 0>> \o P16(64001) \o P16(16384) \o <<63, proto, 0, 0>>
            \o IpA \o IpB \o opts)
Icmp(type) == Lay("icmp", [type |-> type, code |-> 1], <<type, 1, 0, 0>>)
Echo == Lay("echo", [id |-> 4660, seq |-> 258], <<18, 52, 1, 2>>)
Unreach == Lay("unreach", [unused |-> 0, next_mtu |-> 1400], <<0, 0, 5, 120>>)
Udp(src, dst) ==
    Lay("udp", [srcport |-> src, dstport |-> dst], P16(src) \o P16(dst) \o <<0, 0, 0, 0>>)
Opt(type, val) == [type |-> type, val |-> val]
Tcp(opts, optBytes) ==
    LET off == 5 + Len(optBytes) \div 4
    IN  Lay("tcp", [srcport |-> 443, dstport |-> 50000, seq |-> <<200, 1, 2, 3>>,
                    ack |-> <<0, 255, 255, 1>>, off |-> off, res |-> 0, flags |-> 18,
                    win |-> 65535, urg |-> 7, options |-> opts],
            P16(443) \o P16(50000) \o <<200, 1, 2, 3, 0, 255, 255, 1, off * 16, 18>>
            \o P16(65535) \o <<0, 0>> \o P16(7) \o optBytes)

(* The bytes of a header in front of body, complete. *)
Put(b, off, n) == [b EXCEPT ![off + 1] = n \div 256, ![off + 2] = n % 256]
Pseudo(proto, len) == IpA \o IpB \o <<0, proto>> \o P16(len)
NonZero(n) == IF n = 0 THEN 65535 ELSE n
Sealed(h, body) ==
    LET len == Len(h.b) + Len(body)
        summed(b, off, front) == Put(b, off, InternetSum(front \o b))
    IN  CASE h.cls = "ipv4" -> Apply(LAMBDA b : summed(b, 10, <<>>), Put(h.b, 2, len))
          [] h.cls = "icmp" -> Put(h.b, 2, InternetSum(h.b \o body))
          [] h.cls = "udp" ->
               Apply(LAMBDA b : Put(b, 6, NonZero(InternetSum(Pseudo(17, len) \o b \o body))),
                     Put(h.b, 4, len))
          [] h.cls = "tcp" -> Put(h.b, 16, InternetSum(Pseudo(6, len) \o h.b \o body))
          [] OTHER -> h.b

(* The frame with these headers, the payload rest and pad bytes behind it. *)
Frame(layers, rest, pad) ==
    LET bytes[k \in 1 .. Len(layers) + 1] ==
            IF k > Len(layers) THEN rest
            ELSE Apply(LAMBDA body : Sealed(layers[k], body) \o body, bytes[k + 1])
    IN  [layers |-> layers, rest |-> rest, b |-> bytes[1] \o pad]

Stamp == <<1, 2, 3, 4, 250, 6, 7, 8>>
SynOptions == <<Opt(2, <<5, 180>>), Opt(4, <<>>), Opt(8, Stamp), Opt(1, <<>>), Opt(3, <<7>>)>>
SynBytes == <<2, 4, 5, 180, 4, 2, 8, 10>> \o Stamp \o <<1, 3, 3, 7>>
SackOptions == <<Opt(1, <<>>), Opt(1, <<>>), Opt(5, Stamp)>>
SackBytes == <<1, 1, 5, 10>> \o Stamp
EndOptions == <<Opt(3, <<7>>)>>
EndBytes == <<3, 3, 7, 0>>

Eapol(type, len) ==
    Lay("eapol", [version |-> 2, type |-> type, bodylen |-> len], <<2, type>> \o P16(len))
EapSuccess == Lay("eap", [code |-> 3, id |-> 9, length |-> 4], <<3, 9, 0, 4>>)
EapRequest == Lay("eap", [code |-> 1, id |-> 9, length |-> 5, type |-> 1], <<1, 9, 0, 5, 1>>)

Tlvs(s) ==
    LET one(i) == [ok |-> TRUE, tlv_type |-> s[i][1],
                   b |-> P16(s[i][1] * 512 + Len(s[i][2])) \o s[i][2]]
        all == [i \in DOMAIN s |-> one(i)]
    IN  Lay("lldp", [tlvs |-> all], Concat([i \in DOMAIN s |-> all[i].b]))
Required == << <<1, <<4>> \o MacA>>, <<2, <<2, 49, 50>> >>, <<3, <<0, 120>> >> >>
Optional == << <<4, <<112>> >>, <<5, <<115, 49>> >>, <<6, <<>> >>, <<7, <<255, 255, 0, 0>> >>,
               <<8, <<5, 1>> \o IpA \o <<2, 0, 0, 0, 9, 1, 43>> >>,
               <<9, <<1>> >>, <<127, <<0, 38, 225, 0, 100>> >> >>
EndTlv == << <<0, <<>> >> >>

(* DNS: the name a.bc, referred to by a pointer to offset 12. *)
Name == <<1, 97, 2, 98, 99, 0>>
Labels == << <<97>>, <<98, 99>> >>
Question == [name |-> Labels, qtype |-> 1, qclass |-> 1]
Record(type, data) ==
    [name |-> Labels, qtype |-> type, qclass |-> 1, ttl |-> <<0, 0, 14, 16>>, rddata |-> data]
RecordBytes(type, data) ==
    <<192, 12>> \o P16(type) \o <<0, 1, 0, 0, 14, 16>> \o P16(Len(data)) \o data
DnsQuery ==
    Lay("dns", [id |-> 7, qr |-> FALSE, rd |-> TRUE, rcode |-> 0, questions |-> <<Question>>,
                   answers |-> <<>>, authorities |-> <<>>, additional |-> <<>>],
           <<0, 7, 1, 0, 0, 1, 0, 0, 0, 0, 0, 0>> \o Name \o <<0, 1, 0, 1>>)
DnsReply ==
    Lay("dns", [id |-> 7, qr |-> TRUE, aa |-> TRUE, rd |-> TRUE, ra |-> TRUE, rcode |-> 3,
                   questions |-> <<Question>>,
                   answers |-> <<Record(1, <<IpA>>), Record(15, << <<109>> >> \o Labels)>>,
                   authorities |-> <<Record(2, Labels)>>,
                   additional |-> <<Record(16, << <<1, 120>> >>)>>],
           <<0, 7, 133, 131, 0, 1, 0, 2, 0, 1, 0, 1>> \o Name \o <<0, 1, 0, 1>>
           \o RecordBytes(1, IpA) \o RecordBytes(15, <<0, 5, 1, 109, 192, 12>>)
           \o RecordBytes(2, <<192, 12>>) \o RecordBytes(16, <<1, 120>>))

DhcpDiscover ==
    Lay("dhcp", [op |-> 1, htype |-> 1, hlen |-> 6, hops |-> 0, xid |-> <<1, 2, 3, 4>>, secs |-> 3,
                    flags |-> 32768, ciaddr |-> IP_ANY, yiaddr |-> IP_ANY, siaddr |-> IP_ANY,
                    giaddr |-> IpB, chaddr |-> MacA, sname |-> Zeros(64), magic |-> MAGIC,
                    options |-> (53 :> <<1>>) @@ (55 :> <<1, 3, 6>>) @@ (61 :> <<1>> \o MacA)],
           <<1, 1, 6, 0, 1, 2, 3, 4, 0, 3, 128, 0>> \o Zeros(12) \o IpB
           \o MacA \o Zeros(10) \o Zeros(192) \o MAGIC
           \o <<53, 1, 1, 0, 55, 2, 1, 3, 61, 7, 1>> \o MacA \o <<55, 1, 6, 255>>)

Payload == <<1, 2, 250, 4, 5>>

PlainFrames ==
    [unknown |-> << <<Eth(1536)>>, Payload>>,
     arp |-> << <<Eth(2054), Arp(1)>>, <<>> >>,
     rarp |-> << <<Eth(32821), Arp(3)>>, Payload>>,
     mpls |-> << <<Eth(34887), Mpls>>, Payload>>,
     vlan_arp |-> << <<Eth(33024), Vlan(2054), Arp(2)>>, <<>> >>,
     udp |-> << <<Eth(2048), Ip(17, <<>>), Udp(9, 40000)>>, Payload>>,
     udp_empty |-> << <<Eth(2048), Ip(17, <<>>), Udp(9, 40000)>>, <<>> >>,
     tcp |-> << <<Eth(2048), Ip(6, <<>>), Tcp(<<>>, <<>>)>>, Payload>>,
     tcp_syn |-> << <<Eth(33024), Vlan(2048), Ip(6, <<>>), Tcp(SynOptions, SynBytes)>>, <<>> >>,
     ospf |-> << <<Eth(2048), Ip(89, <<>>)>>, Payload>>,
     icmp_echo |-> << <<Eth(2048), Ip(1, <<>>), Icmp(8), Echo>>, Payload>>,
     unreach |-> << <<Eth(2048), Ip(1, <<>>), Icmp(3), Unreach, Ip(17, <<>>), Udp(9, 40000)>>, Payload>>,
     redirect |-> << <<Eth(2048), Ip(1, <<>>), Icmp(5)>>, Payload>>,
     lldp |-> << <<Eth(35020), Tlvs(Required \o Optional \o EndTlv)>>, <<>> >>,
     lldp_short |-> << <<Eth(35020), Tlvs(Required \o EndTlv)>>, <<>> >>,
     eap_success |-> << <<Eth(34958), Eapol(0, 4), EapSuccess>>, <<>> >>,
     eapol_start |-> << <<Eth(34958), Eapol(1, 0)>>, <<>> >>]

OtherFrames ==
    [padded |-> << <<Eth(2048), Ip(17, <<>>), Udp(9, 40000)>>, Payload>>,
     ip_options |-> << <<Eth(2048), Ip(17, <<1, 1, 1, 0>>), Udp(9, 40000)>>, Payload>>,
     tcp_sack |-> << <<Eth(2048), Ip(6, <<>>), Tcp(SackOptions, SackBytes)>>, <<>> >>,
     tcp_end |-> << <<Eth(2048), Ip(6, <<>>), Tcp(EndOptions, EndBytes)>>, Payload>>,
     eap_request |-> << <<Eth(34958), Eapol(0, 5), EapRequest>>, <<>> >>,
     dns_query |-> << <<Eth(2048), Ip(17, <<>>), Udp(40000, 53), DnsQuery>>, <<>> >>,
     dns_reply |-> << <<Eth(2048), Ip(17, <<>>), Udp(53, 40000), DnsReply>>, <<>> >>,
     dhcp |-> << <<Eth(2048), Ip(17, <<>>), Udp(68, 67), DhcpDiscover>>, <<>> >>]

PaddingOf(f) == IF f = "padded" THEN Zeros(13) ELSE <<>>
Frames ==
    Apply(LAMBDA d : [f \in DOMAIN d |-> Frame(d[f][1], d[f][2], PaddingOf(f))], PlainFrames @@ OtherFrames)
MCPlain == DOMAIN PlainFrames
MCFresh == {0, 65535}

(* Bound: a frame longer than 130 bytes is not cut in the middle. *)
CutsOf(n) == {c \in 0 .. n : n > 130 => (c < 60 \/ c > 275)}
FrameMessages ==
    LET d == Frames IN UNION {{<<f, c>> : c \in CutsOf(Len(d[f].b))} : f \in DOMAIN d}
ControlMessages == {<<m, 0>> : m \in ControlNames}

AllMessages == ControlMessages \union FrameMessages
CutFrames == LET d == Frames IN [m \in FrameMessages |-> SubSeq(d[m[1]].b, 1, m[2])]
WholeOf == [m \in FrameMessages |-> m[1]]
AsData(b) == [i \in DOMAIN b |-> <<Num(b[i]), 1, 1>>]
Objects ==
    LET packet_in(made, b) == [made["packet_in"] EXCEPT !.data = AsData(b)]
        all(made, frames) ==
            [m \in DOMAIN frames |-> packet_in(made, frames[m])]
            @@ [m \in ControlMessages |-> made[m[1]]]
    IN  Apply(LAMBDA made : Apply(LAMBDA frames : all(made, frames), CutFrames), ControlMessage)
Readers ==
    [m \in AllMessages |-> IF m[1] \in DOMAIN ToSwitch THEN "switch" ELSE "controller"]
Behind ==
    [m \in AllMessages |-> IF m[1] \in ControlNames THEN {<<f, 0>> : f \in Following} ELSE {}]

(* The values of the constants, evaluated once. *)
MCDescribed == Frames
MCMessages == AllMessages
MCFrameIn == CutFrames
MCWhole == WholeOf
MCObj == Objects
MCReaderOf == Readers
MCSecond == Behind

(* Bound: a message with a frame is received in one piece. *)
FramesInOnePiece ==
    (sent # <<>> /\ sent[1] \in DOMAIN FrameIn) => (buf = <<>> /\ (wire = <<>> \/ got = <<>>)
                                                     /\ (wire = <<>> \/ send_buf = <<>>))
=============================================================================
