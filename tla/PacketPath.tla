----------------------------- MODULE PacketPath -----------------------------
(***************************************************************************)
(* A frame on its way through the controller: a switch sends it, or the    *)
(* first bytes of it, in a packet_in; the receive loop hands the message   *)
(* over (OpenFlowStream); PacketIn.parse() makes a packet of its data; and *)
(* a component that lets the packet pass gives the parsed object to a      *)
(* packet_out, whose data property packs it again.                         *)
(***************************************************************************)
EXTENDS OpenFlowStream, PacketLibrary

CONSTANTS FrameIn,   \* FrameIn[m]: the bytes of the frame in packet_in m
          Whole,     \* Whole[m]: the frame m holds the first bytes of
          Described, \* Described[f]: what frame f was made of (see MCPacketPath)
          Plain,     \* frames with nothing the library leaves out
          Fresh      \* identifiers a header that was not read may be given

VARIABLE relayed     \* what became of the frames handed over (history)

pathVars == <<vars, relayed>>

PathInit == Init /\ relayed = <<>>

(* The number each byte of a packet_in's data stands for. *)
FrameBytes(data) == [i \in DOMAIN data |-> AsNat(data[i][1])]

(* event.parse() and packet_out.data = event.parsed, for the bytes b of a  *)
(* frame.                                                                  *)
Relay(b, fresh) ==
    LET relay(p) ==
            [parsed |-> p, out |-> IF p.raised THEN [raised |-> TRUE, b |-> <<>>] ELSE packet_pack(p)]
    IN  Apply(relay, ethernet(b, fresh))
Relays ==
    LET frames == FrameIn
    IN  [f \in {frames[m] : m \in DOMAIN frames} \X Fresh |-> Relay(f[1], f[2])]

PacketInParse(fresh) ==
    /\ relayed = <<>> /\ got # <<>>
    /\ sent[1] \in DOMAIN FrameIn
    /\ relayed' = <<Relays[<<FrameBytes(got[1].data), fresh>>]>>
    /\ UNCHANGED vars

PathNext ==
    \/ Next /\ UNCHANGED relayed
    \/ \E fresh \in Fresh : PacketInParse(fresh)

PathSpec == PathInit /\ [][PathNext]_pathVars

-----------------------------------------------------------------------------
(* A complete frame is read as what it was made of, described by d: the    *)
(* same headers in the same order, every described attribute with its      *)
(* value (the names and records of a DNS message and the options of TCP    *)
(* and DHCP included), and the payload behind the last header.             *)
ReadsWhatWasSent(p, d) ==
    /\ ~ p.raised
    /\ Len(p.layers) = Len(d.layers)
    /\ p.rest = d.rest
    /\ \A k \in DOMAIN d.layers :
           /\ p.layers[k].cls = d.layers[k].cls /\ p.layers[k].parsed
           /\ \A f \in DOMAIN d.layers[k].val : p.layers[k].val[f] = d.layers[k].val[f]

(* However few bytes of a frame the switch sends, a header that counts as  *)
(* parsed holds what the complete frame holds there (of the options of     *)
(* DHCP those that arrived); and parsing fails with an exception only      *)
(* inside ICMP, EAP and LLDP.                                              *)
CutKeepsHeaders(p, whole) ==
    IF p.raised THEN p.at \in {"icmp", "eap", "lldp"}
    ELSE \A k \in DOMAIN p.layers :
           p.layers[k].parsed =>
               /\ k \in DOMAIN whole /\ p.layers[k].cls = whole[k].cls
               /\ \A f \in DOMAIN whole[k].val :
                      IF p.layers[k].cls = "dhcp" /\ f = "options"
                      THEN \A o \in DOMAIN p.layers[k].val[f] :
                             LET v == p.layers[k].val[f][o]
                             IN  v = SubSeq(whole[k].val[f][o], 1, Len(v))
                      ELSE p.layers[k].val[f] = whole[k].val[f]

(* The packet library between packet_in and packet_out: complete frames    *)
(* are read as what they were made of, and plain ones leave the controller *)
(* byte for byte as they came in, lengths and checksums included; a frame  *)
(* that is cut short is never read as something it is not.                 *)
FramesIntact ==
    \A i \in DOMAIN relayed :
        \A name \in {Whole[sent[i]]}, b \in {FrameIn[sent[i]]} : \A d \in {Described[name]} :
            /\ CutKeepsHeaders(relayed[i].parsed, d.layers)
            /\ b = d.b => ReadsWhatWasSent(relayed[i].parsed, d)
            /\ (b = d.b /\ name \in Plain) => relayed[i].out = [raised |-> FALSE, b |-> b]
=============================================================================
