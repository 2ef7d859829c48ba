----------------------------- MODULE VnsProtocol -----------------------------
(***************************************************************************)
(* The messages of the VNS protocol (pox_module/CSE425/VNSProtocol.py) and *)
(* their framing by length and type (ltprotocol).  A message is a record   *)
(*   cls   the Python class        val   the attributes of fixed width     *)
(*   data  the trailing bytes      list  interfaces or source filters      *)
(* Text is a symbolic value: struct fills it up with null characters and   *)
(* strip_null_chars takes them away again, so a value survives the trip    *)
(* exactly if it is read where and as wide as it was written.              *)
(***************************************************************************)
EXTENDS ByteLayout, TLC

CONSTANTS IDSIZE,        \* width of a host, user or password field (32)
          NameSize,      \* width of an interface name (16)
          TextSize,      \* width of a banner or a closing text (256)
          TemplateSize,  \* width of a template name (30)
          HwSize         \* width of a value of the hardware information (32)

ASSUME SizesAssumption == {IDSIZE, NameSize, TextSize, TemplateSize, HwSize} \subseteq 4 .. 256

VNSOpen == [type |-> 1, format |-> <<H("topo_id"), Pad(2), Raw("vhost", IDSIZE),
                                     Raw("user", IDSIZE), Raw("pw", IDSIZE)>>]
VNSClose == [type |-> 2, format |-> <<Raw("msg", TextSize)>>]
VNSPacket == [type |-> 4, format |-> <<Raw("intf_name", NameSize)>>]
VNSBanner == [type |-> 8, format |-> <<Raw("msg", TextSize)>>]
VNSHardwareInfo == [type |-> 16, format |-> <<>>]
VNSRtable == [type |-> 32, format |-> <<Raw("vrhost", IDSIZE)>>]
VNSOpenTemplate == [type |-> 64, format |-> <<Raw("template_name", TemplateSize), Raw("vrhost", IDSIZE)>>]
VNSAuthRequest == [type |-> 128, format |-> <<>>]
VNSAuthReply == [type |-> 256, format |-> <<L("username_len")>>]
VNSAuthStatus == [type |-> 512, format |-> <<B("auth_ok")>>]

VNS_MESSAGES ==
    [VNSOpen |-> VNSOpen, VNSClose |-> VNSClose, VNSPacket |-> VNSPacket,
     VNSBanner |-> VNSBanner, VNSHardwareInfo |-> VNSHardwareInfo, VNSRtable |-> VNSRtable,
     VNSOpenTemplate |-> VNSOpenTemplate, VNSAuthRequest |-> VNSAuthRequest,
     VNSAuthReply |-> VNSAuthReply, VNSAuthStatus |-> VNSAuthStatus]

(* Classes whose unpack() gives the whole body to struct.unpack, which     *)
(* raises unless the size is exact, and those that slice off what is left. *)
WholeBody == {"VNSOpen", "VNSClose", "VNSBanner"}
HasData == {"VNSPacket", "VNSRtable", "VNSAuthRequest", "VNSAuthReply", "VNSAuthStatus"}

NoFields == [f \in {} |-> Zero]
Message(c, val, data, list) == [cls |-> c, val |-> val, data |-> data, list |-> list]
None == Message("None", NoFields, <<>>, <<>>)

(* The entries of VNSInterface.FORMAT: a key of 4 bytes and a value that   *)
(* is filled up to HwSize.                                                 *)
VNSInterface ==
    <<L("HWINTERFACE"), Raw("name", HwSize),
      L("HWSPEED"), L("zero"), Pad(HwSize - 4),
      L("HWETHER"), Raw("mac", HwSize),
      L("HWETHIP"), Raw("ip", 4), Pad(HwSize - 4),
      L("HWSUBNET"), L("zero"), Pad(HwSize - 4),
      L("HWMASK"), Raw("mask", 4), Pad(HwSize - 4)>>
HwKeys == [HWINTERFACE |-> Num(1), HWSPEED |-> Num(2), HWSUBNET |-> Num(4),
           HWETHER |-> Num(32), HWETHIP |-> Num(64), HWMASK |-> Num(128), zero |-> Num(0)]

SourceFilter == <<Raw("ip", 4), B("mask")>>

(* pack() of each class: the header format, the items of the list, and the *)
(* bytes that follow.                                                      *)
PackBody(m) ==
    LET item(i) == CASE m.cls = "VNSHardwareInfo" -> PackFields(VNSInterface, m.list[i] @@ HwKeys)
                     [] m.cls = "VNSOpenTemplate" -> PackFields(SourceFilter, m.list[i])
    IN  PackFields(VNS_MESSAGES[m.cls].format, m.val)
            \o Concat([i \in DOMAIN m.list |-> item(i)]) \o m.data

pack_with_header(m) ==
    LET body == PackBody(m)
    IN  PackFields(<<L("len"), L("type")>>,
                   [len |-> Num(8 + Len(body)), type |-> Num(VNS_MESSAGES[m.cls].type)]) \o body

-----------------------------------------------------------------------------
(* unpack() returns a message, returns None, or raises. *)
Returns(m) == [raises |-> FALSE, msg |-> m]
Raises == [raises |-> TRUE, msg |-> None]

(* The source filters, whole groups of 5 bytes; no filter stands for one   *)
(* that lets everything through.                                           *)
NO_SRC_FILTERS == <<[ip |-> Sym("0.0.0.0", "ip"), mask |-> Num(0)]>>

SrcFilters(b) ==
    LET f == [i \in 1 .. Len(b) \div 5 |-> UnpackFields(b, At(5 * (i - 1), SourceFilter))]
    IN  IF f = <<>> THEN NO_SRC_FILTERS ELSE f

HeaderSize == [c \in DOMAIN VNS_MESSAGES |-> Size(VNS_MESSAGES[c].format)]
HeaderReads == [c \in DOMAIN VNS_MESSAGES |-> At(0, VNS_MESSAGES[c].format)]

UnpackBody(c, body) ==
    LET n == HeaderSize[c]
        rest == From(body, n)
        val == UnpackFields(body, HeaderReads[c])
    IN  CASE c = "VNSHardwareInfo" -> Returns(None)
          [] c \in WholeBody /\ Len(body) # n -> Raises
          [] c # "VNSRtable" /\ Len(body) < n -> Raises
          [] c = "VNSOpenTemplate" /\ \E i \in DOMAIN SrcFilters(rest) :
                    AsNat(SrcFilters(rest)[i].mask) > 32 -> Raises
          [] c = "VNSOpenTemplate" -> Returns(Message(c, val, <<>>, SrcFilters(rest)))
          [] c \in HasData -> Returns(Message(c, val, rest, <<>>))
          [] OTHER -> Returns(Message(c, val, <<>>, <<>>))

unpack_received_msg(type_val, body) ==
    IF \E c \in DOMAIN VNS_MESSAGES : VNS_MESSAGES[c].type = type_val
    THEN UnpackBody(CHOOSE c \in DOMAIN VNS_MESSAGES : VNS_MESSAGES[c].type = type_val, body)
    ELSE Returns(None)

(* The loop of dataReceived: is there a whole frame, and what the only     *)
(* element of Unpacked(b) is: the outcome of unpacking the first one.      *)
LenNeeded(b) == AsNat(ReadField(b, 0, 4))
Complete(b) == Len(b) >= 4 /\ Len(b) >= LenNeeded(b)
Unpacked(b) ==
    {unpack_received_msg(t, body) : t \in {AsNat(ReadField(b, 4, 4))},
                                    body \in {Slice(b, 8, LenNeeded(b))}}
=============================================================================
