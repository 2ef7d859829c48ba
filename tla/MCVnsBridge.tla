----------------------------- MODULE MCVnsBridge -----------------------------
(***************************************************************************)
(* A router, a switch that comes up first with one interface and then with *)
(* three, the first at another port, a port without a name, and the        *)
(* messages that only other VNS clients send.                              *)
(***************************************************************************)
EXTENDS VnsBridge

MCAnnounced == <<[eth1 |-> 1], [eth1 |-> 2, eth2 |-> 1, eth3 |-> 3]>>

Text(s) == [msg |-> Sym(s, "text")]
Filter(m) == [ip |-> Sym("filter", "ip"), mask |-> Num(m)]
Template(list) ==
    Message("VNSOpenTemplate", [template_name |-> Sym("template", "name"),
                                vrhost |-> Sym("template", "host")], <<>>, list)

MCStrays ==
    {Message("VNSClose", Text("bye"), <<>>, <<>>),
     Message("VNSBanner", Text("banner"), <<>>, <<>>),
     Message("VNSRtable", [vrhost |-> Sym("rtable", "host")], Bytes(Sym("rtable", "text"), 3), <<>>),
     Message("VNSHardwareInfo", NoFields, <<>>, <<Interface("eth1")>>),
     Template(<<Filter(24), Filter(32)>>),
     Template(<<Filter(33)>>)}
=============================================================================
