-------------------------- MODULE MCLearningSwitch --------------------------
(* Two hosts behind two ports, two controllers, one for each of the
   components l2_learning and l3_learning; addresses of two bits. *)
EXTENDS LearningSwitch

P(src, dst, type, next, proto, nw_src, nw_dst) ==
    [id |-> 0, src |-> src, dst |-> dst, type |-> type, vlan |-> None, pcp |-> None,
     next |-> next, nw_src |-> nw_src, nw_dst |-> nw_dst, proto |-> proto, tos |-> 0,
     l4 |-> next # "other", tp_src |-> 7, tp_dst |-> 8]

Tcp == [pkt |-> P(1, 2, IP_TYPE, "ipv4", 6, 2, 3), in_port |-> 1]
Arp == [pkt |-> P(2, 1, ARP_TYPE, "arp", 1, 3, 2), in_port |-> 2]
Lldp == [pkt |-> P(1, 9, 35020, "other", 0, 0, 0), in_port |-> 1]
Arriving == {Tcp, Arp, Lldp}

Mod(command, match, priority, actions, overlap) ==
    [type |-> "flow_mod", command |-> command, match |-> match, priority |-> priority,
     actions |-> actions, buffer_id |-> 0, timeout |-> FALSE, check_overlap |-> overlap,
     out_port |-> None, for |-> {}]
Ip == Set(NewMatch, "dl_type", IP_TYPE)
Net == set_nw(Ip, "nw_dst", 2, 1)
Host == set_nw(Ip, "nw_dst", 2, 2)
Mods ==
    {Mod(OFPFC_ADD, Net, 2, output(2), FALSE),
     Mod(OFPFC_ADD, from_packet(Tcp.pkt, 1), 1, output(OFPP_CONTROLLER), FALSE),
     Mod(OFPFC_MODIFY, Host, 2, <<[type |-> "set_dl_dst", dl_addr |-> 1]>> \o output(OFPP_IN_PORT), FALSE),
     Mod(OFPFC_DELETE, Net, 2, <<>>, FALSE),
     Mod(OFPFC_ADD, NewMatch, 2, <<>>, TRUE)}
(* The values of the constants, evaluated once. *)
MCArrivals == Arriving
MCAdminMods == Mods
MCFiltered == {9}
MCMulticast == {9}
MCPorts == {1, 2}
=============================================================================
