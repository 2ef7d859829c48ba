---------------------------- MODULE OpenFlowWire ----------------------------
(***************************************************************************)
(* The wire format of POX's OpenFlow 1.0 library (libopenflow_01.py).      *)
(*                                                                         *)
(* Every class of the library is one definition that records what its four *)
(* methods say of the bytes, each translated on its own:                   *)
(*   pack    the format strings pack() writes, in order;                   *)
(*   unpack  the attributes unpack() reads, with their literal offsets;    *)
(*   min     the length below which unpack() returns without reading;      *)
(*   len     the fixed part of __len__();                                  *)
(* and, for a message, its header_type, the length its constructor stores  *)
(* and whether pack() computes the length again.  An embedded object (the  *)
(* match of a flow_mod, the port of a port_status) contributes its fields. *)
(* show(), __eq__() and the isinstance tests of _assert() are not about    *)
(* bytes: equality is equality of records, and objects are well typed.     *)
(***************************************************************************)
EXTENDS ByteLayout

Struct(min, len, pack, unpack) ==
    [min |-> min, len |-> len, pack |-> pack, unpack |-> unpack]

(* A subclass of ofp_header.  repack says that pack() assigns self.length. *)
Message(type, length, repack, min, len, pack, unpack) ==
    [type |-> type, length |-> length, repack |-> repack,
     min |-> min, len |-> len, pack |-> pack, unpack |-> unpack]

-----------------------------------------------------------------------------
(* Header and common structures. *)

ofp_header ==
    Struct(8, 8, <<B("version"), B("header_type"), H("length"), L("xid")>>,
           At(0, <<B("version"), B("header_type"), H("length"), L("xid")>>))

ofp_phy_port ==
    Struct(48, 48,
      <<H("port_no"), Raw("hw_addr", 6), Raw("name", 16), L("config"), L("state"),
        L("curr"), L("advertised"), L("supported"), L("peer")>>,
      At(0, <<H("port_no")>>) \o At(2, <<Raw("hw_addr", 6)>>)
      \o At(8, <<Raw("name", 16)>>)
      \o At(24, <<L("config"), L("state"), L("curr"), L("advertised"),
                  L("supported"), L("peer")>>))

ofp_queue_prop_header ==
    Struct(8, 8, <<H("property"), H("length"), Pad(4)>>,
           At(0, <<H("property"), H("length")>>))

ofp_queue_prop_min_rate ==
    Struct(16, 16, ofp_queue_prop_header.pack \o <<H("rate"), Pad(6)>>,
           ofp_queue_prop_header.unpack \o At(8, <<H("rate")>>))

(* unpack() does not read the properties that pack() wrote. *)
ofp_packet_queue ==
    Struct(8, 8, <<L("queue_id"), H("length"), Pad(2)>>,
           At(0, <<L("queue_id"), H("length")>>))

(* The match; the values pack() writes are those of module OfpMatch. *)
ofp_match ==
    Struct(40, 40,
      <<L("wildcards"), H("in_port"), Raw("dl_src", 6), Raw("dl_dst", 6),
        H("dl_vlan"), B("dl_vlan_pcp"), Pad(1), H("dl_type"), B("nw_tos"),
        B("nw_proto"), Pad(2), L("nw_src"), L("nw_dst"), H("tp_src"), H("tp_dst")>>,
      At(0, <<L("wildcards"), H("in_port")>>) \o At(6, <<Raw("dl_src", 6)>>)
      \o At(12, <<Raw("dl_dst", 6)>>) \o At(18, <<H("dl_vlan"), B("dl_vlan_pcp")>>)
      \o At(22, <<H("dl_type"), B("nw_tos"), B("nw_proto")>>)
      \o At(28, <<L("nw_src"), L("nw_dst"), H("tp_src"), H("tp_dst")>>))

-----------------------------------------------------------------------------
(* Actions: type and length, then at most three attributes. *)

Action(len, pack, reads) ==
    Struct(len, len, <<H("type"), H("length")>> \o pack,
           At(0, <<H("type"), H("length")>>) \o reads)

ofp_action_header == Action(8, <<Pad(4)>>, <<>>)
ofp_action_output == Action(8, <<H("port"), H("max_len")>>,
                            At(4, <<H("port"), H("max_len")>>))
ofp_action_enqueue == Action(16, <<H("port"), Pad(6), L("queue_id")>>,
                             At(4, <<H("port")>>) \o At(12, <<L("queue_id")>>))
ofp_action_push_mpls == Action(8, <<H("ethertype"), Pad(2)>>, At(4, <<H("ethertype")>>))
ofp_action_mpls_label == Action(8, <<L("mpls_label")>>, At(4, <<L("mpls_label")>>))
ofp_action_mpls_tc == Action(8, <<B("mpls_tc"), Pad(3)>>, At(4, <<B("mpls_tc")>>))
ofp_action_mpls_ttl == Action(8, <<B("mpls_ttl"), Pad(3)>>, At(4, <<B("mpls_ttl")>>))
ofp_action_mpls_dec_ttl == ofp_action_header
ofp_action_resubmit == ofp_action_header
ofp_action_pop_mpls == Action(8, <<H("ethertype"), Pad(2)>>, At(4, <<H("ethertype")>>))
ofp_action_vlan_vid == Action(8, <<H("vlan_vid"), Pad(2)>>, At(4, <<H("vlan_vid")>>))
ofp_action_vlan_pcp == Action(8, <<B("vlan_pcp"), Pad(3)>>, At(4, <<B("vlan_pcp")>>))
ofp_action_dl_addr == Action(16, <<Raw("dl_addr", 6), Pad(6)>>, At(4, <<Raw("dl_addr", 6)>>))
ofp_action_nw_addr == Action(8, <<L("nw_addr")>>, At(4, <<L("nw_addr")>>))
ofp_action_nw_tos == Action(8, <<B("nw_tos"), Pad(3)>>, At(4, <<B("nw_tos")>>))
ofp_action_tp_port == Action(8, <<H("tp_port"), Pad(2)>>, At(4, <<H("tp_port")>>))
ofp_action_vendor_header == Action(8, <<L("vendor")>>, At(4, <<L("vendor")>>))

-----------------------------------------------------------------------------
(* Messages of the session, of the configuration and of the state. *)

ofp_hello == Message(0, 8, FALSE, 8, 8, ofp_header.pack, ofp_header.unpack)

(* unpack() leaves the data of an error in the buffer. *)
ofp_error ==
    Message(1, 8, TRUE, 12, 12, ofp_header.pack \o <<H("type"), H("code")>>,
            ofp_header.unpack \o At(8, <<H("type"), H("code")>>))

ofp_echo_request == Message(2, 8, FALSE, 8, 8, ofp_header.pack, ofp_header.unpack)

ofp_echo_reply == Message(3, 8, FALSE, 8, 8, ofp_header.pack, ofp_header.unpack)

ofp_vendor ==
    Message(4, 12, TRUE, 12, 12, ofp_header.pack \o <<L("vendor")>>,
            ofp_header.unpack \o At(8, <<L("vendor")>>))

(* Never sent as it stands: the constructor's length does not count the    *)
(* vendor word that pack() writes.                                         *)
ofp_vendor_header ==
    Message(4, 8, FALSE, 12, 12, ofp_header.pack \o <<L("vendor")>>,
            ofp_header.unpack \o At(8, <<L("vendor")>>))

ofp_features_request == Message(5, 8, FALSE, 8, 8, ofp_header.pack, ofp_header.unpack)

(* The constructor computes the length, from the ports it is given. *)
ofp_features_reply ==
    Message(6, 32, FALSE, 32, 32,
      ofp_header.pack \o <<Q("datapath_id"), L("n_buffers"), B("n_tables"), Pad(3),
                           L("capabilities"), L("actions")>>,
      ofp_header.unpack \o At(8, <<Q("datapath_id"), L("n_buffers"), B("n_tables")>>)
      \o At(24, <<L("capabilities"), L("actions")>>))

ofp_get_config_request == Message(7, 8, FALSE, 8, 8, ofp_header.pack, ofp_header.unpack)

ofp_get_config_reply ==
    Message(8, 12, FALSE, 12, 12, ofp_header.pack \o <<H("flags"), H("miss_send_len")>>,
            ofp_header.unpack \o At(8, <<H("flags"), H("miss_send_len")>>))

ofp_set_config ==
    Message(9, 12, FALSE, 12, 12, ofp_header.pack \o <<H("flags"), H("miss_send_len")>>,
            ofp_header.unpack \o At(8, <<H("flags"), H("miss_send_len")>>))

ofp_switch_config ==
    Message(9, 12, FALSE, 12, 12, ofp_header.pack \o <<H("flags"), H("miss_send_len")>>,
            ofp_header.unpack \o At(8, <<H("flags"), H("miss_send_len")>>))

ofp_packet_in ==
    Message(10, 8, TRUE, 18, 18,
      ofp_header.pack \o <<L("buffer_id"), H("_total_len"), H("in_port"), B("reason"), Pad(1)>>,
      ofp_header.unpack \o At(8, <<L("buffer_id"), H("_total_len"), H("in_port"), B("reason")>>))

ofp_flow_removed ==
    Message(11, 88, FALSE, 88, 88,
      ofp_header.pack \o ofp_match.pack
      \o <<Q("cookie"), H("priority"), B("reason"), Pad(1), L("duration_sec"),
           L("duration_nsec"), H("idle_timeout"), Pad(2), Q("packet_count"), Q("byte_count")>>,
      ofp_header.unpack \o Shift(8, ofp_match.unpack)
      \o At(8 + ofp_match.len, <<Q("cookie"), H("priority"), B("reason")>>)
      \o At(20 + ofp_match.len, <<L("duration_sec"), L("duration_nsec"), H("idle_timeout")>>)
      \o At(32 + ofp_match.len, <<Q("packet_count"), Q("byte_count")>>))

ofp_port_status ==
    Message(12, 64, FALSE, 64, 64,
      ofp_header.pack \o <<B("reason"), Pad(7)>> \o ofp_phy_port.pack,
      ofp_header.unpack \o At(8, <<B("reason")>>) \o Shift(16, ofp_phy_port.unpack))

ofp_packet_out ==
    Message(13, 8, TRUE, 16, 16,
      ofp_header.pack \o <<L("buffer_id"), H("in_port"), H("actions_len")>>,
      ofp_header.unpack \o At(8, <<L("buffer_id"), H("in_port"), H("actions_len")>>))

ofp_flow_mod ==
    Message(14, 8, TRUE, 72, 32 + ofp_match.len,
      ofp_header.pack \o ofp_match.pack
      \o <<Q("cookie"), H("command"), H("idle_timeout"), H("hard_timeout"), H("priority"),
           L("buffer_id"), H("out_port"), H("flags")>>,
      ofp_header.unpack \o Shift(8, ofp_match.unpack)
      \o At(8 + ofp_match.len,
            <<Q("cookie"), H("command"), H("idle_timeout"), H("hard_timeout"), H("priority"),
              L("buffer_id"), H("out_port"), H("flags")>>))

PortModSwapped ==
    Message(15, 32, FALSE, 32, 32,
      ofp_header.pack \o <<H("port_no"), Raw("hw_addr", 6), L("config"), L("mask"),
                           L("advertise"), Pad(4)>>,
      ofp_header.unpack \o At(8, <<H("port_no")>>) \o At(10, <<Raw("hw_addr", 6)>>)
      \o At(16, <<L("mask"), L("config"), L("advertise")>>))
ofp_port_mod ==
    Message(15, 32, FALSE, 32, 32,
      ofp_header.pack \o <<H("port_no"), Raw("hw_addr", 6), L("config"), L("mask"),
                           L("advertise"), Pad(4)>>,
      ofp_header.unpack \o At(8, <<H("port_no")>>) \o At(10, <<Raw("hw_addr", 6)>>)
      \o At(16, <<L("config"), L("mask"), L("advertise")>>))

ofp_stats_request ==
    Message(16, 8, TRUE, 12, 12, ofp_header.pack \o <<H("type"), H("flags")>>,
            ofp_header.unpack \o At(8, <<H("type"), H("flags")>>))

ofp_stats_reply ==
    Message(17, 8, TRUE, 12, 12, ofp_header.pack \o <<H("type"), H("flags")>>,
            ofp_header.unpack \o At(8, <<H("type"), H("flags")>>))

ofp_barrier_request == Message(18, 8, FALSE, 8, 8, ofp_header.pack, ofp_header.unpack)

ofp_barrier_reply == Message(19, 8, FALSE, 8, 8, ofp_header.pack, ofp_header.unpack)

ofp_queue_get_config_request ==
    Message(20, 12, FALSE, 12, 12, ofp_header.pack \o <<H("port"), Pad(2)>>,
            ofp_header.unpack \o At(8, <<H("port")>>))

(* unpack() does not read the queues that pack() wrote. *)
ofp_queue_get_config_reply ==
    Message(21, 16, FALSE, 16, 16, ofp_header.pack \o <<H("port"), Pad(6)>>,
            ofp_header.unpack \o At(8, <<H("port")>>))

-----------------------------------------------------------------------------
(* Bodies of statistics requests and replies. *)

ofp_desc_stats ==
    Struct(1056, 1056,
      <<Raw("mfr_desc", 256), Raw("hw_desc", 256), Raw("sw_desc", 256),
        Raw("serial_num", 32), Raw("dp_desc", 256)>>,
      At(0, <<Raw("mfr_desc", 256)>>) \o At(256, <<Raw("hw_desc", 256)>>)
      \o At(512, <<Raw("sw_desc", 256)>>) \o At(768, <<Raw("serial_num", 32)>>)
      \o At(800, <<Raw("dp_desc", 256)>>))

ofp_flow_stats_request ==
    Struct(44, 4 + ofp_match.len, ofp_match.pack \o <<B("table_id"), Pad(1), H("out_port")>>,
           ofp_match.unpack \o At(ofp_match.len, <<B("table_id"), B(""), H("out_port")>>))

ofp_flow_stats ==
    Struct(48 + ofp_match.len, 48 + ofp_match.len,
      <<H("length"), B("table_id"), Pad(1)>> \o ofp_match.pack
      \o <<L("duration_sec"), L("duration_nsec"), H("priority"), H("idle_timeout"),
           H("hard_timeout"), Pad(6), Q("cookie"), Q("packet_count"), Q("byte_count")>>,
      At(0, <<H("length"), B("table_id"), B("")>>) \o Shift(4, ofp_match.unpack)
      \o At(4 + ofp_match.len, <<L("duration_sec"), L("duration_nsec"), H("priority"),
                                 H("idle_timeout"), H("hard_timeout")>>)
      \o At(24 + ofp_match.len, <<Q("cookie"), Q("packet_count"), Q("byte_count")>>))

ofp_aggregate_stats_request ==
    Struct(4 + ofp_match.len, 44, ofp_match.pack \o <<B("table_id"), Pad(1), H("out_port")>>,
           ofp_match.unpack \o At(ofp_match.len, <<B("table_id"), B(""), H("out_port")>>))

ofp_aggregate_stats ==
    Struct(24, 24, <<Q("packet_count"), Q("byte_count"), L("flow_count"), Pad(4)>>,
           At(0, <<Q("packet_count"), Q("byte_count"), L("flow_count")>>))

ofp_table_stats ==
    Struct(64, 64,
      <<B("table_id"), Pad(3), Raw("name", 32), L("wildcards"), L("max_entries"),
        L("active_count"), Q("lookup_count"), Q("matched_count")>>,
      At(0, <<B("table_id")>>) \o At(4, <<Raw("name", 32)>>)
      \o At(36, <<L("wildcards"), L("max_entries"), L("active_count"), Q("lookup_count"),
                  Q("matched_count")>>))

ofp_port_stats_request ==
    Struct(8, 8, <<H("port_no"), Pad(6)>>, At(0, <<H("port_no")>>))

ofp_port_stats ==
    LET counters == <<Q("rx_packets"), Q("tx_packets"), Q("rx_bytes"), Q("tx_bytes"),
                      Q("rx_dropped"), Q("tx_dropped"), Q("rx_errors"), Q("tx_errors"),
                      Q("rx_frame_err"), Q("rx_over_err"), Q("rx_crc_err"), Q("collisions")>>
    IN  Struct(104, 104, <<H("port_no"), Pad(6)>> \o counters,
               At(0, <<H("port_no")>>) \o At(8, counters))

ofp_queue_stats_request ==
    Struct(8, 8, <<H("port_no"), Pad(2), L("queue_id")>>,
           At(0, <<H("port_no")>>) \o At(4, <<L("queue_id")>>))

ofp_queue_stats ==
    Struct(32, 32,
      <<H("port_no"), Pad(2), L("queue_id"), Q("tx_bytes"), Q("tx_packets"), Q("tx_errors")>>,
      At(0, <<H("port_no")>>)
      \o At(4, <<L("queue_id"), Q("tx_bytes"), Q("tx_packets"), Q("tx_errors")>>))

-----------------------------------------------------------------------------
(* The data of Nicira's vendor messages (nicira_ext.py). *)

nx_data == Struct(4, 4, <<L("subtype")>>, At(0, <<L("subtype")>>))

role_data ==
    Struct(8, 8, nx_data.pack \o <<L("role")>>, nx_data.unpack \o At(4, <<L("role")>>))
=============================================================================
