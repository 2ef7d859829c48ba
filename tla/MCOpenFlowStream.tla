-------------------------- MODULE MCOpenFlowStream --------------------------
(***************************************************************************)
(* Messages for the stream model: at least one object of every class that  *)
(* either end sends, with lists of ports, actions and statistics, with and *)
(* without trailing bytes.  Contents that no code inspects are symbolic.   *)
(***************************************************************************)
EXTENDS OpenFlowStream

(* What an object is made from: id tells two objects apart, over holds the *)
(* attributes the sender assigns.                                          *)
New(c, id, over, subs, data) == [cls |-> c, id |-> id, over |-> over, subs |-> subs, data |-> data]

none == <<>>
Msg(c, id) == New(c, id, none, <<>>, <<>>)
Data(id, n) == Bytes(Sym(id, "payload"), n)

(* The object as its constructor makes it and the sender completes it.     *)
RECURSIVE Made(_)
Made(new) ==
    LET subs == [i \in DOMAIN new.subs |-> Made(new.subs[i])]
        object(class, made) ==
            [cls |-> new.cls, subs |-> made, data |-> new.data,
             val |-> [f \in {class.pack[k].f : k \in DOMAIN class.pack} \ {""} |->
                CASE f \in DOMAIN new.over -> new.over[f]
                  [] f = "version" -> Num(OFP_VERSION)
                  [] f = "header_type" -> Num(class.type)
                  [] f = "length" /\ "length" \in DOMAIN class -> Num(class.length)
                  [] f = "length" /\ new.cls = "ofp_flow_stats" ->
                        Num(class.len + LenOfAll(made))
                  [] f = "length" /\ "type" \in DOMAIN new.over -> Num(class.len)
                  [] OTHER -> Sym(new.id, f)]]
    IN  Apply(LAMBDA made : Apply(LAMBDA class : object(class, made), Class[new.cls]), subs)

Act(t, c) == New(c, t, "type" :> Num(t), <<>>, <<>>)
Output(p) == New("ofp_action_output", 0, "type" :> Num(0) @@ "port" :> Num(p), <<>>, <<>>)
AllActions ==
    <<Output(2), Act(1, "ofp_action_vlan_vid"), Act(2, "ofp_action_vlan_pcp"),
      Act(3, "ofp_action_header"), Act(4, "ofp_action_dl_addr"), Act(5, "ofp_action_dl_addr"),
      Act(6, "ofp_action_nw_addr"), Act(7, "ofp_action_nw_addr"), Act(8, "ofp_action_nw_tos"),
      Act(9, "ofp_action_tp_port"), Act(10, "ofp_action_tp_port"), Act(11, "ofp_action_enqueue")>>
MplsActions ==
    <<Act(19, "ofp_action_push_mpls"), Act(13, "ofp_action_mpls_label"),
      Act(14, "ofp_action_mpls_tc"), Act(15, "ofp_action_mpls_ttl"),
      Act(16, "ofp_action_mpls_dec_ttl"), Act(20, "ofp_action_pop_mpls"),
      Act(21, "ofp_action_resubmit"), Output(OFPP_CONTROLLER)>>

Port(n) == Msg("ofp_phy_port", n)
FlowStats(id, acts) == New("ofp_flow_stats", id, none, acts, <<>>)
Stats(id, type, bodies) ==
    New("ofp_stats_reply", id, "type" :> Num(type), bodies, <<>>)
Request(id, type, body) ==
    New("ofp_stats_request", id, "type" :> type, body, <<>>)

Nicira(id, data) == New("ofp_vendor", id, "vendor" :> Num(VENDOR_ID), <<data>>, <<>>)
RoleRequest == New("role_request_data", 20, "subtype" :> Num(10), <<>>, <<>>)
RoleReply == New("role_reply_data", 21, "subtype" :> Num(11), <<>>, <<>>)
OtherNicira == New("nx_data", 22, "subtype" :> Num(12), <<>>, <<>>)

ToController ==
    [hello |-> Msg("ofp_hello", 1),
     error |-> New("ofp_error", 2, none, <<>>, Data(2, 3)),
     echo |-> Msg("ofp_echo_request", 3),
     echo_body |-> New("ofp_echo_request", 3, "length" :> Num(12), <<>>, Data(3, 4)),
     echo_reply |-> Msg("ofp_echo_reply", 4),
     vendor |-> New("ofp_vendor", 5, none, <<>>, Data(5, 5)),
     role_reply |-> Nicira(21, RoleReply),
     features |-> New("ofp_features_reply", 6, "length" :> Num(128), <<Port(1), Port(2)>>, <<>>),
     features0 |-> Msg("ofp_features_reply", 6),
     config |-> Msg("ofp_get_config_reply", 7),
     packet_in |-> New("ofp_packet_in", 8, none, <<>>, Data(8, 14)),
     packet_in0 |-> New("ofp_packet_in", 8, "buffer_id" :> Num(-1), <<>>, <<>>),
     flow_removed |-> Msg("ofp_flow_removed", 9),
     port_status |-> Msg("ofp_port_status", 10),
     barrier |-> Msg("ofp_barrier_reply", 11),
     desc |-> Stats(12, 0, <<Msg("ofp_desc_stats", 12)>>),
     flows |-> Stats(13, 1, <<FlowStats(1, AllActions), FlowStats(2, <<>>), FlowStats(3, MplsActions)>>),
     aggregate |-> Stats(14, 2, <<Msg("ofp_aggregate_stats", 14)>>),
     tables |-> Stats(15, 3, <<Msg("ofp_table_stats", 1), Msg("ofp_table_stats", 2)>>),
     port_stats |-> Stats(16, 4, <<Msg("ofp_port_stats", 1), Msg("ofp_port_stats", 2)>>),
     queues |-> Stats(17, 5, <<Msg("ofp_queue_stats", 1), Msg("ofp_queue_stats", 2)>>),
     no_flows |-> Stats(18, 1, <<>>),
     queue_config |-> Msg("ofp_queue_get_config_reply", 19)]

ToSwitch ==
    [hello_s |-> Msg("ofp_hello", 1),
     echo_s |-> New("ofp_echo_reply", 2, "length" :> Num(12), <<>>, Data(2, 4)),
     vendor_s |-> New("ofp_vendor", 3, none, <<>>, Data(3, 5)),
     role_request |-> Nicira(20, RoleRequest),
     other_nicira |-> Nicira(22, OtherNicira),
     features_request |-> Msg("ofp_features_request", 4),
     config_request |-> Msg("ofp_get_config_request", 5),
     set_config |-> Msg("ofp_set_config", 6),
     packet_out |-> New("ofp_packet_out", 7, "buffer_id" :> Num(-1), MplsActions, Data(7, 14)),
     packet_out0 |-> New("ofp_packet_out", 8, none, <<Output(1)>>, <<>>),
     flow_mod |-> New("ofp_flow_mod", 9, "buffer_id" :> Num(-1), AllActions, <<>>),
     flow_mod0 |-> Msg("ofp_flow_mod", 10),
     port_mod |-> Msg("ofp_port_mod", 11),
     desc_request |-> Request(12, None, <<>>),
     flow_request |-> Request(13, None, <<Msg("ofp_flow_stats_request", 13)>>),
     aggregate_request |-> Request(14, None, <<Msg("ofp_aggregate_stats_request", 14)>>),
     port_request |-> Request(15, Num(4), <<Msg("ofp_port_stats_request", 15)>>),
     queue_request |-> Request(16, Num(5), <<Msg("ofp_queue_stats_request", 16)>>),
     barrier_s |-> Msg("ofp_barrier_request", 17),
     queue_config_request |-> Msg("ofp_queue_get_config_request", 18)]

ControlNames == DOMAIN ToController \union DOMAIN ToSwitch
ControlMessage ==
    Apply(LAMBDA new : [k \in DOMAIN new |-> Made(new[k])], ToController @@ ToSwitch)
(* Bound: only these messages are sent behind another one. *)
Following == {"barrier", "flow_removed", "barrier_s", "packet_out0"}
=============================================================================
