---------------------------- MODULE OpenFlowCodec ---------------------------
(***************************************************************************)
(* Packing and unpacking of whole OpenFlow objects: what pack() assigns    *)
(* before it writes, the lists and byte strings that follow the fixed part *)
(* and how unpack() finds them again, and the read loops of the controller *)
(* (of_01.Connection) and of the software switch                           *)
(* (switch_impl.ControllerConnection).                                     *)
(*                                                                         *)
(* An object is [cls, val, subs, data]: the name of its class, the         *)
(* attributes of its fixed part, its list of objects (ports, actions,      *)
(* queues, the objects of a statistics body) and its trailing bytes.       *)
(***************************************************************************)
EXTENDS OpenFlowWire, TLC

OFP_VERSION == 1
OFPP_CONTROLLER == 65533
OFP_PHY_PORT_BYTES == 48

None == <<"none">>

MessageClasses ==
    [ofp_hello |-> ofp_hello, ofp_error |-> ofp_error,
     ofp_echo_request |-> ofp_echo_request, ofp_echo_reply |-> ofp_echo_reply,
     ofp_vendor |-> ofp_vendor, ofp_features_request |-> ofp_features_request,
     ofp_features_reply |-> ofp_features_reply,
     ofp_get_config_request |-> ofp_get_config_request,
     ofp_get_config_reply |-> ofp_get_config_reply,
     ofp_set_config |-> ofp_set_config, ofp_packet_in |-> ofp_packet_in,
     ofp_flow_removed |-> ofp_flow_removed, ofp_port_status |-> ofp_port_status,
     ofp_packet_out |-> ofp_packet_out, ofp_flow_mod |-> ofp_flow_mod,
     ofp_port_mod |-> ofp_port_mod, ofp_stats_request |-> ofp_stats_request,
     ofp_stats_reply |-> ofp_stats_reply, ofp_barrier_request |-> ofp_barrier_request,
     ofp_barrier_reply |-> ofp_barrier_reply,
     ofp_queue_get_config_request |-> ofp_queue_get_config_request,
     ofp_queue_get_config_reply |-> ofp_queue_get_config_reply]

(* Classes that share an OFPT number with another one. *)
OtherClasses ==
    [ofp_switch_config |-> ofp_switch_config, ofp_vendor_header |-> ofp_vendor_header]

StructClasses ==
    [ofp_phy_port |-> ofp_phy_port, ofp_packet_queue |-> ofp_packet_queue,
     ofp_queue_prop_min_rate |-> ofp_queue_prop_min_rate,
     ofp_action_header |-> ofp_action_header, ofp_action_output |-> ofp_action_output,
     ofp_action_enqueue |-> ofp_action_enqueue,
     ofp_action_push_mpls |-> ofp_action_push_mpls,
     ofp_action_mpls_label |-> ofp_action_mpls_label,
     ofp_action_mpls_tc |-> ofp_action_mpls_tc,
     ofp_action_mpls_ttl |-> ofp_action_mpls_ttl,
     ofp_action_mpls_dec_ttl |-> ofp_action_mpls_dec_ttl,
     ofp_action_resubmit |-> ofp_action_resubmit,
     ofp_action_pop_mpls |-> ofp_action_pop_mpls,
     ofp_action_vlan_vid |-> ofp_action_vlan_vid,
     ofp_action_vlan_pcp |-> ofp_action_vlan_pcp,
     ofp_action_dl_addr |-> ofp_action_dl_addr,
     ofp_action_nw_addr |-> ofp_action_nw_addr,
     ofp_action_nw_tos |-> ofp_action_nw_tos,
     ofp_action_tp_port |-> ofp_action_tp_port,
     ofp_action_vendor_header |-> ofp_action_vendor_header,
     ofp_desc_stats |-> ofp_desc_stats,
     ofp_flow_stats_request |-> ofp_flow_stats_request,
     ofp_flow_stats |-> ofp_flow_stats,
     ofp_aggregate_stats_request |-> ofp_aggregate_stats_request,
     ofp_aggregate_stats |-> ofp_aggregate_stats,
     ofp_table_stats |-> ofp_table_stats,
     ofp_port_stats_request |-> ofp_port_stats_request,
     ofp_port_stats |-> ofp_port_stats,
     ofp_queue_stats_request |-> ofp_queue_stats_request,
     ofp_queue_stats |-> ofp_queue_stats,
     nx_data |-> nx_data, role_request_data |-> role_data, role_reply_data |-> role_data]

Class == MessageClasses @@ OtherClasses @@ StructClasses

(* type -> class of make_type_to_class_table(): range(0, max) leaves the   *)
(* class of the highest type out.                                          *)
classes ==
    LET table(type) ==
            LET types == {type[c] : c \in DOMAIN type}
                max == CHOOSE t \in types : \A u \in types : u <= t
            IN  [t \in 0 .. max - 1 |-> CHOOSE c \in DOMAIN type : type[c] = t]
    IN  Apply(table, Apply(LAMBDA m : [c \in DOMAIN m |-> m[c].type], MessageClasses))

_action_map ==
    (0 :> "ofp_action_output") @@ (1 :> "ofp_action_vlan_vid") @@
    (2 :> "ofp_action_vlan_pcp") @@ (4 :> "ofp_action_dl_addr") @@
    (5 :> "ofp_action_dl_addr") @@ (6 :> "ofp_action_nw_addr") @@
    (7 :> "ofp_action_nw_addr") @@ (8 :> "ofp_action_nw_tos") @@
    (9 :> "ofp_action_tp_port") @@ (10 :> "ofp_action_tp_port") @@
    (11 :> "ofp_action_enqueue") @@ (13 :> "ofp_action_mpls_label") @@
    (14 :> "ofp_action_mpls_tc") @@ (15 :> "ofp_action_mpls_ttl") @@
    (16 :> "ofp_action_mpls_dec_ttl") @@ (19 :> "ofp_action_push_mpls") @@
    (20 :> "ofp_action_pop_mpls") @@ (21 :> "ofp_action_resubmit")

(* The OFPST type whose reply body is a list of these objects. *)
stats_class ==
    (0 :> "ofp_desc_stats") @@ (1 :> "ofp_flow_stats") @@ (2 :> "ofp_aggregate_stats") @@
    (3 :> "ofp_table_stats") @@ (4 :> "ofp_port_stats") @@ (5 :> "ofp_queue_stats")

VENDOR_ID == 8992
_nx_subtype_to_type == (10 :> "role_request_data") @@ (11 :> "role_reply_data")

-----------------------------------------------------------------------------
(* pack() *)

RECURSIVE LenOf(_)
RECURSIVE LenOfAll(_)
LenOf(o) == Class[o.cls].len + LenOfAll(o.subs) + Len(o.data)
LenOfAll(s) == IF s = <<>> THEN 0 ELSE LenOf(Head(s)) + LenOfAll(Tail(s))

(* The type a statistics request without one is given from its body. *)
GuessType(o) ==
    CASE o.subs = <<>> /\ o.data = <<>> -> Num(0)
      [] o.subs # <<>> /\ o.subs[1].cls = "ofp_flow_stats_request" -> Num(1)
      [] o.subs # <<>> /\ o.subs[1].cls = "ofp_aggregate_stats_request" -> Num(2)

(* What pack() computes before writing: the length, the length of the      *)
(* actions of a packet_out, the total length of a packet_in, the max_len   *)
(* of an output action, the word for "no buffer".                          *)
Prepared(o) ==
    LET Limited(s) == s.cls = "ofp_action_output" /\ s.val["port"] # Num(OFPP_CONTROLLER)
        subs == [i \in DOMAIN o.subs |->
                   IF Limited(o.subs[i]) THEN [o.subs[i] EXCEPT !.val["max_len"] = Num(0)]
                                         ELSE o.subs[i]]
        Value(f, c, listed) ==
            CASE \/ f = "length" /\ "repack" \in DOMAIN c /\ c.repack
                 \/ f = "_total_len" -> Num(c.len + listed + Len(o.data))
              [] f = "actions_len" -> Num(listed)
              [] f = "buffer_id" /\ o.val[f] = Num(-1) -> Ones
              [] f = "type" /\ o.cls = "ofp_stats_request" /\ o.val[f] = None -> GuessType(o)
              [] OTHER -> o.val[f]
        with(c, listed) ==
            [o EXCEPT !.subs = subs, !.val = [f \in DOMAIN o.val |-> Value(f, c, listed)]]
    IN  Apply(LAMBDA c : Apply(LAMBDA listed : with(c, listed), LenOfAll(o.subs)), Class[o.cls])

RECURSIVE Write(_)
Write(o) ==
    PackFields(Class[o.cls].pack, o.val)
    \o Concat([i \in DOMAIN o.subs |-> Write(o.subs[i])]) \o o.data

pack(o) == Write(Prepared(o))

-----------------------------------------------------------------------------
(* unpack() *)

UnpackStruct(c, b) ==
    [cls |-> c, subs |-> <<>>, data |-> <<>>,
     val |-> Apply(LAMBDA v : [f \in DOMAIN v |->
                        IF f = "buffer_id" /\ v[f] = Ones THEN Num(-1) ELSE v[f]],
                   UnpackFields(b, Class[c].unpack))]

ActionClass(t) == IF t \in DOMAIN _action_map THEN _action_map[t] ELSE "ofp_action_header"

(* _unpack_actions(b, length, offset): the loop from offset to end, and    *)
(* whether its assertion on the length of every action held.               *)
RECURSIVE ActionLoop(_, _, _)
ActionLoop(b, offset, end) ==
    LET length == AsNat(ReadField(b, offset + 2, 2))
        ended(ok) == [subs |-> <<>>, offset |-> offset, ok |-> ok]
    IN  IF offset >= end \/ Len(b) - offset < length THEN ended(TRUE)
        ELSE Apply(LAMBDA c :
                     IF Class[c].len # length THEN ended(FALSE)
                     ELSE Apply(LAMBDA r : [r EXCEPT !.subs =
                                   <<UnpackStruct(c, Slice(b, offset, offset + length))>> \o @],
                                ActionLoop(b, offset + length, end)),
                   ActionClass(AsNat(ReadField(b, offset, 2))))

_unpack_actions(b, length, offset) ==
    IF Len(b) - offset < length THEN [subs |-> <<>>, offset |-> offset, ok |-> TRUE]
    ELSE ActionLoop(b, offset, length + offset)

(* Where the actions of a flow_mod, a flow entry and a packet_out begin,   *)
(* behind the match of the first two, and how many bytes they take.        *)
ActionsOffset(o) ==
    CASE o.cls = "ofp_flow_mod" -> 32 + ofp_match.len
      [] o.cls = "ofp_flow_stats" -> 48 + ofp_match.len
      [] o.cls = "ofp_packet_out" -> 16
ActionsLength(o) ==
    IF o.cls = "ofp_packet_out" THEN AsNat(o.val["actions_len"])
                                ELSE AsNat(o.val["length"]) - ActionsOffset(o)

(* The list and the bytes behind the fixed part of object o, read from b   *)
(* (the whole receive buffer, which may go on behind the message).         *)
UnpackTail(o, b) ==
    LET length == AsNat(o.val["length"])
        Rest(off) == [subs |-> <<>>, data |-> Slice(b, off, length), ok |-> TRUE]
        Behind(a) ==
            [subs |-> a.subs,
             data |-> IF o.cls = "ofp_packet_out" THEN Slice(b, a.offset, length) ELSE <<>>,
             ok |-> a.ok /\ (o.cls = "ofp_packet_out" \/ a.offset = length)]
    IN  CASE o.cls = "ofp_features_reply" ->
               [subs |-> [i \in 1 .. (length - 32) \div OFP_PHY_PORT_BYTES |->
                   UnpackStruct("ofp_phy_port", From(b, 32 + (i - 1) * OFP_PHY_PORT_BYTES))],
                data |-> <<>>, ok |-> TRUE]
          [] o.cls \in {"ofp_flow_mod", "ofp_flow_stats", "ofp_packet_out"} ->
               Apply(Behind, _unpack_actions(b, ActionsLength(o), ActionsOffset(o)))
          [] o.cls = "ofp_packet_in" -> Rest(18)
          [] o.cls \in {"ofp_echo_request", "ofp_echo_reply"} -> Rest(8)
          [] o.cls \in {"ofp_stats_request", "ofp_stats_reply", "ofp_vendor"} -> Rest(12)
          [] OTHER -> [subs |-> <<>>, data |-> <<>>, ok |-> TRUE]

(* c().unpack(b); a buffer that is too short leaves the object as c()      *)
(* made it, which is written here as an object without attributes.         *)
unpack(c, b) ==
    IF Len(b) < Class[c].min
    THEN [ok |-> TRUE, obj |-> [cls |-> c, val |-> <<>>, subs |-> <<>>, data |-> <<>>]]
    ELSE Apply(LAMBDA o : Apply(LAMBDA t : [ok |-> t.ok, obj |-> [o EXCEPT !.subs = t.subs, !.data = t.data]],
                                UnpackTail(o, b)),
               UnpackStruct(c, b))

BodyConsumedFixed(o) == Class[o.cls].len
(* How far unpack() moves in a statistics body. *)
Consumed(o) == IF o.cls = "ofp_flow_stats" THEN AsNat(o.val["length"]) ELSE Class[o.cls].len

(* _processStatsBody: the objects of class c in a body. *)
RECURSIVE _processStatsBody(_, _)
_processStatsBody(body, c) ==
    IF body = <<>> THEN <<>>
    ELSE Apply(LAMBDA u : IF ~ u.ok \/ Consumed(u.obj) = 0 THEN <<None>>
                          ELSE <<u.obj>> \o _processStatsBody(From(body, Consumed(u.obj)), c),
               unpack(c, body))

(* unpack_vendor_data_nx: raises on short data and unknown subtypes. *)
unpack_vendor_data_nx(data) ==
    LET subtype == AsNat(UnpackFields(data, nx_data.unpack)["subtype"])
    IN  IF Len(data) < 4 \/ subtype \notin DOMAIN _nx_subtype_to_type
        THEN [ok |-> FALSE, obj |-> None]
        ELSE unpack(_nx_subtype_to_type[subtype], data)

-----------------------------------------------------------------------------
(* NXSwitchImpl._receive_vendor: `except NotImplemented' names no class of *)
(* exceptions, so that those of unpack_vendor_data_nx() pass.              *)
VendorHandlerRaises(o) ==
    o.val["vendor"] = Num(VENDOR_ID) /\ ~ unpack_vendor_data_nx(o.data).ok

(* The handler for message o in the software switch raises: there is none, *)
(* or it is for statistics the switch cannot compute.                      *)
SwitchHandlerRaises(o) ==
    \/ o.cls = "ofp_vendor" /\ VendorHandlerRaises(o)
    \/ o.cls \in {"ofp_port_mod", "ofp_queue_get_config_request"}
    \/ o.cls = "ofp_stats_request" /\ o.val["type"] # Num(0)

(* The condition of both loops: more than a type and a length is there. *)
LoopNeedsWholeHeader(b) == Len(b) > 8
MoreToRead(b) == Len(b) > 4

TypeOf(b) == AsNat(ReadField(b, 1, 1))
LengthOf(b) == AsNat(ReadField(b, 2, 2))

(* The loop of Connection.read and of ControllerConnection.read on the     *)
(* receive buffer b: the messages handed to their handlers, what is left   *)
(* of the buffer, whether the connection survives.  An exception in a      *)
(* handler ends the loop of the switch; the controller's loop goes on.  A  *)
(* message of another version closes the controller's connection and stays *)
(* in the buffer of the switch, whose caller ignores the FALSE it is given.*)
Ends(b, ok) == [buf |-> b, msgs |-> <<>>, ok |-> ok, raised |-> FALSE]

RECURSIVE ReadLoop(_, _)
ReadLoop(b, reader) ==
    IF ~ MoreToRead(b) THEN Ends(b, TRUE)
    ELSE IF ReadField(b, 0, 1) # Num(OFP_VERSION) THEN Ends(b, reader = "switch")
    ELSE IF LengthOf(b) > Len(b) THEN Ends(b, TRUE)
    ELSE IF TypeOf(b) \notin DOMAIN classes THEN Ends(b, FALSE)
    ELSE Apply(LAMBDA u :
                 IF ~ u.ok THEN Ends(b, FALSE)
                 ELSE IF reader = "switch" /\ SwitchHandlerRaises(u.obj)
                 THEN [Ends(From(b, LengthOf(b)), TRUE) EXCEPT !.msgs = <<u.obj>>, !.raised = TRUE]
                 ELSE Apply(LAMBDA r : [r EXCEPT !.msgs = <<u.obj>> \o @],
                            ReadLoop(From(b, LengthOf(b)), reader)),
               unpack(classes[TypeOf(b)], b))
=============================================================================
