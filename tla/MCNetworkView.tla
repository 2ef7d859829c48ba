----------------------------- MODULE MCNetworkView -----------------------------
(* Scenarios for the controller's picture of the network: a pair of        *)
(* switches with two cables, a triangle, a line with traffic between two   *)
(* hosts, one switch with hosts that fall silent, foreign LLDP, and the    *)
(* command lines that fail.                                                *)
EXTENDS NetworkView

MayNothing == [leave |-> 0, restart |-> 0, port |-> 0, cut |-> 0, expire |-> 0, foreign |-> 0, tick |-> 0,
               send |-> 0, copy |-> 0, move |-> 0, check |-> 0, quit |-> 0, begun |-> 0, early |-> 0]

Line(order) == [openflow |-> TRUE, order |-> order]
L2First == Line(<<"openflow.discovery", "forwarding.l2_multi", "openflow.spanning_tree">>)
TreeFirst == Line(<<"openflow.discovery", "openflow.spanning_tree", "forwarding.l2_multi">>)

Scenario(cmd, descending, ports, cables, may) ==
    [cmd |-> cmd, descending |-> descending, ports |-> ports, cables |-> cables,
     hosts |-> <<>>, places |-> {}, foreign |-> {}, may |-> may @@ MayNothing]

(* Two cables between two switches.                                        *)
TwoPorts == 1 :> <<1, 2>> @@ 2 :> <<1, 2>>
Parallel == {<<1, 1, 2, 1>>, <<1, 2, 2, 2>>}
Pair == {Scenario(L2First, FALSE, TwoPorts, Parallel, [leave |-> 1, tick |-> 2]),
         Scenario(TreeFirst, TRUE, TwoPorts, Parallel, [leave |-> 1, tick |-> 2]),
         Scenario(TreeFirst, TRUE, TwoPorts, Parallel, [cut |-> 1, tick |-> 3]),
         Scenario(TreeFirst, FALSE, TwoPorts, Parallel, [leave |-> 1, restart |-> 1]),
         Scenario(L2First, TRUE, TwoPorts, {<<1, 1, 2, 1>>}, [leave |-> 1, port |-> 1]),
         Scenario(L2First, TRUE, TwoPorts, {<<1, 1, 2, 1>>}, [port |-> 2, begun |-> 1, early |-> 1])}

(* Three switches in a ring.                                               *)
RingPorts == 1 :> <<1, 2>> @@ 2 :> <<1, 2>> @@ 19 :> <<1, 2>>
Ring == {<<1, 1, 2, 1>>, <<2, 2, 19, 1>>, <<1, 2, 19, 2>>}
Triangle == {Scenario(TreeFirst, FALSE, RingPorts, Ring, may) : may \in {[cut |-> 1, tick |-> 2], [leave |-> 1]}}

(* A line of three switches with a host at either end.                     *)
LinePorts == 1 :> <<1, 3>> @@ 2 :> <<1, 2>> @@ 19 :> <<1, 3>>
LineCables == {<<1, 1, 2, 1>>, <<2, 2, 19, 1>>}
Traffic == {[Scenario(L2First, FALSE, LinePorts, LineCables, may)
              EXCEPT !.hosts = [a |-> <<1, 3>>, b |-> <<19, 3>>], !.places = {<<1, 3>>, <<19, 3>>}] :
            may \in {[send |-> 2, leave |-> 1], [send |-> 2, copy |-> 3],
                     [send |-> 2, copy |-> 1, move |-> 1, expire |-> 1], [send |-> 3, move |-> 1, expire |-> 1]}}

(* One switch; hosts that are only heard of now and then.                  *)
HostPorts == 1 :> <<1, 2, 3>>
Quiet == {[Scenario(Line(<<"openflow.discovery", "host_tracker">>), FALSE, HostPorts, {}, may)
            EXCEPT !.hosts = [a |-> <<1, 1>>, b |-> <<1, 2>>], !.places = {<<1, 3>>}] :
          may \in {[send |-> 3, move |-> 1, check |-> 6, early |-> 1], [send |-> 2, leave |-> 1, check |-> 5, quit |-> 1, early |-> 1]}}

(* LLDP that no switch of ours has sent: at a port of switch 1.            *)
Tlvs(chassis, port, desc) ==
    <<[tlv |-> "chassis_id", subtype |-> chassis[1], id |-> chassis[2]],
      [tlv |-> "port_id", subtype |-> port[1], id |-> port[2]],
      [tlv |-> "ttl", subtype |-> "", id |-> Plain(<<9>>)],
      [tlv |-> "system_description", subtype |-> "", id |-> desc]>>
Lldp(tlvs) == [type |-> "lldp", dst |-> "ndp", parsed |-> TRUE, tlvs |-> tlvs]
Mac2 == <<"mac", Bytes(<<0, 0, 0, 0, 0, 2>>)>>
Port1 == <<"port", Plain(<<1>>)>>
Empty == Plain(<<>>)
ForeignPackets ==
    {Lldp(Tlvs(<<"chassis", Empty>>, Port1, Bytes(<<0, 0, 0, 0, 0, 0, 0, 2>>))),
     Lldp(Tlvs(Mac2, <<"port", Bytes(<<0, 2>>)>>, Empty)),
     Lldp(Tlvs(Mac2, <<"alias", Plain(<<1>>)>>, Empty)),
     Lldp(Tlvs(Mac2, <<"port", Bytes(<<1, 2, 3>>)>>, Empty)),
     Lldp(Tlvs(<<"local", Tagged(<<2>>)>>, Port1, Tagged(<<>>))),
     Lldp(Tlvs(<<"local", Tagged(<<7>>)>>, Port1, Tagged(<<7>>))),
     Lldp(Tlvs(<<"local", Tagged(<<1>>)>>, <<"port", Plain(<<2>>)>>, Tagged(<<1>>))),
     Lldp(<<[tlv |-> "end", subtype |-> "", id |-> Empty]>>),
     Lldp(Tlvs(<<"local", Tagged(<<1>>)>>, Port1, Tagged(<<1>>))),   \* switch 1 to itself
     [Lldp(<<>>) EXCEPT !.parsed = FALSE], [Lldp(<<>>) EXCEPT !.dst = "nearest"]}
Foreign == {[Scenario(TreeFirst, FALSE, TwoPorts, {<<1, 1, 2, 1>>}, [foreign |-> 2, begun |-> 1, early |-> 1])
              EXCEPT !.foreign = {[at |-> <<1, 2>>, packet |-> p] : p \in ForeignPackets}]}

(* Starting without the OpenFlow components, and starts that fail.         *)
Starts == {Scenario(cmd, FALSE, TwoPorts, {<<1, 1, 2, 1>>}, [quit |-> 1, begun |-> 1, early |-> 1]) : cmd \in
    {[openflow |-> FALSE, order |-> <<"openflow.discovery", "openflow.connection_arbiter", "openflow.of_01">>],
     [openflow |-> FALSE, order |-> <<"host_tracker">>],
     [openflow |-> FALSE, order |-> <<"forwarding.l2_multi">>],
     Line(<<"forwarding.l2_multi">>),
     Line(<<"openflow.spanning_tree">>),
     Line(<<"host_tracker", "openflow.nothing">>),
     Line(<<"host_tracker", "host_tracker">>)}}

MCScenarios == Pair \union Triangle \union Traffic \union Quiet \union Foreign \union Starts

MCLinks == {l : l \in Parallel \union {flip(m) : m \in Parallel}} \union {<<19, 1, 2, 2>>}
================================================================================
