-------------------------------- MODULE L2Multi --------------------------------
(***************************************************************************)
(* forwarding.l2_multi: shortest paths over the links discovery reports,   *)
(* installed as flows on every switch of the path.                         *)
(*                                                                         *)
(* c.switches maps a DPID to the connection of its Switch object; c.ladj   *)
(* is adjacency, <<s1, s2>> -> port of s1 (an entry None is absent);       *)
(* c.path_map maps <<s1, s2>> to [dist, via] (absent where dist is None),  *)
(* empty when it has to be computed; c.mac_map maps an address to          *)
(* <<switch, port>>.  n.flows are the flows in the switches,               *)
(* <<switch, src, dst>> -> output port: a match is told by its addresses.  *)
(***************************************************************************)
EXTENDS SpanningTree

Direct == 0                       \* intermediate None
Multicast == "broadcast"

(* Floyd-Warshall, in the order of the code's three loops.                 *)
_calc_paths(st) ==
    LET sws == Sorted(DOMAIN st.c.switches)
        n == Len(sws)
        start == [p \in {q \in DOMAIN st.c.ladj : q[1] \in DOMAIN st.c.switches} |-> [dist |-> 1, via |-> Direct]]
        own == [p \in {<<sws[i], sws[i]>> : i \in 1 .. n} |-> [dist |-> 0, via |-> Direct]]
        Map[t \in 0 .. n * n * n] ==
            IF t = 0 THEN own @@ start
            ELSE LET m == Map[t - 1]
                     k == sws[1 + ((t - 1) \div (n * n))]
                     i == sws[1 + (((t - 1) \div n) % n)]
                     j == sws[1 + ((t - 1) % n)]
                     both == <<i, k>> \in DOMAIN m /\ <<k, j>> \in DOMAIN m
                     ikj == m[<<i, k>>].dist + m[<<k, j>>].dist
                 IN  IF both /\ (<<i, j>> \in DOMAIN m => ikj < m[<<i, j>>].dist)
                     THEN (<<i, j>> :> [dist |-> ikj, via |-> k]) @@ m
                     ELSE m
    IN  Map[n * n * n]

WithPaths(st) == IF st.c.path_map = <<>> THEN [st EXCEPT !.c.path_map = _calc_paths(st)] ELSE st

(* The switches between src and dst, for a pair that has a path.           *)
_get_raw_path(paths, src, dst) ==
    LET raw[p \in DOMAIN paths] ==
            IF p[1] = p[2] \/ paths[p].via = Direct THEN <<>>
            ELSE raw[<<p[1], paths[p].via>>] \o <<paths[p].via>> \o raw[<<paths[p].via, p[2]>>]
    IN  raw[<<src, dst>>]

NoPath == <<>>
_get_path(st, src, dst, final_port) ==
    LET between == IF src = dst THEN <<>> ELSE _get_raw_path(st.c.path_map, src, dst)
        path == IF src = dst THEN <<src>> ELSE <<src>> \o between \o <<dst>>
    IN  IF src # dst /\ <<src, dst>> \notin DOMAIN st.c.path_map THEN NoPath
        ELSE [i \in DOMAIN path |->
                <<path[i], IF i = Len(path) THEN final_port ELSE st.c.ladj[<<path[i], path[i + 1]>>]>>]

(* The flows of the path from its second switch on, then the first one's,  *)
(* which also releases the frame that came in there.                       *)
_install(st, hop, ev, released) ==
    Send(st, st.c.switches[hop[1]],
         [kind |-> "flow", frame |-> ev.packet, port |-> hop[2], released |-> released, in |-> ev.port])
_install_path(st, path, ev) ==
    Apply(LAMBDA rest : _install(rest, Head(path), ev, TRUE),
          Each(LAMBDA before, hop : _install(before, hop, ev, FALSE), st, Tail(path)))

(* Without a path the sender is told so, which changes nothing here.       *)
install_path(st, dest, ev) ==
    LET ready == IF ev.dpid = dest[1] THEN st ELSE WithPaths(st)
        path == _get_path(ready, ev.dpid, dest[1], dest[2])
    IN  IF path = NoPath THEN ready ELSE _install_path(ready, path, ev)

SwitchPorts(st, sw) == {st.c.ladj[p] : p \in {q \in DOMAIN st.c.ladj : q[1] = sw}}

(* The Switch's own listener, on its connection.                           *)
Learn(st, ev, plain) ==
    LET src == ev.packet.src
    IN  IF src \notin DOMAIN st.c.mac_map \/ plain
        THEN [st EXCEPT !.c.mac_map = (src :> <<ev.dpid, ev.port>>) @@ @] ELSE st
Forward(st, ev) ==
    LET dst == ev.packet.dst
    IN  IF dst = Multicast \/ dst \notin DOMAIN st.c.mac_map
        THEN Send(st, st.c.switches[ev.dpid], [kind |-> "flood", frame |-> ev.packet, in |-> ev.port])
        ELSE install_path(st, st.c.mac_map[dst], ev)

LearnsAnywhere(st, ev) ==
    IF ev.packet.type = "lldp" THEN st ELSE Forward(Learn(st, ev, TRUE), ev)
SwitchPacketIn(st, ev) ==
    IF ev.packet.type = "lldp" THEN st
    ELSE Forward(Learn(st, ev, ev.port \notin SwitchPorts(st, ev.dpid)), ev)

(* Switch.connect: the listeners move from the connection it had.          *)
L2ConnectionUp(st, dpid, k) ==
    LET freed == IF dpid \in DOMAIN st.c.switches
                 THEN removeListeners(st.c.handlers, Con(st.c.switches[dpid])) ELSE st.c.handlers
    IN  listenTo([st EXCEPT !.c.handlers = freed, !.c.switches = (dpid :> k) @@ @],
                 "l2_switch", Con(k), Unspecified)

ClearFlows(st) ==
    Each(LAMBDA before, sw : Send(before, before.c.switches[sw], [kind |-> "clear"]),
         st, Sorted(DOMAIN st.c.switches))

Joined(st, l, a, b) == [st EXCEPT !.c.ladj = (<<l[1], l[3]>> :> a) @@ (<<l[3], l[1]>> :> b) @@ @]
Parted(st, l) == [st EXCEPT !.c.ladj = [p \in DOMAIN @ \ {<<l[1], l[3]>>, <<l[3], l[1]>>} |-> @[p]]]

LinkRemoved(st, l) ==
    LET known == DOMAIN st.c.adjacency
        others == InDictOrder(st, {m \in known : m[1] = l[1] /\ m[3] = l[3] /\ flip(m) \in known})
        parted == Parted(st, l)
    IN  IF others = <<>> THEN parted ELSE Joined(parted, l, others[1][2], others[1][4])

LinkAdded(st, l) ==
    LET joined == IF <<l[1], l[3]>> \notin DOMAIN st.c.ladj /\ flip(l) \in DOMAIN st.c.adjacency
                  THEN Joined(st, l, l[2], l[4]) ELSE st
        bad == {m \in DOMAIN st.c.mac_map : st.c.mac_map[m] \in {<<l[1], l[2]>>, <<l[3], l[4]>>}}
    IN  [joined EXCEPT !.c.mac_map = [m \in DOMAIN @ \ bad |-> @[m]]]

(* The links discovery knows when the flows have been cleared decide: a    *)
(* failing send on the way may have changed them.                          *)
UpdateLinks(st, ev) == IF ev.added THEN LinkAdded(st, ev.link) ELSE LinkRemoved(st, ev.link)
KeepsPaths(st, ev) ==
    IF ~({ev.link[1], ev.link[3]} \subseteq DOMAIN st.c.switches) THEN Raises(st)
    ELSE Apply(LAMBDA cleared : UpdateLinks(cleared, ev), ClearFlows(st))
L2LinkEvent(st, ev) ==
    IF ~({ev.link[1], ev.link[3]} \subseteq DOMAIN st.c.switches) THEN Raises(st)
    ELSE Apply(LAMBDA cleared : UpdateLinks([cleared EXCEPT !.c.path_map = <<>>], ev), ClearFlows(st))
================================================================================
