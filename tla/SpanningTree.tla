----------------------------- MODULE SpanningTree -----------------------------
(***************************************************************************)
(* openflow.spanning_tree: on every change of the known links a tree of    *)
(* the switches is computed and the ports that lead to switches outside it *)
(* are told not to flood.                                                  *)
(***************************************************************************)
EXTENDS Discovery

CONSTANT Send(_, _, _)   \* Send(st, k, message): send() of connection k

(* One symmetric link for each pair of switches that has one, the first in *)
(* the order of the dictionary: <<s1, s2>> -> port of s1.                  *)
CulledLinks(st) ==
    LET known == DOMAIN st.c.adjacency
        good == {l \in known : flip(l) \in known /\ l[1] < l[3]}
        pairs == {<<l[1], l[3]>> : l \in good}
        cull(first) == [p \in pairs \union {<<q[2], q[1]>> : q \in pairs} |->
                            IF p \in pairs THEN first[p][2] ELSE first[<<p[2], p[1]>>][4]]
    IN  Apply(cull, [p \in pairs |-> Head(InDictOrder(st, {l \in good : <<l[1], l[3]>> = p}))])

(* An assertion fails where a link joins a switch to itself.               *)
SelfLinked(st) == \E l \in DOMAIN st.c.adjacency : l[1] = l[3]

Sorted(S) == [i \in 1 .. Cardinality(S) |-> CHOOSE x \in S : Cardinality({y \in S : y < x}) = i - 1]

(* The walk: q is the queue of switches, newly met ones in front of it;    *)
(* tree holds the edges <<v, w>>, in both directions.                      *)
InTree(tree, w) == \E e \in tree : e[1] = w
EdgesFromDone(adj, v, done, tree) ==
    {w \in {p[2] : p \in {q \in DOMAIN adj : q[1] = v}} : w \notin done}
EdgesFrom(adj, v, done, tree) ==
    {w \in {p[2] : p \in {q \in DOMAIN adj : q[1] = v}} : ~InTree(tree, w)}
RECURSIVE Walk(_, _, _, _)
Walk(adj, q, done, tree) ==
    IF q = <<>> THEN tree
    ELSE IF Head(q) \in done THEN Walk(adj, Tail(q), done, tree)
    ELSE LET v == Head(q)
             visit(new) == Apply(LAMBDA t : Walk(adj, Sorted(new) \o Tail(q), done \union {v}, t),
                                 tree \union {<<v, w>> : w \in new} \union {<<w, v>> : w \in new})
         IN  Apply(visit, EdgesFrom(adj, v, done, tree))

_calc_spanning_tree(st) ==
    LET switches == UNION {{l[1], l[3]} : l \in DOMAIN st.c.adjacency}
        tree(adj) == Apply(LAMBDA t : [e \in t |-> adj[e]], Walk(adj, Sorted(switches), {}, {}))
    IN  Apply(tree, CulledLinks(st))

(* c.prev is the flooding last asked for, n.noflood what the switches are  *)
(* set to.  Only switches of the tree that the nexus has are told, and     *)
(* only what differs from what they were told before.  A send that fails   *)
(* ends a connection, whose links go before the loop goes on with the tree *)
(* it has.                                                                 *)
(*                                                                         *)
(* p.unset: ports that a push passed over, or left set to something else   *)
(* than it wanted; p.overtaken: the links changed during the last push.    *)
NoteSetting(st, end, flood) ==
    [st EXCEPT !.p.unset = IF (end \in st.n.noflood) # flood THEN @ \ {end} ELSE @ \union {end}]

PushPort(st, sw, k, tree_ports, port) ==
    LET end == <<sw, port>>
        flood == port \in tree_ports \/ ~isSwitchOnlyPort(st, sw, port)
        same == end \in DOMAIN st.c.prev /\ st.c.prev[end] = flood
    IN  IF port >= OfppMax THEN st
        ELSE NoteSetting(IF same THEN st
                         ELSE Send([st EXCEPT !.c.prev = (end :> flood) @@ @], k,
                                   [kind |-> "port_mod", port |-> port, flood |-> flood]), end, flood)

PushSwitch(st, sw, ports, tree) ==
    IF sw \notin DOMAIN st.n.con
    THEN [st EXCEPT !.p.unset = @ \union {<<sw, ports[i]>> : i \in DOMAIN ports}]
    ELSE LET tree_ports == {tree[e] : e \in {f \in DOMAIN tree : f[1] = sw}}
             k == st.n.con[sw]
         IN  Each(LAMBDA before, port : PushPort(before, sw, k, tree_ports, port), st, ports)

PushTree(st, ports, tree) ==
    LET pushed == Each(LAMBDA before, sw : PushSwitch(before, sw, ports[sw], tree),
                       st, Sorted({e[1] : e \in DOMAIN tree}))
    IN  Apply(LAMBDA r : [r EXCEPT !.p.overtaken = DOMAIN r.c.adjacency # DOMAIN st.c.adjacency], pushed)

_handle(st, ports) ==
    IF SelfLinked(st) THEN Raises(st)
    ELSE Apply(LAMBDA tree : PushTree(st, ports, tree), _calc_spanning_tree(st))
===============================================================================
