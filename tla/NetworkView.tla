------------------------------ MODULE NetworkView ------------------------------
(***************************************************************************)
(* The controller's picture of the network: pox.py starts the components,  *)
(* switches join and leave, discovery finds the links between them, and    *)
(* spanning_tree, l2_multi and host_tracker keep their own state in step   *)
(* through events.  Around the controller: the switches (their flooding    *)
(* and flows), the cables and the hosts.                                   *)
(*                                                                         *)
(* A switch applies what it is sent at once; at most one LLDP packet is    *)
(* between two switches at a time; a host answers an ARP request before    *)
(* the next firing of host_tracker's timer (4 and 5 seconds in the code).  *)
(***************************************************************************)
EXTENDS Discovery

CONSTANTS Scenarios, \* [cmd, descending, ports, cables, hosts, places, foreign, may]: what
                     \* is started, walked, wired and plugged in, and how often each
                     \* disturbance may happen
          Links,     \* the links whose discovery is followed
          ArpAware, ArpSilent, EntryMove, PingLim   \* host_tracker's, see HostTracker

ASSUME TimeoutsOrdered == /\ {ArpAware, ArpSilent, EntryMove, PingLim} \subseteq Nat
                          /\ EntryMove <= ArpAware /\ ArpAware <= ArpSilent

VARIABLES scenario,
          phase,     \* of main: args, launch, post, started, up, exited, down
          next,      \* the component doLaunch launches next
          ctl,       \* the controller: components, handlers and the state of each component
          net,       \* nexus, connections and switches, cables, packets on the way, pings
          past,      \* what the properties remember: [broken, unset, overtaken, astray, misled]
          left,      \* disturbances left
          kept       \* hosts that host_tracker has no reason to forget

vars == <<scenario, phase, next, ctl, net, past, left, kept>>

State == [c |-> ctl, n |-> net, p |-> past, rv |-> EventContinue, raised |-> FALSE]
Becomes(new) == \E st \in {new} : ctl' = st.c /\ net' = st.n /\ past' = st.p

AllPorts == UNION {{<<s, scenario.ports[s][i]>> : i \in DOMAIN scenario.ports[s]} : s \in DOMAIN scenario.ports}

FarEnds(n, end) == {<<l[3], l[4]>> : l \in {m \in n.cables \union {flip(c) : c \in n.cables} :
                                               <<m[1], m[2]>> = end}}

(***************************************************************************)
(* Connections.  n.line numbers the Connection objects, [dpid, up, peer]:  *)
(* up once ConnectionUp was raised; the peer is here, gone (the switch     *)
(* hung up and of_01's task has not read that: what is sent is lost),      *)
(* closed (it has: sending fails) or dead (disconnected: nothing is sent). *)
(* n.con is the nexus: DPID -> number.                                     *)
(***************************************************************************)
LinesOf(n, s) == {k \in DOMAIN n.line : n.line[k].dpid = s}
Newest(n, s) == CHOOSE k \in LinesOf(n, s) : \A j \in LinesOf(n, s) : j <= k
Live(n, s) == LinesOf(n, s) # {} /\ n.line[Newest(n, s)].peer = "here"

(* A frame leaves switch s by the given ports, never by the one it came in *)
(* at; n.copies are the frames on cables.                                  *)
Out(n, s, ports, in, frame) ==
    LET ends == {<<s, p>> : p \in ports \ {in}} \ n.gone
    IN  IF scenario.may.copy = 0 THEN n
        ELSE [n EXCEPT !.copies = @ \union {[at |-> e, frame |-> frame] : e \in UNION {FarEnds(n, d) : d \in ends}}]

PortsOf(s) == {e[2] : e \in {d \in AllPorts : d[1] = s}}

(* What switch s does with a message.  p.misled: flows installed towards a *)
(* host of p.astray (see CopyArrives).                                     *)
Applied(st, s, m) ==
    CASE m.kind = "port_mod" ->
            [st EXCEPT !.n.noflood = IF m.flood THEN @ \ {<<s, m.port>>} ELSE @ \union {<<s, m.port>>}]
      [] m.kind = "clear" -> [st EXCEPT !.n.flows = [k \in {f \in DOMAIN @ : f[1] # s} |-> @[k]]]
      [] m.kind = "flow" ->
            LET key == <<s, m.frame.src, m.frame.dst>>
                flows == [st EXCEPT !.n.flows = (key :> m.port) @@ @,
                                    !.p.misled = IF m.frame.dst \in st.p.astray THEN @ \union {key} ELSE @ \ {key}]
            IN  IF m.released THEN [flows EXCEPT !.n = Out(@, s, {m.port}, m.in, m.frame)] ELSE flows
      [] m.kind = "flood" ->
            [st EXCEPT !.n = Out(@, s, {p \in PortsOf(s) : <<s, p>> \notin st.n.noflood}, m.in, m.frame)]
      [] m.kind = "lldp" ->
            [st EXCEPT !.n.wire = {[at |-> e, packet |-> create_discovery_packet(s, m.port)] :
                                     e \in IF <<s, m.port>> \in st.n.gone THEN {} ELSE FarEnds(st.n, <<s, m.port>>)}]
      [] m.kind = "ping" -> [st EXCEPT !.n.pings = @ \union {<<s, m.port, m.mac, m.ip>>}]

(***************************************************************************)
(* Events, and sending: a send that fails disconnects, which raises        *)
(* ConnectionDown within the handler that sends.                           *)
(***************************************************************************)
RECURSIVE send(_, _, _)

L2 == INSTANCE L2Multi WITH Send <- send
Tracker == INSTANCE HostTracker WITH Send <- send

LinkListeners(st, h, ev) ==
    CASE h[1] = "spanning_tree" -> L2!_handle(st, scenario.ports)
      [] h[1] = "l2_multi" -> L2!L2LinkEvent(st, ev)

LinkSource == INSTANCE ReventRaise WITH Invoke <- LinkListeners

LinkEvent(st, added, link) ==
    Apply(LAMBDA r : [r EXCEPT !.p.broken = @ \/ r.raised],
          LinkSource!raiseEvent(st, OpenFlowDiscovery,
                     [type |-> "LinkEvent", added |-> added, link |-> link]))

Linking == INSTANCE DiscoveryEvents WITH RaiseLinkEvent <- LinkEvent

NexusListeners(st, h, ev) ==
    CASE h = <<"discovery", "ConnectionUp">> -> DiscoveryConnectionUp(st, ev.dpid, scenario.ports[ev.dpid])
      [] h = <<"discovery", "ConnectionDown">> -> Linking!DiscoveryConnectionDown(st, ev.dpid)
      [] h = <<"discovery", "PortStatus">> -> DiscoveryPortStatus(st, ev)
      [] h = <<"discovery", "PacketIn">> -> Linking!DiscoveryPacketIn(st, ev)
      [] h = <<"l2_multi", "ConnectionUp">> -> L2!L2ConnectionUp(st, ev.dpid, ev.con)
      [] h = <<"host_tracker", "PacketIn">> -> Tracker!HostPacketIn(st, ev)

NexusSource == INSTANCE ReventRaise WITH Invoke <- NexusListeners

(* Whichever connection of the DPID the nexus has, it goes; ConnectionDown *)
(* is raised on the nexus and not on the connection.                       *)
disconnect(st, k) ==
    LET dpid == st.n.line[k].dpid
    IN  NexusSource!raiseEventNoErrors(
            [st EXCEPT !.n.line[k].peer = "dead", !.n.con = [s \in DOMAIN @ \ {dpid} |-> @[s]]],
            OpenFlow, [type |-> "ConnectionDown", dpid |-> dpid])

send(st, k, message) ==
    CASE st.n.line[k].peer = "here" -> Applied(st, st.n.line[k].dpid, message)
      [] st.n.line[k].peer = "closed" -> disconnect(st, k)
      [] OTHER -> st

sendToDPID(st, dpid, message) == IF dpid \in DOMAIN st.n.con THEN send(st, st.n.con[dpid], message) ELSE st

ConListeners(st, h, ev) ==
    CASE h = <<"l2_switch", "PacketIn">> -> L2!SwitchPacketIn(st, ev)

ConSource == INSTANCE ReventRaise WITH Invoke <- ConListeners

(* The handlers of of_01 raise an event on the nexus, then on the          *)
(* connection.                                                             *)
OnBoth(st, ev) ==
    ConSource!raiseEventNoErrors(NexusSource!raiseEventNoErrors(st, OpenFlow, ev), Con(ev.con), ev)

(* The nexus disconnects everybody it has when this begins.                *)
DisconnectAll(st) ==
    Each(LAMBDA before, s : disconnect(before, st.n.con[s]), st, L2!Sorted(DOMAIN st.n.con))

CoreListeners(st, h, ev) ==
    CASE h = <<"discovery", "ComponentRegistered">> -> _handle_ComponentRegistered(st, ev)
      [] h = <<"host_tracker", "GoingUpEvent">> ->
            LET nexus == Attribute(st, "openflow")
            IN  Then(nexus, listenTo(nexus, "host_tracker", OpenFlow, Unspecified))
      [] h = <<"nexus", "DownEvent">> -> DisconnectAll(st)

Pox == INSTANCE PoxCore WITH Invoke <- CoreListeners

(***************************************************************************)
(* Starting and stopping                                                   *)
(***************************************************************************)
Init ==
    /\ scenario \in Scenarios
    /\ phase = "args"
    /\ next = 1
    /\ ctl = [components |-> {}, handlers |-> <<>>, descending |-> scenario.descending,
              dps |-> {}, adjacency |-> <<>>, packets |-> <<>>, expiring |-> FALSE,
              prev |-> <<>>,
              switches |-> <<>>, ladj |-> <<>>, path_map |-> <<>>, mac_map |-> <<>>,
              hosts |-> <<>>, checking |-> FALSE]
    /\ net = [line |-> <<>>, con |-> <<>>, noflood |-> {}, flows |-> <<>>, cables |-> scenario.cables,
              gone |-> {}, wire |-> {}, copies |-> {}, places |-> scenario.hosts, pings |-> {}]
    /\ past = [broken |-> FALSE, unset |-> {}, overtaken |-> FALSE, astray |-> {}, misled |-> {}]
    /\ left = scenario.may
    /\ kept = [heard |-> {}, unsettled |-> {}]

Running == phase \in {"started", "up"}

PreStartup ==
    /\ phase = "args"
    /\ phase' = "launch"
    /\ Becomes(Pox!pre_startup(State, scenario.cmd))
    /\ UNCHANGED <<scenario, next, left, kept>>

Launch ==
    /\ phase = "launch"
    /\ next <= Len(scenario.cmd.order)
    /\ LET r == Pox!doLaunch(State, scenario.cmd, next)
       IN  Becomes(r.st) /\ phase' = IF r.ok THEN "launch" ELSE "exited"
    /\ next' = next + 1
    /\ UNCHANGED <<scenario, left, kept>>

PostStartup ==
    /\ phase = "launch"
    /\ next > Len(scenario.cmd.order)
    /\ phase' = "started"
    /\ Becomes(Pox!post_startup(State, scenario.cmd))
    /\ UNCHANGED <<scenario, next, left, kept>>

GoUp ==
    /\ phase = "started"
    /\ LET st == Pox!goUp(State)
       IN  Becomes(st) /\ phase' = IF st.raised THEN "exited" ELSE "up"
    /\ UNCHANGED <<scenario, next, left, kept>>

(* A disturbance, as long as the scenario has one left.  A scenario whose  *)
(* may.begun is 0 lets them, and the sending of LLDP, begin when all the   *)
(* switches have joined for the first time; one whose may.early is 0 lets  *)
(* switches join when core is up, though they may before.                  *)
Begun == left.begun = 1
Spend(what) == Begun /\ left[what] > 0 /\ left' = [left EXCEPT ![what] = @ - 1]

Quit ==
    /\ phase = "up"
    /\ Spend("quit")
    /\ phase' = "down"
    /\ Becomes(Pox!quit(State))
    /\ UNCHANGED <<scenario, next, kept>>

(***************************************************************************)
(* Switches.  A switch is in the nexus from its features reply on and      *)
(* announced when the barrier has come back.                               *)
(***************************************************************************)
UpAt(k) == net.line[k].up
SwitchJoins(s) ==   \* in the order of their numbers, to bound the orders
    /\ Running /\ (phase = "up" \/ left.early = 1) /\ {"of_01", "openflow"} \subseteq ctl.components
    /\ s \in DOMAIN scenario.ports /\ ~Live(net, s)
    /\ \A t \in DOMAIN scenario.ports : t < s => LinesOf(net, t) # {}
    /\ Begun \/ \A k \in DOMAIN net.line : UpAt(k)
    /\ Becomes([Applied(State, s, [kind |-> "clear"]) EXCEPT
                    !.n.line = Append(@, [dpid |-> s, up |-> FALSE, peer |-> "here"]),
                    !.n.con = (s :> Len(net.line) + 1) @@ @])
    /\ UNCHANGED <<scenario, phase, next, left, kept>>

HandshakeDone(k) ==
    /\ Running
    /\ ~UpAt(k) /\ net.line[k].peer \in {"here", "gone"}
    /\ Becomes(OnBoth([State EXCEPT !.n.line[k].up = TRUE],
                      [type |-> "ConnectionUp", dpid |-> net.line[k].dpid, con |-> k]))
    /\ left' = IF \A t \in DOMAIN scenario.ports \ {net.line[k].dpid} : \E j \in LinesOf(net, t) : UpAt(j)
               THEN [left EXCEPT !.begun = 1] ELSE left
    /\ UNCHANGED <<scenario, phase, next, kept>>

HostsAt(s) == {h \in DOMAIN net.places : net.places[h][1] = s}

SwitchHangsUp(s) ==
    /\ Running /\ Live(net, s)
    /\ Spend("leave")
    /\ net' = [net EXCEPT !.line[Newest(net, s)].peer = "gone"]
    /\ kept' = [kept EXCEPT !.unsettled = @ \union HostsAt(s)]
    /\ UNCHANGED <<scenario, phase, next, ctl, past>>

(* The task reads the end of the stream and closes the socket: nobody is   *)
(* told.                                                                   *)
ReadEnd(k) ==
    /\ Running /\ net.line[k].peer = "gone"
    /\ net' = [net EXCEPT !.line[k].peer = "closed"]
    /\ UNCHANGED <<scenario, phase, next, ctl, past, left, kept>>

(* A switch that was switched off and on knows neither flows nor NO_FLOOD. *)
SwitchRestarts(s) ==
    /\ Running /\ LinesOf(net, s) # {} /\ ~Live(net, s)
    /\ Spend("restart")
    /\ LET forgot == {e \in net.noflood : e[1] = s}
       IN  Becomes([Applied(State, s, [kind |-> "clear"]) EXCEPT !.n.noflood = @ \ forgot, !.p.unset = @ \union forgot])
    /\ UNCHANGED <<scenario, phase, next, kept>>

(* A port that comes back is announced, as is one that is only modified.   *)
PortStatus(s, p, reason) ==
    /\ Running /\ Live(net, s) /\ <<s, p>> \in AllPorts
    /\ (reason = "add") <=> <<s, p>> \in net.gone
    /\ Spend("port")
    /\ Becomes(OnBoth([State EXCEPT !.n.gone = IF reason = "add" THEN @ \ {<<s, p>>}
                                              ELSE IF reason = "delete" THEN @ \union {<<s, p>>} ELSE @],
                      [type |-> "PortStatus", dpid |-> s, con |-> Newest(net, s), port |-> p, reason |-> reason]))
    /\ UNCHANGED <<scenario, phase, next, kept>>

CableFails(l) ==
    /\ Running /\ l \in net.cables
    /\ Spend("cut")
    /\ net' = [net EXCEPT !.cables = @ \ {l}, !.wire = {}]
    /\ UNCHANGED <<scenario, phase, next, ctl, past, kept>>

FlowExpires(k) ==
    /\ Running /\ k \in DOMAIN net.flows
    /\ Spend("expire")
    /\ net' = [net EXCEPT !.flows = [f \in DOMAIN @ \ {k} |-> @[f]]]
    /\ UNCHANGED <<scenario, phase, next, ctl, past, kept>>

(***************************************************************************)
(* Discovery at work                                                       *)
(***************************************************************************)
Connects(l) == l \in net.cables \/ flip(l) \in net.cables

LldpTimer ==
    /\ Running /\ Begun /\ ctl.packets # <<>> /\ net.wire = {}
    /\ UNCHANGED <<scenario, phase, next, left, kept>>
    /\ LET item == Head(ctl.packets)
       IN  Becomes(sendToDPID(_timerHandler(State), item[1], [kind |-> "lldp", port |-> item[2]]))

PacketIn(st, end, packet) ==
    IF ~Live(st.n, end[1]) THEN st
    ELSE OnBoth(st, [type |-> "PacketIn", dpid |-> end[1], con |-> Newest(st.n, end[1]), port |-> end[2],
                     packet |-> packet])

LldpArrives ==
    /\ Running
    /\ UNCHANGED <<scenario, phase, next, left, kept>>
    /\ \E w \in net.wire : Becomes(PacketIn([State EXCEPT !.n.wire = {}], w.at, w.packet))

(* LLDP of other devices, in the forms the handler knows and does not.     *)
ForeignLldp ==
    /\ Running
    /\ Spend("foreign")
    /\ \E f \in scenario.foreign : Live(net, f.at[1]) /\ Becomes(PacketIn(State, f.at, f.packet))
    /\ UNCHANGED <<scenario, phase, next, kept>>

(* An exception that leaves a timer's function ends the timer.             *)
ExpireLinks ==
    /\ Running /\ ctl.expiring
    /\ Spend("tick")
    /\ LET st == Linking!_expireLinks(State)
       IN  Becomes([st EXCEPT !.c.expiring = ~st.raised])
    /\ UNCHANGED <<scenario, phase, next, kept>>

(***************************************************************************)
(* Hosts                                                                   *)
(***************************************************************************)
Frame(type, h, dst) == [type |-> type, src |-> h, dst |-> dst, srcip |-> h]

Learned(h) == h \in DOMAIN ctl.hosts /\ h \in DOMAIN ctl.hosts[h].ips
Hears(h, type) ==
    IF phase = "up" /\ type = "arp" THEN [kept EXCEPT !.heard = @ \union {h}]
    ELSE IF Learned(h) THEN kept ELSE [kept EXCEPT !.unsettled = @ \union {h}]

(* A frame comes in at a switch: a flow sends it on, or the controller     *)
(* gets it.                                                                *)
Receives(st, end, frame) ==
    LET key == <<end[1], frame.src, frame.dst>>
    IN  IF key \in DOMAIN st.n.flows THEN [st EXCEPT !.n = Out(@, end[1], {st.n.flows[key]}, end[2], frame)]
        ELSE PacketIn(st, end, frame)

(* l2_multi has the host at the given place.                               *)
Believes(st, h, end) == h \in DOMAIN st.c.mac_map /\ st.c.mac_map[h] = end

(* A frame of the host itself; only broadcast ones are ARP.                *)
FromHost(st, h, type, dst) ==
    Apply(LAMBDA r : IF Believes(r, h, net.places[h]) THEN [r EXCEPT !.p.astray = @ \ {h}] ELSE r,
          Receives(st, net.places[h], Frame(type, h, dst)))

HostSends(h, dst) ==
    LET type == IF dst = L2!Multicast THEN "arp" ELSE "ip"
        known == <<net.places[h][1], h, dst>> \in DOMAIN net.flows
    IN  /\ Running /\ (Live(net, net.places[h][1]) \/ known)
        /\ h # dst
        /\ Spend("send")
        /\ Becomes(FromHost(State, h, type, dst))
        /\ kept' = IF known THEN kept ELSE Hears(h, type)
        /\ UNCHANGED <<scenario, phase, next>>

(* A frame arrives over a cable.  Where l2_multi does not know its host    *)
(* yet, or does not know that the port leads to a switch, the host is      *)
(* taken to be at that port: it is astray until it is heard at its place.  *)
CopyArrives(x) ==
    LET h == x.frame.src
        new == h \notin DOMAIN ctl.mac_map \/ x.at[2] \notin L2!SwitchPorts(State, x.at[1])
    IN  /\ Running
        /\ Spend("copy")
        /\ Becomes(Apply(LAMBDA r : IF new /\ Believes(r, h, x.at) THEN [r EXCEPT !.p.astray = @ \union {h}] ELSE r,
                         Receives([State EXCEPT !.n.copies = @ \ {x}], x.at, x.frame)))
        /\ kept' = IF isSwitchOnlyPort(State, x.at[1], x.at[2]) THEN kept
                   ELSE [kept EXCEPT !.unsettled = @ \union {h}]
        /\ UNCHANGED <<scenario, phase, next>>

HostMoves(h, place) ==
    /\ Running /\ place # net.places[h]
    /\ Spend("move")
    /\ net' = [net EXCEPT !.places[h] = place]
    /\ kept' = [kept EXCEPT !.unsettled = @ \union {h}]
    /\ UNCHANGED <<scenario, phase, next, ctl, past>>

(* An ARP request reaches the port it was sent to; the host there answers. *)
PingAnswered ==
    /\ Running
    /\ \E g \in net.pings :
          LET st == [State EXCEPT !.n.pings = @ \ {g}]
          IN  Becomes(IF net.places[g[3]] = <<g[1], g[2]>> THEN FromHost(st, g[3], "arp", L2!Multicast) ELSE st)
    /\ UNCHANGED <<scenario, phase, next, left, kept>>

CheckTimeouts ==
    /\ Running /\ ctl.checking /\ net.pings = {}
    /\ Spend("check")
    /\ LET st == Tracker!_check_timeouts(State)
       IN  Becomes([st EXCEPT !.c.checking = ~st.raised])
    /\ UNCHANGED <<scenario, phase, next, kept>>

Next ==
    \/ PreStartup \/ Launch \/ PostStartup \/ GoUp \/ Quit
    \/ \E s \in DOMAIN scenario.ports : SwitchJoins(s) \/ SwitchHangsUp(s) \/ SwitchRestarts(s)
    \/ \E k \in DOMAIN net.line : HandshakeDone(k) \/ ReadEnd(k)
    \/ \E e \in AllPorts, r \in {"add", "delete", "modify"} : PortStatus(e[1], e[2], r)
    \/ \E l \in net.cables : CableFails(l)
    \/ \E k \in DOMAIN net.flows : FlowExpires(k)
    \/ LldpTimer \/ LldpArrives \/ ForeignLldp \/ ExpireLinks
    \/ \E h \in DOMAIN net.places :
          \/ \E dst \in DOMAIN net.places \union {L2!Multicast} : HostSends(h, dst)
          \/ \E p \in scenario.places : HostMoves(h, p)
    \/ \E x \in net.copies : CopyArrives(x)
    \/ PingAnswered \/ CheckTimeouts

(* TCP delivers: an LLDP packet does not stay on its way for ever.  This   *)
(* is weak fairness of LldpArrives, which is enabled exactly while a       *)
(* packet is on its way to a running controller, and takes it off.         *)
Delivered == []<>(net.wire = {} \/ ~Running)

(* The scheduler fires timers that are due and TCP delivers.               *)
Spec == Init /\ [][Next]_vars /\ WF_vars(LldpTimer) /\ Delivered

--------------------------------------------------------------------------------
(***************************************************************************)
(* Correctness                                                             *)
(***************************************************************************)
BothWays == {l \in DOMAIN ctl.adjacency : flip(l) \in DOMAIN ctl.adjacency}

(* Switches reachable from s over the edges E, a set of pairs.             *)
Reachable(E, s) ==
    LET within[n \in Nat] == IF n = 0 THEN {s}
                             ELSE LET near == within[n - 1] IN near \union {e[2] : e \in {f \in E : f[1] \in near}}
    IN  within[Cardinality(DOMAIN scenario.ports)]

Floods(l) == <<l[1], l[2]>> \notin net.noflood   \* what its first switch floods, the second one gets

(* The switches reached from the controller have what the last push of the *)
(* tree wanted of the ports between them, and it was the tree of the links *)
(* known now: no push passed a switch over or was overtaken by another, no *)
(* port_mod was lost, no switch has restarted with other settings since.   *)
TreeInPlace ==
    /\ Running /\ ~past.broken /\ ~past.overtaken
    /\ "openflow.spanning_tree" \in {scenario.cmd.order[i] : i \in DOMAIN scenario.cmd.order}
    /\ \A l \in BothWays : l[1] \in DOMAIN net.con /\ <<l[1], l[2]>> \notin past.unset

(* After every LinkEvent the links known both ways whose two ports flood   *)
(* are a spanning forest of the known network: a flooded packet reaches    *)
(* every switch that the others reach, and none twice (as many cables as   *)
(* switches less one in every part), through failing sends in the middle   *)
(* of a push as well.  (spanning_tree._calc_spanning_tree, _handle)        *)
FloodingIsLoopFree ==
    TreeInPlace =>
        LET known == {<<l[1], l[3]>> : l \in BothWays}
            on == {l \in BothWays : Floods(l)}
            flooded == {<<l[1], l[3]>> : l \in on}
        IN  \A s \in DOMAIN scenario.ports :
               LET part == Reachable(flooded, s)
               IN  /\ part = Reachable(known, s)
                   /\ Cardinality({l \in on : l[1] \in part}) = 2 * (Cardinality(part) - 1)

(* l2_multi takes two switches for neighbours exactly when discovery knows *)
(* a link between them in both directions, and by the ports of one such    *)
(* link, through every order of additions, removals and expiries, unless a *)
(* listener has raised.  (l2_multi._handle_LinkEvent)                      *)
ViewFollowsDiscovery ==
    (~past.broken /\ "l2_multi" \in ctl.components) =>
        /\ DOMAIN ctl.ladj = {<<l[1], l[3]>> : l \in BothWays}
        /\ \A p \in DOMAIN ctl.ladj : <<p[1], ctl.ladj[p], p[2], ctl.ladj[<<p[2], p[1]>>]>> \in BothWays

(* The path map, once computed, is never used for a network it was not     *)
(* computed for: it holds the length of a shortest path for every pair of  *)
(* switches that l2_multi has joined, and no other pair.  (_calc_paths)    *)
PathsShortest ==
    ctl.path_map # <<>> =>
        LET E == DOMAIN ctl.ladj
            within[s \in DOMAIN ctl.switches, n \in 0 .. 4] ==
                IF n = 0 THEN {s}
                ELSE LET near == within[s, n - 1] IN near \union {e[2] : e \in {f \in E : f[1] \in near}}
            reach == {p \in (DOMAIN ctl.switches) \X (DOMAIN ctl.switches) : p[2] \in within[p[1], 4]}
        IN  \A p \in reach \union DOMAIN ctl.path_map :
               /\ p \in reach
               /\ p \in DOMAIN ctl.path_map \/ p[1] = p[2]
               /\ p \in DOMAIN ctl.path_map =>
                     LET d == ctl.path_map[p].dist
                     IN  p[2] \in within[p[1], d] /\ (d > 0 => p[2] \notin within[p[1], d - 1])

(* l2_multi's idea of the network is discovery's, and its path map is the  *)
(* one of that network or empty.                                           *)
PathsFollowDiscovery == ViewFollowsDiscovery /\ PathsShortest

(* Following the flows installed for one pair of hosts from switch to      *)
(* switch over the cables never comes back to a switch, as far as the      *)
(* switches are connected and the flows lead to a host that was heard at   *)
(* its own place last.  (Switch._install_path, Switch._handle_PacketIn)    *)
FlowsLoopFree ==
    \A h, g \in DOMAIN net.places :
        LET from == {s \in DOMAIN scenario.ports : Live(net, s) /\ <<s, h, g>> \in DOMAIN net.flows
                                                   /\ <<s, h, g>> \notin past.misled}
            hop == UNION {{<<s, end[1]>> : end \in FarEnds(net, <<s, net.flows[<<s, h, g>>]>>)} : s \in from}
        IN  \A e \in hop : e[1] \notin Reachable(hop, e[2])

(* A host that was first heard by ARP, has not moved and whose switch has  *)
(* stayed is never forgotten: it answers in time when it is pinged.        *)
(* (host_tracker._check_timeouts)                                          *)
AnsweringHostKept ==
    "host_tracker" \in ctl.components => \A h \in kept.heard \ kept.unsettled : Learned(h)

(* A cable between two connected switches is found, and found again after  *)
(* every expiry.  (LLDPSender._timerHandler, Discovery._handle_PacketIn)   *)
Wired(l) ==
    /\ Running /\ Begun /\ "openflow_discovery" \in ctl.components
    /\ Connects(l)
    /\ \A s \in {l[1], l[3]} : /\ Live(net, s) /\ UpAt(Newest(net, s))
                               /\ s \in DOMAIN net.con /\ net.con[s] = Newest(net, s)
    /\ {<<l[1], l[2]>>, <<l[3], l[4]>>} \cap net.gone = {}
LinksFound == \A l \in Links : <>[]Wired(l) => []<>(l \in DOMAIN ctl.adjacency)
================================================================================
