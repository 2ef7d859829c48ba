------------------------- MODULE OpenFlowConnection -------------------------
(***************************************************************************)
(* The controller's end of OpenFlow connections: the task that accepts and *)
(* reads them (of_01.OpenFlow_01_Task), the Connection objects with their  *)
(* message handlers, and the nexus (connection_arbiter.OpenFlowNexus),     *)
(* which knows the connection of every datapath and raises the events that *)
(* the components of the controller listen to.                             *)
(*                                                                         *)
(* The switches are external: each says HELLO once, answers requests in    *)
(* the order it received them, may send the parts of two stats replies     *)
(* interleaved, may hang up at any time and connect again.  Components     *)
(* send on a connection they were told of by ConnectionUp, also long after *)
(* it was lost, or through the nexus.  Everything in the controller runs   *)
(* in the cooperative thread, so a handler is one step.  Sockets take      *)
(* whole messages here; module DeferredSender is about the others.         *)
(***************************************************************************)
EXTENDS Integers, FiniteSets, SequencesExt

CONSTANTS MaxCons,         \* number of connections accepted
          Dpids, NoDpid,   \* datapath ids, and Python's None
          ArbiterDefault,  \* default of the arbiter: "core", or "none" to refuse
          Claimed,         \* datapaths a ConnectionIn listener gives to core.openflow
          StatsTypes,      \* types of stats requests
          Parts,           \* messages in a stats reply
          AsyncKinds,      \* messages a switch may send on its own
          MaxExtra         \* bound on messages that components, or switches on
                           \* their own, send

Conns == 1 .. MaxCons
(* What a switch may send on its own; it says hello once, and answers only *)
(* what it was asked.                                                      *)
Unsolicited == {"echo_request", "flow_removed", "port_status", "packet_in", "error", "vendor",
                "garbage"}
(* Datapaths are numbers; None compares with them. *)
ASSUME ConnectionAssumption ==
    /\ MaxCons \in Nat /\ MaxExtra \in Nat /\ Parts \in Nat \ {0}
    /\ NoDpid \notin Dpids /\ ArbiterDefault \in {"core", "none"}
    /\ AsyncKinds \subseteq Unsolicited

VARIABLES con,        \* con[c]: the fields of a Connection object; barrier is the xid that
                      \* finish_connecting(), its temporary listener, waits for, or 0
          nexus,      \* OpenFlowNexus._connections: DPID -> Connection
          toSwitch,   \* toSwitch[c]: messages on their way to the switch
          toCtl,      \* toCtl[c]: messages to the controller, not yet read
          peer,       \* peer[c]: the switch's end of the connection
          pending,    \* pending[c]: stats replies the switch has not finished
          flows,      \* flows[d]: connections that installed flows on datapath d
          told,       \* told[c]: ConnectionUp and ConnectionDown events of c (history)
          seen,       \* dpids of the events raised on core.openflow (history)
          delivered,  \* delivered[c]: part lists given to a stats handler (history)
          mixed,      \* mixed[c]: xids of the stats replies with a part of another between
                      \* their own (history)
          robbed,     \* connections that lost their entry of the nexus to another connection
                      \* of their datapath, and have none since (history)
          xid         \* number of such messages, the xid of the next

ctlVars == <<con, nexus, toSwitch, told, seen, delivered>>
vars == <<ctlVars, toCtl, peer, pending, flows, mixed, robbed, xid>>

Unused == [state |-> "unused", disconnected |-> FALSE, dpid |-> NoDpid, ofnexus |-> "dummy",
           connect_time |-> FALSE, barrier |-> 0, previous_stats |-> <<>>]

Init ==
    /\ con = [c \in Conns |-> Unused]
    /\ nexus = [d \in {} |-> 0]
    /\ toSwitch = [c \in Conns |-> <<>>] /\ toCtl = [c \in Conns |-> <<>>]
    /\ peer = [c \in Conns |-> [dpid |-> NoDpid, up |-> FALSE]]
    /\ pending = [c \in Conns |-> {}]
    /\ flows = [d \in Dpids |-> {}]
    /\ told = [c \in Conns |-> <<>>] /\ seen = {}
    /\ delivered = [c \in Conns |-> {}] /\ mixed = [c \in Conns |-> {}] /\ robbed = {}
    /\ xid = 0

-----------------------------------------------------------------------------
(* What the controller's functions do to its state; a value w holds all of *)
(* it, and a function that may end in several ways gives a set.            *)

World == [con |-> con, nexus |-> nexus, toSwitch |-> toSwitch, told |-> told, seen |-> seen,
          delivered |-> delivered]
Becomes(w) ==
    /\ con' = w.con /\ nexus' = w.nexus /\ toSwitch' = w.toSwitch /\ told' = w.told
    /\ seen' = w.seen /\ delivered' = w.delivered

(* The events that name a datapath; those of the statistics only hold the  *)
(* messages.                                                               *)
SwitchEvents == {"ConnectionUp", "ConnectionDown", "PortStatus", "FlowRemoved", "PacketIn",
                 "BarrierIn"}

(* raiseEventNoErrors on con.ofnexus: an event has the dpid its connection *)
(* has now; the dummy nexus only logs.                                     *)
RaiseAtNexus(w, c, kind) ==
    IF w.con[c].ofnexus = "dummy" \/ kind \notin SwitchEvents THEN w
    ELSE [w EXCEPT !.seen = @ \union {w.con[c].dpid},
                   !.told[c] = IF kind \in {"ConnectionUp", "ConnectionDown"}
                               THEN Append(@, kind) ELSE @]

RegistersNothing(w, c) == w
_connect(w, c) ==
    [w EXCEPT !.nexus = [d \in DOMAIN @ \union {w.con[c].dpid} |->
                           IF d = w.con[c].dpid THEN c ELSE @[d]]]
(* Deletes the entry of the dpid, whosever it is; a missing one raises, and *)
(* disconnect() ignores that.                                               *)
_disconnect(w, dpid) ==
    [w EXCEPT !.nexus = [d \in DOMAIN @ \ {dpid} |-> @[d]]]

disconnect(w, c) ==
    LET w1 == [w EXCEPT !.con[c].disconnected = TRUE]
        w2 == IF w.con[c].ofnexus = "core" THEN _disconnect(w1, w.con[c].dpid) ELSE w1
    IN  IF w.con[c].dpid # NoDpid THEN RaiseAtNexus(w2, c, "ConnectionDown") ELSE w2

(* Messages that the switch neither answers nor keeps. *)
Silent == {"hello", "switch_config", "echo_reply"}
(* Connection.send(): nothing once disconnected; a closed socket fails, one *)
(* whose peer is gone may fail or may still take the data.                  *)
send(w, c, m) ==
    IF w.con[c].disconnected THEN {w}
    ELSE IF w.con[c].state = "closed" THEN {disconnect(w, c)}
    ELSE IF ~ peer[c].up THEN {w, disconnect(w, c)}
    ELSE IF m.t \in Silent THEN {w}
    ELSE {[w EXCEPT !.toSwitch[c] = Append(@, m)]}

(* Messages to a switch, and to the controller. *)
Msg(t, x) == [t |-> t, xid |-> x, type |-> "none"]
Answer(t, x, d) ==
    [t |-> t, xid |-> x, dpid |-> d, type |-> "none", part |-> 0, more |-> FALSE]

HelloIgnored(w, c) == {w}
handle_HELLO(w, c) == send(w, c, Msg("features_request", 0))
handle_ECHO_REQUEST(w, c) == send(w, c, Msg("echo_reply", 0))
handle_FLOW_REMOVED(w, c) == {RaiseAtNexus(w, c, "FlowRemoved")}
handle_PORT_STATUS(w, c) == {RaiseAtNexus(w, c, "PortStatus")}
handle_PACKET_IN(w, c) == {RaiseAtNexus(w, c, "PacketIn")}

(* OpenFlowConnectionArbiter.getNexus() *)
getNexus(dpid) == IF dpid \in Claimed THEN "core" ELSE ArbiterDefault

ClearsAfterBarrier(w, c, x) ==
    UNION {UNION {send(b, c, Msg("flow_mod_delete", 0)) :
                  b \in send(a, c, Msg("barrier_request", x))} :
           a \in send(w, c, Msg("switch_config", 0))}
(* miss_send_len, clear_flows_on_connect, and the barrier that ends them. *)
SetUp(w, c, x) ==
    UNION {UNION {send(b, c, Msg("barrier_request", x)) :
                  b \in send(a, c, Msg("flow_mod_delete", 0))} :
           a \in send(w, c, Msg("switch_config", 0))}

(* A connection that already is up only registers again.  Otherwise it     *)
(* asks the arbiter for its nexus, registers, and sends a barrier whose    *)
(* answer, or whose refusal as a bad request, completes the connection.    *)
(* No second reply comes while the listener waits: the switch answers in   *)
(* order, and was asked for its features once before the barrier.          *)
handle_FEATURES_REPLY(w, c, m, x) ==
    LET w1 == [w EXCEPT !.con[c].dpid = m.dpid]
        w2 == [w1 EXCEPT !.con[c].ofnexus = "core"]
    IN  IF w.con[c].connect_time
        THEN {IF w.con[c].ofnexus = "core" THEN _connect(w1, c) ELSE w1}
        ELSE IF getNexus(m.dpid) = "none" THEN {disconnect(w1, c)}
        ELSE SetUp([_connect(w2, c) EXCEPT !.con[c].barrier = x], c, x)

(* finish_connecting(), the listener of BarrierIn, for an event with xid x *)
finish_connecting(w, c, x) ==
    LET done == [w EXCEPT !.con[c].barrier = 0]
    IN  IF x # w.con[c].barrier
        THEN disconnect([done EXCEPT !.con[c].dpid = NoDpid], c)
        ELSE RaiseAtNexus([done EXCEPT !.con[c].connect_time = TRUE], c, "ConnectionUp")

(* also_finish_connecting(): the listener of ErrorIn.  The nexus does not  *)
(* raise ErrorIn.                                                          *)
handle_ERROR_MSG(w, c, x) ==
    IF w.con[c].barrier # 0 /\ x = w.con[c].barrier THEN {finish_connecting(w, c, x)} ELSE {w}

handle_BARRIER(w, c, x) ==
    LET w1 == RaiseAtNexus(w, c, "BarrierIn")
    IN  IF w.con[c].barrier # 0 THEN {finish_connecting(w1, c, x)} ELSE {w1}

Aggregated == {"flow", "table", "port", "queue"}
statsHandlerMap == Aggregated \union {"desc", "aggregate"}

KeepsNoXid(w, c, m) ==
    LET prev == w.con[c].previous_stats
        s == Append(prev, m)
    IN  IF m.more THEN [w EXCEPT !.con[c].previous_stats = s]
        ELSE [w EXCEPT !.con[c].previous_stats = <<>>,
                       !.delivered[c] = @ \union {s}]
(* A part of another reply than the one being collected is not kept: the   *)
(* line that would start over with it comes after one that raises.         *)
_incoming_stats_reply(w, c, m) ==
    LET prev == w.con[c].previous_stats
        s == Append(prev, m)
    IN  IF m.more /\ m.type \notin Aggregated
        THEN [w EXCEPT !.con[c].previous_stats = <<>>]
        ELSE IF prev # <<>> /\ ~ (prev[1].xid = m.xid /\ prev[1].type = m.type) THEN w
        ELSE IF m.more THEN [w EXCEPT !.con[c].previous_stats = s]
        ELSE IF m.type \notin statsHandlerMap
        THEN [w EXCEPT !.con[c].previous_stats = <<>>]
        ELSE LET e == [w EXCEPT !.con[c].previous_stats = <<>>,
                                !.delivered[c] = @ \union {s}]
             IN  RaiseAtNexus(e, c, "StatsReceived")

handle_STATS_REPLY(w, c, m) ==
    {_incoming_stats_reply(RaiseAtNexus(w, c, "RawStatsReply"), c, m)}

-----------------------------------------------------------------------------
(* The task. *)

(* accept(): a new Connection, which says hello, as the switch does. *)
Accept(c, d) ==
    /\ con[c].state = "unused"
    /\ \A b \in 1 .. c - 1 : con[b].state # "unused"
    /\ \A b \in Conns : peer[b].dpid = d => ~ peer[b].up
    /\ con' = [con EXCEPT ![c].state = "open"]
    /\ toCtl' = [toCtl EXCEPT ![c] = <<Answer("hello", 0, NoDpid)>>]
    /\ peer' = [peer EXCEPT ![c] = [dpid |-> d, up |-> TRUE]]
    /\ UNCHANGED <<nexus, toSwitch, told, seen, delivered, pending, flows, mixed, xid>>

(* handlers[ofp_type]; the TypeError of a type without one is logged. *)
Handled(w, c, m) ==
    CASE m.t = "hello" -> handle_HELLO(w, c)
      [] m.t = "echo_request" -> handle_ECHO_REQUEST(w, c)
      [] m.t = "flow_removed" -> handle_FLOW_REMOVED(w, c)
      [] m.t = "port_status" -> handle_PORT_STATUS(w, c)
      [] m.t = "packet_in" -> handle_PACKET_IN(w, c)
      (* the barrier of connection c has the xid -c *)
      [] m.t = "features_reply" -> handle_FEATURES_REPLY(w, c, m, - c)
      [] m.t = "barrier_reply" -> handle_BARRIER(w, c, m.xid)
      [] m.t = "error" -> handle_ERROR_MSG(w, c, m.xid)
      [] m.t = "stats_reply" -> handle_STATS_REPLY(w, c, m)
      [] OTHER -> {w}

close(w, c) == [w EXCEPT !.con[c].state = "closed"]

(* One message of Connection.read(); recv() may stop after any of them.    *)
(* Bytes that are no message of this version make read() return FALSE, and *)
(* the task closes the connection with all that is unread.                 *)
Read(c) ==
    /\ con[c].state = "open" /\ toCtl[c] # <<>>
    /\ LET m == Head(toCtl[c])
       IN  IF m.t = "garbage"
           THEN /\ Becomes(close(World, c))
                /\ toCtl' = [toCtl EXCEPT ![c] = <<>>]
           ELSE /\ \E w \in Handled(World, c, m) : Becomes(w)
                /\ toCtl' = [toCtl EXCEPT ![c] = Tail(@)]
    /\ UNCHANGED <<peer, pending, flows, mixed, xid>>

(* recv() returns nothing, or raises ECONNRESET: the task closes the       *)
(* connection.  Neither disconnect() nor ConnectionDown.                   *)
ReadEnd(c) ==
    /\ con[c].state = "open" /\ toCtl[c] = <<>>
    /\ ~ peer[c].up \/ con[c].disconnected
    /\ Becomes(close(World, c))
    /\ UNCHANGED <<toCtl, peer, pending, flows, mixed, xid>>

-----------------------------------------------------------------------------
(* The components of the controller. *)

Requests == {Msg(t, 0) : t \in {"barrier_request", "flow_mod", "features_request"}}
            \union {[Msg("stats_request", 0) EXCEPT !.type = y] : y \in StatsTypes}

(* send() on a connection that ConnectionUp was raised for. *)
ComponentSend(c, r) ==
    /\ xid < MaxExtra
    /\ "ConnectionUp" \in ToSet(told[c])
    /\ \E w \in send(World, c, [r EXCEPT !.xid = xid]) : Becomes(w)
    /\ xid' = xid + 1
    /\ UNCHANGED <<toCtl, peer, pending, flows, mixed>>

(* sendToDPID() *)
sendToDPID(d, r) ==
    /\ xid < MaxExtra
    /\ d \in DOMAIN nexus
    /\ \E w \in send(World, nexus[d], [r EXCEPT !.xid = xid]) : Becomes(w)
    /\ xid' = xid + 1
    /\ UNCHANGED <<toCtl, peer, pending, flows, mixed>>

(* The controller goes down: every registered connection is disconnected, *)
(* each with its own changes.                                              *)
_handle_DownEvent ==
    LET all == Range(nexus)
        one(c) == disconnect(World, c)
    IN  /\ DOMAIN nexus # {}
        /\ con' = [c \in Conns |-> IF c \in all THEN one(c).con[c] ELSE con[c]]
        /\ told' = [c \in Conns |-> IF c \in all THEN one(c).told[c] ELSE told[c]]
        /\ nexus' = [d \in {e \in DOMAIN nexus : \A c \in all : e \in DOMAIN one(c).nexus} |->
                        nexus[d]]
        /\ seen' = UNION {one(c).seen : c \in all}
        /\ UNCHANGED <<toSwitch, delivered, toCtl, peer, pending, flows, mixed, xid>>

-----------------------------------------------------------------------------
(* The switches. *)

Replies(c, m) ==
    CASE m.t = "features_request" -> {<<Answer("features_reply", 0, peer[c].dpid)>>}
      [] m.t = "barrier_request" ->
            {<<Answer("barrier_reply", m.xid, NoDpid)>>, <<Answer("error", m.xid, NoDpid)>>}
      [] OTHER -> {<<>>}

PeerStep(c) ==
    /\ peer[c].up /\ toSwitch[c] # <<>>
    /\ LET m == Head(toSwitch[c])
           d == peer[c].dpid
       IN  /\ \E r \in Replies(c, m) : toCtl' = [toCtl EXCEPT ![c] = @ \o r]
           /\ flows' = CASE m.t = "flow_mod" -> [flows EXCEPT ![d] = @ \union {c}]
                         [] m.t = "flow_mod_delete" -> [flows EXCEPT ![d] = {}]
                         [] OTHER -> flows
           /\ pending' = IF m.t # "stats_request" THEN pending
                         ELSE [pending EXCEPT ![c] =
                                @ \union {[xid |-> m.xid, type |-> m.type, part |-> 1]}]
    /\ toSwitch' = [toSwitch EXCEPT ![c] = Tail(@)]
    /\ UNCHANGED <<con, nexus, told, seen, delivered, peer, mixed, xid>>

PeerStats(c, p) ==
    /\ peer[c].up /\ p \in pending[c]
    /\ toCtl' = [toCtl EXCEPT ![c] =
         Append(@, [Answer("stats_reply", p.xid, NoDpid) EXCEPT
                      !.type = p.type, !.part = p.part, !.more = p.part < Parts])]
    /\ pending' = [pending EXCEPT ![c] = (@ \ {p}) \union
         (IF p.part < Parts THEN {[p EXCEPT !.part = @ + 1]} ELSE {})]
    /\ mixed' = [mixed EXCEPT ![c] =
         @ \union {q.xid : q \in {q \in pending[c] : q # p /\ q.part > 1}}]
    /\ UNCHANGED <<ctlVars, peer, flows, xid>>

PeerAsync(c, kind) ==
    /\ peer[c].up /\ xid < MaxExtra
    /\ xid' = xid + 1
    /\ toCtl' = [toCtl EXCEPT ![c] = Append(@, Answer(kind, 0, NoDpid))]
    /\ UNCHANGED <<ctlVars, peer, pending, flows, mixed>>

PeerHangsUp(c) ==
    /\ peer[c].up
    /\ peer' = [peer EXCEPT ![c].up = FALSE]
    /\ toSwitch' = [toSwitch EXCEPT ![c] = <<>>]
    /\ pending' = [pending EXCEPT ![c] = {}]
    /\ UNCHANGED <<con, nexus, told, seen, delivered, toCtl, flows, mixed, xid>>

Step ==
    \/ \E c \in Conns, d \in Dpids : Accept(c, d)
    \/ \E c \in Conns : Read(c) \/ ReadEnd(c)
    \/ \E c \in Conns, r \in Requests : ComponentSend(c, r)
    \/ \E d \in Dpids, r \in Requests : sendToDPID(d, r)
    \/ _handle_DownEvent
    \/ \E c \in Conns : PeerStep(c) \/ PeerHangsUp(c)
    \/ \E c \in Conns : \E p \in pending[c] : PeerStats(c, p)
    \/ \E c \in Conns, kind \in AsyncKinds : PeerAsync(c, kind)

(* In this step the connection o is entered in the nexus, or components are *)
(* told that it is down.                                                    *)
Interferes(o) ==
    \/ o \in Range(nexus') \ Range(nexus)
    \/ told'[o] = Append(told[o], "ConnectionDown")
(* What robbed records of a step. *)
Robs ==
    robbed' = (robbed \union {c \in Range(nexus) :
                 \E o \in Conns \ {c} : con'[o].dpid = con[c].dpid /\ Interferes(o)})
              \ Range(nexus')

Next == Step /\ Robs

Spec == Init /\ [][Next]_vars

(* The task reads what select() reports, and a switch that stays connected *)
(* answers.                                                                *)
Fairness ==
    \A c \in Conns : WF_vars((Read(c) \/ ReadEnd(c)) /\ Robs) /\ WF_vars(PeerStep(c) /\ Robs)

FairSpec == Spec /\ Fairness

-----------------------------------------------------------------------------
TypeOK ==
    /\ \A c \in Conns :
         /\ con[c].state \in {"unused", "open", "closed"}
         /\ con[c].dpid \in Dpids \union {NoDpid}
         /\ con[c].ofnexus \in {"dummy", "core"}
    /\ DOMAIN nexus \subseteq Dpids /\ Range(nexus) \subseteq Conns

(* Every event raised on core.openflow names the datapath it is about: a   *)
(* component never hears of a connection before its features are known,    *)
(* nor after a failed handshake has taken its dpid away.                   *)
EventsNameDatapath == NoDpid \notin seen

(* Once components were told that a connection is up, flows that an earlier *)
(* connection left on the switch are gone, so the deletion that             *)
(* clear_flows_on_connect asks for cannot hit a flow a component installs.  *)
StaleFlowsGone ==
    \A c \in Conns :
        peer[c].up /\ "ConnectionUp" \in ToSet(told[c]) => flows[peer[c].dpid] \subseteq {c}

(* Components hear of a connection coming up at most once. *)
UpOnce ==
    \A c \in Conns : \A i, j \in 1 .. Len(told[c]) :
        told[c][i] = "ConnectionUp" /\ told[c][j] = "ConnectionUp" => i = j

(* What components are told of a connection: every event names its         *)
(* datapath, ConnectionUp is raised at most once, and by then the flows of *)
(* earlier connections are deleted.                                        *)
UpOnClean == EventsNameDatapath /\ StaleFlowsGone /\ UpOnce

(* A connection that is up, and not found lost, can be reached by its dpid, *)
(* unless since it was registered another connection of its datapath was    *)
(* registered in its place, or was found lost: disconnect() then deletes    *)
(* the entry of the dpid, whosever it is, and tells components that the     *)
(* datapath is down.                                                        *)
LiveRegistered ==
    /\ TypeOK
    /\ \A c \in Conns :
        /\ con[c].connect_time /\ con[c].state = "open" /\ ~ con[c].disconnected
        => \/ con[c].dpid \in DOMAIN nexus /\ nexus[con[c].dpid] = c
           \/ c \in robbed

(* The parts given to a stats handler belong to one reply, in order and up *)
(* to its last part.                                                       *)
PartsOfOneReply ==
    \A c \in Conns : \A s \in delivered[c] :
        \A i \in 1 .. Len(s) :
            /\ s[i].xid = s[1].xid /\ s[i].type = s[1].type
            /\ s[i].more = (i < Len(s))

(* A handler of statistics that come in several parts gets all of them,    *)
(* unless the switch sent a part of another reply between those of this one. *)
StatsWhole ==
    \A c \in Conns : \A s \in delivered[c] :
        s[1].type \in Aggregated /\ s[1].xid \notin mixed[c] =>
            \A n \in 1 .. Parts : \E i \in 1 .. Len(s) : s[i].part = n

(* A statistics event is raised with the parts of one reply, and, as its    *)
(* documentation says, when all of them are there: provided that the switch *)
(* does not interleave the reply with another.                              *)
StatsOfOneReply == PartsOfOneReply /\ StatsWhole

(* A connection whose switch answers comes up, or is closed or             *)
(* disconnected: the handshake does not hang.                              *)
HandshakeEnds ==
    \A c \in Conns :
        con[c].state = "open" ~> \/ con[c].connect_time \/ con[c].state = "closed"
                                 \/ con[c].disconnected \/ ~ peer[c].up
=============================================================================
