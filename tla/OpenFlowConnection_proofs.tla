----------------------- MODULE OpenFlowConnection_proofs -----------------------
(***************************************************************************)
(* What components are told of a connection, where the nexus finds it, and *)
(* what a stats handler gets, for any number of connections and datapaths, *)
(* any arbiter, requests, events and lengths of a stats reply, and however *)
(* the switches, the components and hang-ups interleave.                   *)
(***************************************************************************)
EXTENDS OpenFlowConnection, TLAPS

-----------------------------------------------------------------------------
(* Types. *)

Names == Dpids \union {NoDpid}
StatsNames == StatsTypes \union {"none"}
Requested == {"features_request", "barrier_request", "flow_mod", "flow_mod_delete",
              "stats_request"} \union Silent
Said == {"hello", "features_reply", "barrier_reply", "stats_reply"} \union Unsolicited
Demands == [t : Requested, xid : Int, type : StatsNames]
Answers == [t : Said, xid : Int, dpid : Names, type : StatsNames, part : Nat, more : BOOLEAN]
Rests == [xid : Int, type : StatsNames, part : Nat]
Fields == [state : {"unused", "open", "closed"}, disconnected : BOOLEAN, dpid : Names,
           ofnexus : {"dummy", "core"}, connect_time : BOOLEAN, barrier : Int,
           previous_stats : Seq(Answers)]
Tables == UNION {[S -> Conns] : S \in SUBSET Dpids}
Kinds == {"ConnectionUp", "ConnectionDown"}

(* The states of the controller, which the handlers change. *)
Worlds == [con : [Conns -> Fields], nexus : Tables, toSwitch : [Conns -> Seq(Demands)],
           told : [Conns -> Seq(Kinds)], seen : SUBSET Names,
           delivered : [Conns -> SUBSET Seq(Answers)]]

Types ==
    /\ World \in Worlds
    /\ toCtl \in [Conns -> Seq(Answers)]
    /\ peer \in [Conns -> [dpid : Names, up : BOOLEAN]]
    /\ pending \in [Conns -> SUBSET Rests]
    /\ flows \in [Dpids -> SUBSET Conns]
    /\ xid \in Nat

-----------------------------------------------------------------------------
(* The handshake. *)

(* What is known of one connection and its switch. *)
Ends(c) ==
    /\ con[c].state = "unused" =>
         /\ con[c] = Unused /\ ~ peer[c].up /\ toSwitch[c] = <<>> /\ toCtl[c] = <<>>
         /\ pending[c] = {} /\ told[c] = <<>>
    /\ con[c].state # "unused" => peer[c].dpid \in Dpids
    /\ ~ peer[c].up => toSwitch[c] = <<>>
    /\ con[c].dpid \in {NoDpid, peer[c].dpid}
    /\ \A i \in 1 .. Len(toCtl[c]) :
         toCtl[c][i].t = "features_reply" => toCtl[c][i].dpid = peer[c].dpid

(* A connection has a nexus from the reply with its features on, and its   *)
(* listener waits for its own barrier until the connection is up.          *)
Listening(c) ==
    /\ con[c].ofnexus = "core" => con[c].dpid # NoDpid
    /\ con[c].barrier \in {0, - c}
    /\ con[c].barrier # 0 => con[c].ofnexus = "core" /\ ~ con[c].connect_time
    /\ con[c].connect_time => con[c].ofnexus = "core"
    /\ \A i \in 1 .. Len(told[c]) : told[c][i] = "ConnectionUp" => con[c].connect_time

(* The answer to the barrier of the handshake, and the barrier. *)
Ack(c, m) == m.t \in {"barrier_reply", "error"} /\ m.xid = - c
Bar(c, m) == m.t = "barrier_request" /\ m.xid = - c
Acked(c) == \E i \in 1 .. Len(toCtl[c]) : Ack(c, toCtl[c][i])

(* Before its features are known, one message at most drives a connection: *)
(* the hello of the switch, the request for its features or their reply.   *)
Drives(m) == m.t \in {"hello", "features_reply"}
Greeting(c) ==
    /\ con[c].state = "open" /\ ~ con[c].connect_time /\ con[c].barrier = 0
    =>  /\ con[c].ofnexus = "dummy"
        /\ Len(toSwitch[c]) <= 1
        /\ \A i \in 1 .. Len(toSwitch[c]) : toSwitch[c][i].t = "features_request"
        /\ \A i \in 1 .. Len(toCtl[c]) : toCtl[c][i].t # "barrier_reply"
        /\ \A i, j \in 1 .. Len(toCtl[c]) : Drives(toCtl[c][i]) /\ Drives(toCtl[c][j]) => i = j
        /\ (\E i \in 1 .. Len(toCtl[c]) : Drives(toCtl[c][i])) => toSwitch[c] = <<>>

(* While the listener waits, whatever could run into it, the answer to     *)
(* another barrier or once more the features, comes after the answer that  *)
(* it waits for, which is on its way if anything is.                       *)
Waiting(c) ==
    /\ con[c].state = "open" /\ con[c].barrier # 0
    =>  /\ \A i \in 1 .. Len(toCtl[c]) :
             toCtl[c][i].t \in {"barrier_reply", "features_reply"} =>
                 \E j \in 1 .. i : Ack(c, toCtl[c][j])
        /\ \A i \in 1 .. Len(toCtl[c]) : toCtl[c][i].t # "hello"
        /\ ~ Acked(c) =>
             /\ \A i \in 1 .. Len(toSwitch[c]) :
                  toSwitch[c][i].t \in {"barrier_request", "features_request"} =>
                      \E j \in 1 .. i : Bar(c, toSwitch[c][j])
             /\ peer[c].up /\ ~ con[c].disconnected =>
                  \E j \in 1 .. Len(toSwitch[c]) : Bar(c, toSwitch[c][j])

(* The flows of earlier connections are gone before the barrier is         *)
(* answered, because the deletion goes first.                              *)
Clean(c) ==
    peer[c].up =>
        /\ con[c].connect_time \/ Acked(c) => flows[peer[c].dpid] \subseteq {c}
        /\ \A i \in 1 .. Len(toSwitch[c]) :
             Bar(c, toSwitch[c][i]) =>
                 \/ flows[peer[c].dpid] \subseteq {c}
                 \/ \E j \in 1 .. i - 1 : toSwitch[c][j].t = "flow_mod_delete"

Local(c) == Ends(c) /\ Listening(c) /\ Greeting(c) /\ Waiting(c) /\ Clean(c)

(* The table of the nexus leads to connections that have their dpid. *)
Registry(w) ==
    \A d \in DOMAIN w.nexus : w.con[w.nexus[d]].dpid = d /\ w.con[w.nexus[d]].ofnexus = "core"

(* What components hear: events that name a datapath, one ConnectionUp. *)
Heard(w) ==
    /\ NoDpid \notin w.seen
    /\ \A c \in Conns : w.con[c].ofnexus = "core" => w.con[c].dpid # NoDpid
    /\ \A c \in Conns : \A i, j \in 1 .. Len(w.told[c]) :
         w.told[c][i] = "ConnectionUp" /\ w.told[c][j] = "ConnectionUp" => i = j

(* A datapath has at most one switch at the other end. *)
OneUp == \A b, c \in Conns : peer[b].up /\ peer[c].up /\ peer[b].dpid = peer[c].dpid => b = c

HandInv ==
    Types /\ (\A c \in Conns : Local(c)) /\ Registry(World) /\ Heard(World) /\ OneUp

-----------------------------------------------------------------------------
(* The statistics.  S is what a connection has collected, Q its queue to   *)
(* the switch and T its queue from there, P the unfinished replies of the  *)
(* switch, M the replies between whose parts it sent a part of another,    *)
(* and x the next xid.                                                     *)

IsPart(m, y) == m.t = "stats_reply" /\ m.xid = y

(* Nothing of the reply to y was collected. *)
Foreign(S, y) == S = <<>> \/ S[1].xid # y

(* Part n of the reply to y, of type z, would complete what was collected, *)
(* or be dropped like those before it.                                     *)
At(S, y, z, n) ==
    \/ /\ Len(S) = n - 1
       /\ \A k \in 1 .. Len(S) : S[k].xid = y /\ S[k].type = z /\ S[k].part = k
    \/ S # <<>> /\ S[1].xid # y

(* It can follow the first i messages to read: nothing of its reply comes  *)
(* before the first part, and no part of another reply between two parts.  *)
Follows(T, S, y, z, n, i) ==
    \/ n = 1 /\ Foreign(S, y) /\ \A j \in 1 .. i : ~ IsPart(T[j], y)
    \/ /\ n > 1
       /\ \E j \in 1 .. i : /\ IsPart(T[j], y) /\ T[j].type = z /\ T[j].part = n - 1
                            /\ \A k \in j + 1 .. i : T[k].t # "stats_reply"
    \/ n > 1 /\ At(S, y, z, n) /\ \A k \in 1 .. i : T[k].t # "stats_reply"
Due(T, S, M, y, z, n, i) == z \in Aggregated /\ y \notin M => Follows(T, S, y, z, n, i)

(* The parts collected so far are of one reply, and not its last. *)
Collected(S, x) ==
    \A i \in 1 .. Len(S) :
        S[i].xid = S[1].xid /\ S[i].xid < x /\ S[i].type = S[1].type /\ S[i].more

(* Requests on their way have xids of their own. *)
Asked(Q, P, T, S, x) ==
    \A i \in 1 .. Len(Q) : Q[i].t = "stats_request" =>
        /\ Q[i].xid < x /\ Foreign(S, Q[i].xid)
        /\ \A j \in 1 .. Len(Q) : Q[j].t = "stats_request" /\ Q[j].xid = Q[i].xid => i = j
        /\ \A p \in P : p.xid # Q[i].xid
        /\ \A j \in 1 .. Len(T) : ~ IsPart(T[j], Q[i].xid)

(* A reply that the switch has not finished. *)
Unfinished(P, T, S, M, x) ==
    \A p \in P :
        /\ p.xid < x /\ p.part \in 1 .. Parts
        /\ \A q \in P : q.xid = p.xid => q = p
        /\ \A j \in 1 .. Len(T) : IsPart(T[j], p.xid) => T[j].more
        /\ Due(T, S, M, p.xid, p.type, p.part, Len(T))

(* The parts to be read: nothing of a reply comes after its last part. *)
Unread(T, S, M, x) ==
    \A i \in 1 .. Len(T) : T[i].t = "stats_reply" =>
        /\ T[i].xid < x
        /\ ~ T[i].more => T[i].part = Parts
        /\ Due(T, S, M, T[i].xid, T[i].type, T[i].part, i - 1)
        /\ \A j \in i + 1 .. Len(T) : IsPart(T[j], T[i].xid) => T[i].more

Tidy(S, Q, P, T, M, x) ==
    Collected(S, x) /\ Asked(Q, P, T, S, x) /\ Unfinished(P, T, S, M, x) /\ Unread(T, S, M, x)

(* What the stats handlers were given, D. *)
Given(D, M) ==
    \A s \in D :
        /\ \A i \in 1 .. Len(s) :
             s[i].xid = s[1].xid /\ s[i].type = s[1].type /\ s[i].more = (i < Len(s))
        /\ s[1].type \in Aggregated /\ s[1].xid \notin M =>
             \A n \in 1 .. Parts : \E i \in 1 .. Len(s) : s[i].part = n

Own(c) ==
    /\ con[c].state = "open" =>
         Tidy(con[c].previous_stats, toSwitch[c], pending[c], toCtl[c], mixed[c], xid)
    /\ Given(delivered[c], mixed[c])

StatsInv == \A c \in Conns : Own(c)

Marked == mixed = [c \in Conns |-> mixed[c]]

-----------------------------------------------------------------------------
(* What the functions of the controller do. *)

(* Connections are counted from 1, so no barrier has the xid 0. *)
LEMMA ConnNumber == ASSUME NEW c \in Conns PROVE c \in Nat /\ - c \in Int /\ - c < 0
BY ConnectionAssumption DEF Conns

(* Every state of the controller is given by its variables. *)
LEMMA WorldFields ==
    /\ World.con = con /\ World.nexus = nexus /\ World.toSwitch = toSwitch
    /\ World.told = told /\ World.seen = seen /\ World.delivered = delivered
BY DEF World

(* A table of the nexus maps some datapaths to connections. *)
LEMMA TableHas ==
    ASSUME NEW f \in Tables
    PROVE  /\ f = [d \in DOMAIN f |-> f[d]] /\ DOMAIN f \subseteq Dpids
           /\ \A d \in DOMAIN f : f[d] \in Conns
BY DEF Tables

(* A map of some datapaths to connections is a table of the nexus. *)
LEMMA IsTable ==
    ASSUME NEW S \in SUBSET Dpids, NEW f \in [S -> Conns]
    PROVE  f \in Tables
BY DEF Tables

(* What raising an event does: nothing to the connections and messages, and *)
(* on the dummy nexus nothing at all.                                       *)
Noted(w, v, c, kind) ==
    /\ v \in Worlds
    /\ v.con = w.con /\ v.nexus = w.nexus /\ v.toSwitch = w.toSwitch
    /\ v.delivered = w.delivered
    /\ \A b \in Conns \ {c} : v.told[b] = w.told[b]
    /\ \/ v.told[c] = w.told[c]
       \/ kind \in Kinds /\ v.told[c] = Append(w.told[c], kind)
    /\ w.con[c].ofnexus = "core" /\ kind \in Kinds => v.told[c] = Append(w.told[c], kind)
    /\ \/ v.seen = w.seen
       \/ w.con[c].ofnexus = "core" /\ v.seen = w.seen \union {w.con[c].dpid}

(* RaiseAtNexus() only notes the event. *)
LEMMA RaiseNotes ==
    ASSUME NEW w \in Worlds, NEW c \in Conns, NEW kind
    PROVE  Noted(w, RaiseAtNexus(w, c, kind), c, kind)
<1> DEFINE v == RaiseAtNexus(w, c, kind)
<1>1. w.con[c] \in Fields /\ w.con[c].dpid \in Names /\ w.told \in [Conns -> Seq(Kinds)]
      BY DEF Worlds, Fields
<1>2. CASE w.con[c].ofnexus = "dummy" \/ kind \notin SwitchEvents
  <2>1. v = w
        BY <1>2 DEF RaiseAtNexus
  <2>2. w.con[c].ofnexus = "dummy" \/ kind \notin Kinds
        BY <1>2 DEF Kinds, SwitchEvents
  <2> QED BY <2>1, <2>2 DEF Noted
<1>3. CASE ~ (w.con[c].ofnexus = "dummy" \/ kind \notin SwitchEvents)
  <2>1. CASE kind \in Kinds
    <3>1. v = [w EXCEPT !.seen = w.seen \union {w.con[c].dpid},
                        !.told = [w.told EXCEPT ![c] = Append(w.told[c], kind)]]
          BY <1>3, <2>1 DEF RaiseAtNexus, Kinds
    <3>2. Append(w.told[c], kind) \in Seq(Kinds)
          BY <1>1, <2>1
    <3> DEFINE t == [w.told EXCEPT ![c] = Append(w.told[c], kind)]
    <3>5. t \in [Conns -> Seq(Kinds)]
          BY <1>1, <3>2
    <3>6. w.seen \union {w.con[c].dpid} \in SUBSET Names
          BY <1>1 DEF Worlds
    <3>3. v \in Worlds
      <4> HIDE DEF v, t
      <4>1. v = [w EXCEPT !.seen = w.seen \union {w.con[c].dpid}, !.told = t]
            BY <3>1 DEF t
      <4> QED BY <3>5, <3>6, <4>1 DEF Worlds
    <3>4. w.con[c].ofnexus = "core"
          BY <1>1, <1>3 DEF Fields
    <3> QED BY <1>1, <2>1, <3>1, <3>3, <3>4 DEF Noted, Worlds
  <2>2. CASE kind \notin Kinds
    <3>1. v = [w EXCEPT !.seen = w.seen \union {w.con[c].dpid},
                        !.told = [w.told EXCEPT ![c] = w.told[c]]]
          BY <1>3, <2>2 DEF RaiseAtNexus, Kinds
    <3>2. [w.told EXCEPT ![c] = w.told[c]] = w.told
          BY <1>1
    <3>3. v = [w EXCEPT !.seen = w.seen \union {w.con[c].dpid}, !.told = w.told]
          BY <3>1, <3>2
    <3>4. v \in Worlds
          BY <1>1, <3>3 DEF Worlds
    <3>5. w.con[c].ofnexus = "core"
          BY <1>1, <1>3 DEF Fields
    <3> QED BY <1>1, <2>2, <3>3, <3>4, <3>5 DEF Noted, Worlds
  <2> QED BY <2>1, <2>2
<1> QED BY <1>2, <1>3

(* What disconnect() does, whichever nexus the connection has. *)
Lost(w, v, c) ==
    /\ v \in Worlds
    /\ v.con = [w.con EXCEPT ![c].disconnected = TRUE]
    /\ v.toSwitch = w.toSwitch /\ v.delivered = w.delivered
    /\ w.con[c].ofnexus = "dummy" => v.nexus = w.nexus
    /\ w.con[c].ofnexus = "core" =>
         /\ DOMAIN v.nexus = DOMAIN w.nexus \ {w.con[c].dpid}
         /\ \A d \in DOMAIN v.nexus : v.nexus[d] = w.nexus[d]
         /\ w.con[c].dpid # NoDpid => v.told[c] = Append(w.told[c], "ConnectionDown")
    /\ \A b \in Conns \ {c} : v.told[b] = w.told[b]
    /\ v.told[c] = w.told[c] \/ v.told[c] = Append(w.told[c], "ConnectionDown")
    /\ \/ v.seen = w.seen
       \/ w.con[c].ofnexus = "core" /\ v.seen = w.seen \union {w.con[c].dpid}

(* disconnect() marks the connection, removes its dpid from the table of   *)
(* the nexus and tells of it.                                              *)
LEMMA DisconnectLoses ==
    ASSUME NEW w \in Worlds, NEW c \in Conns
    PROVE  Lost(w, disconnect(w, c), c)
<1> DEFINE w1 == [w EXCEPT !.con = [w.con EXCEPT ![c].disconnected = TRUE]]
           w2 == IF w.con[c].ofnexus = "core" THEN _disconnect(w1, w.con[c].dpid) ELSE w1
           v == IF w.con[c].dpid # NoDpid THEN RaiseAtNexus(w2, c, "ConnectionDown") ELSE w2
<1>1. v = disconnect(w, c)
      BY DEF disconnect
<1>2. w.con \in [Conns -> Fields] /\ w.con[c] \in Fields
      BY DEF Worlds
<1>3. [w.con EXCEPT ![c].disconnected = TRUE] \in [Conns -> Fields]
      BY <1>2 DEF Fields
<1>4. w1 \in Worlds /\ w1.nexus = w.nexus /\ w1.con = [w.con EXCEPT ![c].disconnected = TRUE]
      /\ w1.toSwitch = w.toSwitch /\ w1.delivered = w.delivered
      /\ w1.told = w.told /\ w1.seen = w.seen
      BY <1>3 DEF Worlds
<1>5. w1.con[c].ofnexus = w.con[c].ofnexus /\ w1.con[c].dpid = w.con[c].dpid
      BY <1>2, <1>4 DEF Fields
<1> HIDE DEF w1
<1> DEFINE f == [d \in DOMAIN w1.nexus \ {w.con[c].dpid} |-> w1.nexus[d]]
<1>6. f \in Tables
  <2>1. w1.nexus \in Tables
        BY <1>4 DEF Worlds
  <2>2. DOMAIN w1.nexus \ {w.con[c].dpid} \in SUBSET Dpids
        BY <2>1, TableHas
  <2>3. f \in [DOMAIN w1.nexus \ {w.con[c].dpid} -> Conns]
        BY <2>1, TableHas
  <2> QED BY <2>2, <2>3, IsTable
<1>7. /\ w2 \in Worlds
      /\ w2.con = w1.con /\ w2.toSwitch = w1.toSwitch /\ w2.delivered = w1.delivered
      /\ w2.told = w1.told /\ w2.seen = w1.seen
      /\ w.con[c].ofnexus = "core" => w2.nexus = f
      /\ w.con[c].ofnexus # "core" => w2.nexus = w1.nexus
  <2>1. CASE w.con[c].ofnexus = "core"
    <3>1. w2 = [w1 EXCEPT !.nexus = f]
          BY <2>1 DEF _disconnect
    <3> HIDE DEF w2, f
    <3> QED BY <1>4, <1>6, <2>1, <3>1 DEF Worlds
  <2>2. CASE w.con[c].ofnexus # "core"
        BY <1>4, <2>2
  <2> QED BY <2>1, <2>2
<1> HIDE DEF w2
<1>8. w.con[c].ofnexus \in {"dummy", "core"}
      BY <1>2 DEF Fields
<1>9. CASE w.con[c].dpid = NoDpid
      BY <1>1, <1>4, <1>5, <1>7, <1>8, <1>9 DEF Lost
<1>10. CASE w.con[c].dpid # NoDpid
  <2>1. Noted(w2, v, c, "ConnectionDown")
        BY <1>7, <1>10, RaiseNotes
  <2> HIDE DEF v
  <2>2. "ConnectionDown" \in Kinds
        BY DEF Kinds
  <2> QED BY <1>1, <1>4, <1>5, <1>7, <1>8, <2>1, <2>2 DEF Lost, Noted
<1> QED BY <1>9, <1>10

(* What a step of the controller does that neither sends, nor changes what *)
(* it knows of the switch: it may raise events and may disconnect.         *)
Quiet(w, v, c) ==
    /\ v \in Worlds
    /\ v.con = w.con \/ v.con = [w.con EXCEPT ![c].disconnected = TRUE]
    /\ v.toSwitch = w.toSwitch /\ v.delivered = w.delivered
    /\ \/ v.nexus = w.nexus
       \/ /\ v.con = [w.con EXCEPT ![c].disconnected = TRUE] /\ w.con[c].ofnexus = "core"
          /\ w.con[c].dpid # NoDpid => v.told[c] = Append(w.told[c], "ConnectionDown")
          /\ DOMAIN v.nexus = DOMAIN w.nexus \ {w.con[c].dpid}
          /\ \A d \in DOMAIN v.nexus : v.nexus[d] = w.nexus[d]
    /\ \A b \in Conns \ {c} : v.told[b] = w.told[b]
    /\ v.told[c] = w.told[c] \/ v.told[c] = Append(w.told[c], "ConnectionDown")
    /\ \/ v.seen = w.seen
       \/ w.con[c].ofnexus = "core" /\ v.seen = w.seen \union {w.con[c].dpid}

(* Doing nothing, disconnecting and raising an event are such steps. *)
LEMMA QuietSteps ==
    ASSUME NEW w \in Worlds, NEW v, NEW c \in Conns
    PROVE  /\ v = w => Quiet(w, v, c)
           /\ Lost(w, v, c) => Quiet(w, v, c)
           /\ \A kind : kind # "ConnectionUp" /\ Noted(w, v, c, kind) => Quiet(w, v, c)
<1>1. w.con[c].ofnexus \in {"dummy", "core"}
      BY DEF Worlds, Fields
<1>2. v = w => Quiet(w, v, c)
      BY DEF Quiet
<1>3. Lost(w, v, c) => Quiet(w, v, c)
      BY <1>1 DEF Lost, Quiet
<1>4. \A kind : kind # "ConnectionUp" /\ Noted(w, v, c, kind) => Quiet(w, v, c)
      BY DEF Noted, Quiet, Kinds
<1> QED BY <1>2, <1>3, <1>4

(* Messages q were sent to the switch of c. *)
Sent(w, v, c, q) ==
    /\ v \in Worlds /\ v.con = w.con /\ v.nexus = w.nexus /\ v.told = w.told /\ v.seen = w.seen
    /\ v.delivered = w.delivered
    /\ v.toSwitch = [w.toSwitch EXCEPT ![c] = q]

(* send() puts the message in the queue, finds that the connection is gone, *)
(* or does nothing.                                                         *)
LEMMA SendOutcome ==
    ASSUME NEW w \in Worlds, NEW c \in Conns, NEW m \in Demands, NEW v \in send(w, c, m)
    PROVE  /\ v \in Worlds
           /\ \/ v = w /\ (w.con[c].disconnected \/ ~ peer[c].up \/ m.t \in Silent)
              \/ /\ Lost(w, v, c) /\ ~ w.con[c].disconnected
                 /\ w.con[c].state = "closed" \/ ~ peer[c].up
              \/ /\ ~ w.con[c].disconnected /\ peer[c].up /\ m.t \notin Silent
                 /\ w.con[c].state # "closed"
                 /\ Sent(w, v, c, Append(w.toSwitch[c], m))
<1>1. Lost(w, disconnect(w, c), c)
      BY DisconnectLoses
<1>2. CASE w.con[c].disconnected
      BY <1>2 DEF send
<1>3. CASE ~ w.con[c].disconnected /\ w.con[c].state = "closed"
      BY <1>1, <1>3 DEF send, Lost
<1>4. CASE ~ w.con[c].disconnected /\ w.con[c].state # "closed" /\ ~ peer[c].up
  <2>1. v = w \/ v = disconnect(w, c)
        BY <1>4 DEF send
  <2> QED BY <1>1, <1>4, <2>1 DEF Lost
<1>5. CASE ~ w.con[c].disconnected /\ w.con[c].state # "closed" /\ peer[c].up /\ m.t \in Silent
      BY <1>5 DEF send
<1>6. CASE ~ w.con[c].disconnected /\ w.con[c].state # "closed" /\ peer[c].up
           /\ m.t \notin Silent
  <2> DEFINE t == [w.toSwitch EXCEPT ![c] = Append(w.toSwitch[c], m)]
  <2>1. v = [w EXCEPT !.toSwitch = t]
        BY <1>6 DEF send
  <2>2. w.toSwitch \in [Conns -> Seq(Demands)]
        BY DEF Worlds
  <2>3. Append(w.toSwitch[c], m) \in Seq(Demands)
        BY <2>2
  <2>4. t \in [Conns -> Seq(Demands)]
        BY <2>2, <2>3
  <2>5. v \in Worlds /\ v.con = w.con /\ v.nexus = w.nexus /\ v.told = w.told
        /\ v.seen = w.seen /\ v.delivered = w.delivered
        /\ v.toSwitch = t
    <3> HIDE DEF t
    <3> QED BY <2>1, <2>4 DEF Worlds
  <2> QED BY <1>6, <2>5 DEF Sent
<1> QED BY <1>2, <1>3, <1>4, <1>5, <1>6

(* Messages made by the controller have their types. *)
LEMMA MsgType ==
    ASSUME NEW t \in Requested, NEW x \in Int
    PROVE  Msg(t, x) \in Demands /\ Msg(t, x).t = t /\ Msg(t, x).xid = x
BY DEF Msg, Demands, StatsNames

(* So have the messages of a switch. *)
LEMMA AnswerType ==
    ASSUME NEW t \in Said, NEW x \in Int, NEW d \in Names
    PROVE  /\ Answer(t, x, d) \in Answers /\ Answer(t, x, d).t = t /\ Answer(t, x, d).xid = x
           /\ Answer(t, x, d).dpid = d
BY DEF Answer, Answers, StatsNames

(* SetUp() sends the deletion of all flows and then the barrier, or, on a  *)
(* connection that is lost, nothing at all.                                *)
LEMMA SetUpOutcome ==
    ASSUME NEW w \in Worlds, NEW c \in Conns, NEW x \in Int, NEW v \in SetUp(w, c, x),
           w.con[c].state = "open"
    PROVE  \/ v = w /\ (w.con[c].disconnected \/ ~ peer[c].up)
           \/ Lost(w, v, c) /\ ~ peer[c].up
           \/ /\ ~ w.con[c].disconnected /\ peer[c].up
              /\ Sent(w, v, c, Append(Append(w.toSwitch[c], Msg("flow_mod_delete", 0)),
                                      Msg("barrier_request", x)))
<1> DEFINE m1 == Msg("switch_config", 0)
           m2 == Msg("flow_mod_delete", 0)
           m3 == Msg("barrier_request", x)
<1>1. m1 \in Demands /\ m2 \in Demands /\ m3 \in Demands
      /\ m1.t \in Silent /\ m2.t \notin Silent /\ m3.t \notin Silent
  <2>1. m1 \in Demands /\ m2 \in Demands /\ m3 \in Demands
        BY MsgType DEF Requested, Silent
  <2>2. m1.t = "switch_config" /\ m2.t = "flow_mod_delete" /\ m3.t = "barrier_request"
        BY MsgType DEF Requested, Silent
  <2> QED BY <2>1, <2>2 DEF Silent
<1> HIDE DEF m1, m2, m3
<1>2. PICK a \in send(w, c, m1) : \E b \in send(a, c, m2) : v \in send(b, c, m3)
      BY DEF SetUp, m1, m2, m3
<1>3. PICK b \in send(a, c, m2) : v \in send(b, c, m3)
      BY <1>2
<1>4. a \in Worlds /\ (a = w \/ (Lost(w, a, c) /\ ~ peer[c].up))
      BY <1>1, SendOutcome
<1>5. \A u \in Worlds, n \in Demands : u.con[c].disconnected => send(u, c, n) = {u}
      BY DEF send
<1>6. \A u : Lost(w, u, c) => u.con[c].disconnected
      BY DEF Lost, Worlds, Fields
<1>7. CASE Lost(w, a, c) /\ ~ peer[c].up
      BY <1>1, <1>3, <1>4, <1>5, <1>6, <1>7
<1>8. CASE a = w
  <2>1. b \in Worlds
        BY <1>1, <1>4, SendOutcome
  <2>2. CASE w.con[c].disconnected
        BY <1>1, <1>3, <1>5, <1>8, <2>2
  <2>3. CASE ~ peer[c].up
    <3>1. b = w \/ Lost(w, b, c)
          BY <1>1, <1>8, <2>3, SendOutcome
    <3>2. CASE b = w
          BY <1>1, <1>3, <2>3, <3>2, SendOutcome
    <3>3. CASE Lost(w, b, c)
          BY <1>1, <1>3, <1>5, <1>6, <2>1, <2>3, <3>3
    <3> QED BY <3>1, <3>2, <3>3
  <2>4. CASE ~ w.con[c].disconnected /\ peer[c].up
    <3>1. Sent(w, b, c, Append(w.toSwitch[c], m2))
          BY <1>1, <1>8, <2>4, SendOutcome
    <3>2. b.con = w.con /\ b.toSwitch = [w.toSwitch EXCEPT ![c] = Append(w.toSwitch[c], m2)]
          BY <3>1 DEF Sent
    <3>3. Sent(b, v, c, Append(b.toSwitch[c], m3))
          BY <1>1, <1>3, <2>1, <2>4, <3>2, SendOutcome
    <3>4. w.toSwitch \in [Conns -> Seq(Demands)]
          BY DEF Worlds
    <3>5. b.toSwitch[c] = Append(w.toSwitch[c], m2)
          BY <3>2, <3>4
    <3>6. v.toSwitch = [w.toSwitch EXCEPT ![c] = Append(Append(w.toSwitch[c], m2), m3)]
          BY <3>2, <3>3, <3>4, <3>5 DEF Sent
    <3>7. Sent(w, v, c, Append(Append(w.toSwitch[c], m2), m3))
          BY <3>1, <3>3, <3>6 DEF Sent
    <3> QED BY <2>4, <3>7 DEF m2, m3
  <2> QED BY <2>2, <2>3, <2>4
<1> QED BY <1>4, <1>7, <1>8

-----------------------------------------------------------------------------
(* What reading a message does. *)

(* Only the fields of c may differ, and those that are not named here. *)
Others(w, v, c) == \A b \in Conns \ {c} : v.con[b] = w.con[b]

(* finish_connecting() for the barrier it waits for. *)
Finished(w, v, c) ==
    /\ v \in Worlds /\ Others(w, v, c)
    /\ v.con[c] = [w.con[c] EXCEPT !.barrier = 0, !.connect_time = TRUE]
    /\ v.nexus = w.nexus /\ v.toSwitch = w.toSwitch
    /\ v.delivered = w.delivered
    /\ \A b \in Conns \ {c} : v.told[b] = w.told[b]
    /\ v.told[c] = w.told[c] \/ v.told[c] = Append(w.told[c], "ConnectionUp")
    /\ \/ v.seen = w.seen
       \/ w.con[c].ofnexus = "core" /\ v.seen = w.seen \union {w.con[c].dpid}

(* The connection c becomes the one with fields r, and is registered for d. *)
Registered(w, v, c, r, d) ==
    /\ v \in Worlds /\ Others(w, v, c) /\ v.con[c] = r
    /\ DOMAIN v.nexus = DOMAIN w.nexus \union {d} /\ v.nexus[d] = c
    /\ \A e \in DOMAIN w.nexus \ {d} : v.nexus[e] = w.nexus[e]
    /\ v.toSwitch = w.toSwitch /\ v.told = w.told /\ v.seen = w.seen
    /\ v.delivered = w.delivered

(* The connection c becomes the one with fields r. *)
Known(w, v, c, r) ==
    /\ v \in Worlds /\ Others(w, v, c) /\ v.con[c] = r
    /\ v.nexus = w.nexus /\ v.toSwitch = w.toSwitch /\ v.told = w.told /\ v.seen = w.seen
    /\ v.delivered = w.delivered

(* Changing the fields of one connection gives a state of the controller. *)
LEMMA FieldsChange ==
    ASSUME NEW w \in Worlds, NEW c \in Conns, NEW r \in Fields
    PROVE  Known(w, [w EXCEPT !.con = [w.con EXCEPT ![c] = r]], c, r)
<1> DEFINE f == [w.con EXCEPT ![c] = r]
           v == [w EXCEPT !.con = f]
<1>1. w.con \in [Conns -> Fields]
      BY DEF Worlds
<1>2. f \in [Conns -> Fields] /\ f[c] = r /\ \A b \in Conns \ {c} : f[b] = w.con[b]
      BY <1>1
<1> HIDE DEF f
<1>3. v \in Worlds /\ v.con = f /\ v.nexus = w.nexus /\ v.toSwitch = w.toSwitch
      /\ v.told = w.told /\ v.seen = w.seen /\ v.delivered = w.delivered
      BY <1>2 DEF Worlds
<1> HIDE DEF v
<1>4. Known(w, v, c, r)
      BY <1>2, <1>3 DEF Known, Others
<1> QED BY <1>4 DEF v, f

(* _connect() enters the connection in the table of the nexus. *)
LEMMA ConnectRegisters ==
    ASSUME NEW w \in Worlds, NEW c \in Conns, w.con[c].dpid \in Dpids
    PROVE  Registered(w, _connect(w, c), c, w.con[c], w.con[c].dpid)
<1> DEFINE d == w.con[c].dpid
           f == [e \in DOMAIN w.nexus \union {d} |-> IF e = d THEN c ELSE w.nexus[e]]
           v == [w EXCEPT !.nexus = f]
<1>1. w.nexus \in Tables
      BY DEF Worlds
<1>2. DOMAIN w.nexus \union {d} \in SUBSET Dpids
      BY <1>1, TableHas
<1>3. f \in [DOMAIN w.nexus \union {d} -> Conns]
      BY <1>1, TableHas
<1>4. f \in Tables
      BY <1>2, <1>3, IsTable
<1>5. DOMAIN f = DOMAIN w.nexus \union {d} /\ f[d] = c
      /\ \A e \in DOMAIN w.nexus \ {d} : f[e] = w.nexus[e]
      OBVIOUS
<1>6. v = _connect(w, c)
      BY DEF _connect
<1> HIDE DEF f
<1>7. v \in Worlds /\ v.nexus = f /\ v.con = w.con /\ v.toSwitch = w.toSwitch
      /\ v.told = w.told /\ v.seen = w.seen /\ v.delivered = w.delivered
      BY <1>4 DEF Worlds
<1> HIDE DEF v, d
<1>8. Registered(w, v, c, w.con[c], d)
      BY <1>5, <1>7 DEF Registered, Others
<1> QED BY <1>6, <1>8 DEF d

(* finish_connecting() raises ConnectionUp when the barrier was answered. *)
LEMMA FinishOutcome ==
    ASSUME NEW w \in Worlds, NEW c \in Conns
    PROVE  Finished(w, finish_connecting(w, c, w.con[c].barrier), c)
<1> DEFINE r == [w.con[c] EXCEPT !.barrier = 0, !.connect_time = TRUE]
           u == [w EXCEPT !.con = [w.con EXCEPT ![c] = r]]
           v == RaiseAtNexus(u, c, "ConnectionUp")
<1>1. w.con \in [Conns -> Fields] /\ w.con[c] \in Fields
      BY DEF Worlds
<1>2. r \in Fields /\ r.ofnexus = w.con[c].ofnexus /\ r.dpid = w.con[c].dpid
  <2> DEFINE k == w.con[c]
  <2>1. k \in Fields
        BY <1>1
  <2> HIDE DEF k
  <2>2. [k EXCEPT !.barrier = 0, !.connect_time = TRUE] \in Fields
    <3> DEFINE k1 == [k EXCEPT !.connect_time = TRUE]
    <3>1. k1 \in Fields
          BY <2>1 DEF Fields
    <3>2. [k EXCEPT !.barrier = 0, !.connect_time = TRUE] = [k1 EXCEPT !.barrier = 0]
          BY <2>1 DEF Fields
    <3> HIDE DEF k1
    <3>3. [k1 EXCEPT !.barrier = 0] \in Fields
          BY <3>1 DEF Fields
    <3> QED BY <3>2, <3>3
  <2>3. /\ [k EXCEPT !.barrier = 0, !.connect_time = TRUE].ofnexus = k.ofnexus
        /\ [k EXCEPT !.barrier = 0, !.connect_time = TRUE].dpid = k.dpid
        BY <2>1 DEF Fields
  <2> QED BY <2>2, <2>3 DEF k
<1>3. finish_connecting(w, c, w.con[c].barrier) = v
  <2>1. [[w EXCEPT !.con[c].barrier = 0] EXCEPT !.con[c].connect_time = TRUE] = u
        BY <1>1 DEF Worlds, Fields
  <2> QED BY <2>1 DEF finish_connecting
<1> HIDE DEF r
<1>4. Known(w, u, c, r)
      BY <1>2, FieldsChange
<1> HIDE DEF u
<1>5. Noted(u, v, c, "ConnectionUp")
      BY <1>4, RaiseNotes DEF Known
<1> HIDE DEF v
<1>6. Finished(w, v, c)
  <2>1. v \in Worlds /\ Others(w, v, c) /\ v.con[c] = r
        BY <1>4, <1>5 DEF Known, Noted, Others
  <2>2. v.con[c] = [w.con[c] EXCEPT !.barrier = 0, !.connect_time = TRUE]
        BY <2>1 DEF r
  <2>3. v.nexus = w.nexus /\ v.toSwitch = w.toSwitch
        /\ v.delivered = w.delivered
        BY <1>4, <1>5 DEF Known, Noted
  <2>4. /\ \A b \in Conns \ {c} : v.told[b] = w.told[b]
        /\ v.told[c] = w.told[c] \/ v.told[c] = Append(w.told[c], "ConnectionUp")
        BY <1>4, <1>5 DEF Known, Noted
  <2>5. \/ v.seen = w.seen
        \/ w.con[c].ofnexus = "core" /\ v.seen = w.seen \union {w.con[c].dpid}
        BY <1>2, <1>4, <1>5 DEF Known, Noted
  <2> QED BY <2>1, <2>2, <2>3, <2>4, <2>5 DEF Finished
<1> QED BY <1>3, <1>6

(* The reply with the features d: a connection that is up registers again, *)
(* one that no nexus wants is disconnected, another one is registered and  *)
(* its barrier sent, or it is found lost.                                  *)
Again(w, v, c, d) ==
    LET r == [w.con[c] EXCEPT !.dpid = d]
    IN  (w.con[c].ofnexus = "core" /\ Registered(w, v, c, r, d)) \/ Known(w, v, c, r)
Refused(w, v, c, d) ==
    \E u \in Worlds : Known(w, u, c, [w.con[c] EXCEPT !.dpid = d]) /\ Lost(u, v, c)
Accepted(w, v, c, d) ==
    \E u \in Worlds :
        /\ Registered(w, u, c, [w.con[c] EXCEPT !.dpid = d, !.ofnexus = "core", !.barrier = - c], d)
        /\ \/ v = u /\ (w.con[c].disconnected \/ ~ peer[c].up)
           \/ Lost(u, v, c) /\ ~ peer[c].up
           \/ /\ ~ w.con[c].disconnected /\ peer[c].up
              /\ Sent(u, v, c, Append(Append(w.toSwitch[c], Msg("flow_mod_delete", 0)),
                                      Msg("barrier_request", - c)))

(* handle_FEATURES_REPLY() ends in one of these ways. *)
LEMMA FeaturesOutcome ==
    ASSUME NEW w \in Worlds, NEW c \in Conns, NEW m \in Answers, m.dpid \in Dpids,
           w.con[c].state = "open", NEW v \in handle_FEATURES_REPLY(w, c, m, - c)
    PROVE  \/ w.con[c].connect_time /\ Again(w, v, c, m.dpid)
           \/ ~ w.con[c].connect_time /\ Refused(w, v, c, m.dpid)
           \/ ~ w.con[c].connect_time /\ Accepted(w, v, c, m.dpid)
<1> DEFINE d == m.dpid
           r1 == [w.con[c] EXCEPT !.dpid = d]
           w1 == [w EXCEPT !.con = [w.con EXCEPT ![c] = r1]]
           r2 == [w.con[c] EXCEPT !.dpid = d, !.ofnexus = "core"]
           w2 == [w EXCEPT !.con = [w.con EXCEPT ![c] = r2]]
           w3 == _connect(w2, c)
           r4 == [w.con[c] EXCEPT !.dpid = d, !.ofnexus = "core", !.barrier = - c]
           w4 == [w3 EXCEPT !.con = [w3.con EXCEPT ![c] = r4]]
<1>1. w.con \in [Conns -> Fields] /\ w.con[c] \in Fields /\ d \in Dpids /\ d \in Names
      BY DEF Worlds, Names
<1>2. r1 \in Fields /\ r1.dpid = d /\ r2 \in Fields /\ r2.dpid = d /\ r4 \in Fields
      /\ r4.disconnected = w.con[c].disconnected /\ r4.state = w.con[c].state
      /\ [r2 EXCEPT !.barrier = - c] = r4
  <2> DEFINE k == w.con[c]
  <2>1. k \in Fields /\ - c \in Int
        BY <1>1, ConnNumber
  <2> HIDE DEF k, d
  <2>2. [k EXCEPT !.dpid = d] \in Fields /\ [k EXCEPT !.dpid = d].dpid = d
        BY <1>1, <2>1 DEF Fields
  <2>3. /\ [k EXCEPT !.dpid = d, !.ofnexus = "core"] \in Fields
        /\ [k EXCEPT !.dpid = d, !.ofnexus = "core"].dpid = d
        BY <1>1, <2>1 DEF Fields
  <2>4. /\ [k EXCEPT !.dpid = d, !.ofnexus = "core", !.barrier = - c] \in Fields
        /\ [k EXCEPT !.dpid = d, !.ofnexus = "core", !.barrier = - c].disconnected = k.disconnected
        /\ [k EXCEPT !.dpid = d, !.ofnexus = "core", !.barrier = - c].state = k.state
        BY <1>1, <2>1 DEF Fields
  <2>5. [[k EXCEPT !.dpid = d, !.ofnexus = "core"] EXCEPT !.barrier = - c] =
          [k EXCEPT !.dpid = d, !.ofnexus = "core", !.barrier = - c]
        BY <2>1 DEF Fields
  <2> QED BY <2>2, <2>3, <2>4, <2>5 DEF k
<1>3. [w EXCEPT !.con[c].dpid = d] = w1 /\ [w1 EXCEPT !.con[c].ofnexus = "core"] = w2
      BY <1>1 DEF Worlds, Fields
<1>4. handle_FEATURES_REPLY(w, c, m, - c) =
        IF w.con[c].connect_time
        THEN {IF w.con[c].ofnexus = "core" THEN _connect(w1, c) ELSE w1}
        ELSE IF getNexus(d) = "none" THEN {disconnect(w1, c)}
        ELSE SetUp([w3 EXCEPT !.con[c].barrier = - c], c, - c)
      BY <1>3 DEF handle_FEATURES_REPLY
<1> HIDE DEF r1, r2, d
<1>5. Known(w, w1, c, r1) /\ Known(w, w2, c, r2)
      BY <1>2, FieldsChange
<1> HIDE DEF w1, w2
<1>6. CASE w.con[c].connect_time
  <2>1. CASE w.con[c].ofnexus = "core"
    <3>1. v = _connect(w1, c)
          BY <1>4, <1>6, <2>1
    <3>2. Registered(w1, v, c, r1, d)
          BY <1>1, <1>2, <1>5, <3>1, ConnectRegisters DEF Known
    <3>3. Registered(w, v, c, r1, d)
          BY <1>5, <3>2 DEF Registered, Known, Others
    <3> QED BY <1>6, <2>1, <3>3 DEF Again, r1, d
  <2>2. CASE w.con[c].ofnexus # "core"
    <3>1. v = w1
          BY <1>4, <1>6, <2>2
    <3> QED BY <1>5, <1>6, <3>1 DEF Again, r1, d
  <2> QED BY <2>1, <2>2
<1>7. CASE ~ w.con[c].connect_time /\ getNexus(d) = "none"
  <2>1. v = disconnect(w1, c)
        BY <1>4, <1>7
  <2>2. Lost(w1, v, c)
        BY <1>5, <2>1, DisconnectLoses DEF Known
  <2> QED BY <1>5, <1>7, <2>2 DEF Refused, Known, r1, d
<1>8. CASE ~ w.con[c].connect_time /\ getNexus(d) # "none"
  <2>1. Registered(w2, w3, c, r2, d)
        BY <1>1, <1>2, <1>5, ConnectRegisters DEF Known
  <2> HIDE DEF w3
  <2>2. [w3 EXCEPT !.con[c].barrier = - c] = w4
    <3>1. [w3.con[c] EXCEPT !.barrier = - c] = r4
          BY <1>2, <2>1 DEF Registered
    <3> HIDE DEF r4
    <3> QED BY <2>1, <3>1 DEF Registered, Worlds
  <2> HIDE DEF r4
  <2>3. Known(w3, w4, c, r4)
        BY <1>2, <2>1, FieldsChange DEF Registered
  <2>4. v \in SetUp(w4, c, - c)
        BY <1>4, <1>8, <2>2
  <2> HIDE DEF w4
  <2>5. Registered(w, w4, c, r4, d)
        BY <1>5, <2>1, <2>3 DEF Registered, Known, Others
  <2>6. w4 \in Worlds /\ w4.con[c] = r4 /\ w4.toSwitch = w.toSwitch
        BY <2>5 DEF Registered
  <2>7. \/ v = w4 /\ (w4.con[c].disconnected \/ ~ peer[c].up)
        \/ Lost(w4, v, c) /\ ~ peer[c].up
        \/ /\ ~ w4.con[c].disconnected /\ peer[c].up
           /\ Sent(w4, v, c, Append(Append(w4.toSwitch[c], Msg("flow_mod_delete", 0)),
                                   Msg("barrier_request", - c)))
        BY <1>2, <2>4, <2>6, SetUpOutcome, ConnNumber
  <2>8. Accepted(w, v, c, d)
        BY <1>2, <2>5, <2>6, <2>7 DEF Accepted, r4
  <2> QED BY <1>8, <2>8 DEF d
<1> QED BY <1>6, <1>7, <1>8

(* What happens to a part m of a stats reply: it is dropped, with the parts *)
(* before it or alone, kept, or completes a reply.                          *)
Fits(prev, m) == prev = <<>> \/ (prev[1].xid = m.xid /\ prev[1].type = m.type)
Filed(w, v, c, m) ==
    LET prev == w.con[c].previous_stats
        rest == v.con[c].previous_stats
    IN  /\ Known([w EXCEPT !.delivered = v.delivered], v, c,
                 [w.con[c] EXCEPT !.previous_stats = rest])
        /\ \A b \in Conns \ {c} : v.delivered[b] = w.delivered[b]
        /\ \/ /\ m.more /\ m.type \notin Aggregated /\ rest = <<>>
              /\ v.delivered[c] = w.delivered[c]
           \/ ~ Fits(prev, m) /\ rest = prev /\ v.delivered[c] = w.delivered[c]
           \/ /\ Fits(prev, m) /\ m.more /\ rest = Append(prev, m)
              /\ v.delivered[c] = w.delivered[c]
           \/ /\ Fits(prev, m) /\ ~ m.more /\ rest = <<>>
              /\ v.delivered[c] \in {w.delivered[c], w.delivered[c] \union {Append(prev, m)}}

(* A change of the statistics of one connection, and what it means. *)
Refiled(w, c, rest, D) ==
    [w EXCEPT !.con = [w.con EXCEPT ![c] = [w.con[c] EXCEPT !.previous_stats = rest]],
              !.delivered = [w.delivered EXCEPT ![c] = D]]
StatsOf(w, v, c, rest, D) ==
    /\ Known([w EXCEPT !.delivered = v.delivered], v, c,
             [w.con[c] EXCEPT !.previous_stats = rest])
    /\ v.con[c].previous_stats = rest /\ v.delivered[c] = D
    /\ \A b \in Conns \ {c} : v.delivered[b] = w.delivered[b]

(* Such a change leaves everything else as it is. *)
LEMMA StatsChange ==
    ASSUME NEW w \in Worlds, NEW c \in Conns, NEW rest \in Seq(Answers),
           NEW D \in SUBSET Seq(Answers)
    PROVE  StatsOf(w, Refiled(w, c, rest, D), c, rest, D)
<1> DEFINE r == [w.con[c] EXCEPT !.previous_stats = rest]
           de == [w.delivered EXCEPT ![c] = D]
           u == [w EXCEPT !.delivered = de]
           v == Refiled(w, c, rest, D)
<1>1. /\ w.con \in [Conns -> Fields] /\ w.con[c] \in Fields
      /\ w.delivered \in [Conns -> SUBSET Seq(Answers)]
      BY DEF Worlds
<1>2. r \in Fields /\ r.previous_stats = rest
  <2> DEFINE k == w.con[c]
  <2>1. k \in Fields
        BY <1>1
  <2> HIDE DEF k
  <2> QED BY <2>1 DEF Fields, k
<1>3. /\ de \in [Conns -> SUBSET Seq(Answers)] /\ de[c] = D
      /\ \A b \in Conns \ {c} : de[b] = w.delivered[b]
      BY <1>1
<1> HIDE DEF r, de
<1>4. u \in Worlds /\ u.con = w.con
      BY <1>3 DEF Worlds
<1>5. v = [u EXCEPT !.con = [u.con EXCEPT ![c] = r]] /\ v.delivered = de
      BY <1>4 DEF Worlds, r, de, Refiled
<1>6. [w EXCEPT !.delivered = v.delivered] = u
      BY <1>5
<1> HIDE DEF u, v
<1>7. Known(u, v, c, r)
      BY <1>2, <1>4, <1>5, FieldsChange
<1>8. v.con[c].previous_stats = rest
      BY <1>2, <1>7 DEF Known
<1>9. StatsOf(w, v, c, rest, D)
      BY <1>3, <1>5, <1>6, <1>7, <1>8 DEF StatsOf, r
<1> QED BY <1>9 DEF v

(* _incoming_stats_reply() files a part in one of these ways; the nexus     *)
(* hears nothing that names a datapath.                                     *)
LEMMA StatsOutcome ==
    ASSUME NEW w \in Worlds, NEW c \in Conns, NEW m \in Answers,
           NEW v \in handle_STATS_REPLY(w, c, m)
    PROVE  Filed(w, v, c, m)
<1> DEFINE prev == w.con[c].previous_stats
           D == w.delivered[c]
<1>1. /\ w.con \in [Conns -> Fields] /\ w.con[c] \in Fields /\ prev \in Seq(Answers)
      /\ w.delivered \in [Conns -> SUBSET Seq(Answers)]
      BY DEF Worlds, Fields
<1>2. \A u, kind : kind \notin SwitchEvents => RaiseAtNexus(u, c, kind) = u
      BY DEF RaiseAtNexus
<1>3. v = _incoming_stats_reply(w, c, m)
  <2>1. "RawStatsReply" \notin SwitchEvents
        BY DEF SwitchEvents
  <2> QED BY <1>2, <2>1 DEF handle_STATS_REPLY
<1>4. /\ Append(prev, m) \in Seq(Answers) /\ <<>> \in Seq(Answers) /\ D \in SUBSET Seq(Answers)
      /\ D \union {Append(prev, m)} \in SUBSET Seq(Answers)
      BY <1>1
<1>5. [w.delivered EXCEPT ![c] = D] = w.delivered
      BY <1>1
<1>6. CASE m.more /\ m.type \notin Aggregated
  <2>1. v = Refiled(w, c, <<>>, D)
        BY <1>1, <1>3, <1>5, <1>6 DEF _incoming_stats_reply, Worlds, Refiled
  <2>2. StatsOf(w, v, c, <<>>, D)
        BY <1>4, <2>1, StatsChange
  <2> HIDE DEF prev
  <2> QED BY <1>6, <2>2 DEF Filed, StatsOf, prev
<1>7. CASE ~ (m.more /\ m.type \notin Aggregated) /\ ~ Fits(prev, m)
  <2>1. v = Refiled(w, c, prev, D)
    <3>1. v = w
          BY <1>3, <1>7 DEF _incoming_stats_reply, Fits
    <3>2. [w.con EXCEPT ![c] = [w.con[c] EXCEPT !.previous_stats = prev]] = w.con
          BY <1>1 DEF Fields
    <3> QED BY <1>5, <3>1, <3>2 DEF Worlds, Refiled
  <2>2. StatsOf(w, v, c, prev, D)
        BY <1>1, <1>4, <2>1, StatsChange
  <2> HIDE DEF prev
  <2> QED BY <1>7, <2>2 DEF Filed, StatsOf, prev
<1>8. CASE ~ (m.more /\ m.type \notin Aggregated) /\ Fits(prev, m) /\ m.more
  <2>1. v = Refiled(w, c, Append(prev, m), D)
    <3>1. v = [w EXCEPT !.con = [w.con EXCEPT ![c] =
                          [w.con[c] EXCEPT !.previous_stats = Append(prev, m)]]]
          BY <1>3, <1>8 DEF _incoming_stats_reply, Fits
    <3> QED BY <1>5, <3>1 DEF Worlds, Refiled
  <2>2. StatsOf(w, v, c, Append(prev, m), D)
        BY <1>1, <1>4, <2>1, StatsChange
  <2> HIDE DEF prev
  <2> QED BY <1>8, <2>2 DEF Filed, StatsOf, prev
<1>9. CASE Fits(prev, m) /\ ~ m.more /\ m.type \notin statsHandlerMap
  <2>1. v = Refiled(w, c, <<>>, D)
    <3>1. v = [w EXCEPT !.con = [w.con EXCEPT ![c] =
                          [w.con[c] EXCEPT !.previous_stats = <<>>]]]
          BY <1>1, <1>3, <1>9 DEF _incoming_stats_reply, Fits, Worlds
    <3> QED BY <1>5, <3>1 DEF Worlds, Refiled
  <2>2. StatsOf(w, v, c, <<>>, D)
        BY <1>1, <1>4, <2>1, StatsChange
  <2> HIDE DEF prev
  <2> QED BY <1>9, <2>2 DEF Filed, StatsOf, prev
<1>10. CASE Fits(prev, m) /\ ~ m.more /\ m.type \in statsHandlerMap
  <2>1. v = Refiled(w, c, <<>>, D \union {Append(prev, m)})
    <3>1. v = [w EXCEPT !.con = [w.con EXCEPT ![c] =
                          [w.con[c] EXCEPT !.previous_stats = <<>>]],
                        !.delivered = [w.delivered EXCEPT ![c] =
                          w.delivered[c] \union {Append(prev, m)}]]
      <4>1. "StatsReceived" \notin SwitchEvents
            BY DEF SwitchEvents
      <4> QED BY <1>2, <1>3, <1>10, <4>1 DEF _incoming_stats_reply, Fits
    <3> QED BY <3>1 DEF Worlds, Refiled
  <2>2. StatsOf(w, v, c, <<>>, D \union {Append(prev, m)})
        BY <1>1, <1>4, <2>1, StatsChange
  <2> HIDE DEF prev
  <2> QED BY <1>10, <2>2 DEF Filed, StatsOf, prev
<1> QED BY <1>6, <1>7, <1>8, <1>9, <1>10

(* A message that completes the connection c: the answer to its barrier. *)
Completes(w, c, m) ==
    m.t \in {"barrier_reply", "error"} /\ w.con[c].barrier # 0 /\ m.xid = w.con[c].barrier

(* The ways in which a message m that c reads may be handled. *)
Outcome(w, v, c, m) ==
    \/ m.t \notin {"features_reply", "stats_reply"} /\ ~ Completes(w, c, m) /\ Quiet(w, v, c)
    \/ /\ m.t = "hello" /\ ~ w.con[c].disconnected /\ peer[c].up
       /\ Sent(w, v, c, Append(w.toSwitch[c], Msg("features_request", 0)))
    \/ Completes(w, c, m) /\ Finished(w, v, c)
    \/ m.t = "features_reply" /\ w.con[c].connect_time /\ Again(w, v, c, m.dpid)
    \/ m.t = "features_reply" /\ ~ w.con[c].connect_time /\ Refused(w, v, c, m.dpid)
    \/ m.t = "features_reply" /\ ~ w.con[c].connect_time /\ Accepted(w, v, c, m.dpid)
    \/ m.t = "stats_reply" /\ Filed(w, v, c, m)

(* Handled() ends in one of these ways, provided that an answer to a       *)
(* barrier that comes while the listener waits is the one it waits for.    *)
LEMMA HandledOutcome ==
    ASSUME NEW w \in Worlds, NEW c \in Conns, NEW m \in Answers, w.con[c].state = "open",
           m.t = "features_reply" => m.dpid \in Dpids,
           m.t = "barrier_reply" /\ w.con[c].barrier # 0 => m.xid = w.con[c].barrier,
           NEW v \in Handled(w, c, m)
    PROVE  Outcome(w, v, c, m)
<1>1. CASE m.t = "hello"
  <2>1. v \in send(w, c, Msg("features_request", 0))
        BY <1>1 DEF Handled, handle_HELLO
  <2>2. Msg("features_request", 0) \in Demands
        BY MsgType DEF Requested
  <2>3. \/ Quiet(w, v, c)
        \/ /\ ~ w.con[c].disconnected /\ peer[c].up
           /\ Sent(w, v, c, Append(w.toSwitch[c], Msg("features_request", 0)))
        BY <2>1, <2>2, SendOutcome, QuietSteps
  <2> QED BY <1>1, <2>3 DEF Outcome, Completes
<1>2. CASE m.t = "echo_request"
  <2>1. v \in send(w, c, Msg("echo_reply", 0))
        BY <1>2 DEF Handled, handle_ECHO_REQUEST
  <2>2. Msg("echo_reply", 0) \in Demands /\ Msg("echo_reply", 0).t = "echo_reply"
        BY MsgType DEF Requested, Silent
  <2>3. Msg("echo_reply", 0).t \in Silent
        BY <2>2 DEF Silent
  <2>4. Quiet(w, v, c)
        BY <2>1, <2>2, <2>3, SendOutcome, QuietSteps
  <2> QED BY <1>2, <2>4 DEF Outcome, Completes
<1>3. CASE m.t \in {"flow_removed", "port_status", "packet_in"}
  <2>1. \E kind : kind # "ConnectionUp" /\ v = RaiseAtNexus(w, c, kind)
        BY <1>3 DEF Handled, handle_FLOW_REMOVED, handle_PORT_STATUS, handle_PACKET_IN
  <2>2. Quiet(w, v, c)
        BY <2>1, RaiseNotes, QuietSteps
  <2> QED BY <1>3, <2>2 DEF Outcome, Completes
<1>4. CASE m.t = "features_reply"
  <2>1. v \in handle_FEATURES_REPLY(w, c, m, - c)
        BY <1>4 DEF Handled
  <2>2. \/ w.con[c].connect_time /\ Again(w, v, c, m.dpid)
        \/ ~ w.con[c].connect_time /\ Refused(w, v, c, m.dpid)
        \/ ~ w.con[c].connect_time /\ Accepted(w, v, c, m.dpid)
        BY <1>4, <2>1, FeaturesOutcome
  <2> QED BY <1>4, <2>2 DEF Outcome
<1>5. CASE m.t = "barrier_reply"
  <2> DEFINE w1 == RaiseAtNexus(w, c, "BarrierIn")
  <2>1. v \in handle_BARRIER(w, c, m.xid)
        BY <1>5 DEF Handled
  <2>2. Noted(w, w1, c, "BarrierIn")
        BY RaiseNotes
  <2>3. CASE w.con[c].barrier = 0
    <3>1. v = w1
          BY <2>1, <2>3 DEF handle_BARRIER
    <3>2. Quiet(w, v, c)
          BY <2>2, <3>1, QuietSteps
    <3> QED BY <1>5, <2>3, <3>2 DEF Outcome, Completes
  <2>4. CASE w.con[c].barrier # 0
    <3>1. v = finish_connecting(w1, c, w.con[c].barrier)
          BY <1>5, <2>1, <2>4 DEF handle_BARRIER
    <3> HIDE DEF w1
    <3>2. w1 \in Worlds /\ w1.con = w.con /\ w1.told[c] = w.told[c]
          BY <2>2 DEF Noted, Kinds
    <3>3. Finished(w1, v, c)
          BY <3>1, <3>2, FinishOutcome
    <3>4. Finished(w, v, c)
          BY <2>2, <3>2, <3>3 DEF Finished, Noted, Others
    <3> QED BY <1>5, <2>4, <3>4 DEF Outcome, Completes
  <2> QED BY <2>3, <2>4
<1>6. CASE m.t = "error"
  <2>1. v \in handle_ERROR_MSG(w, c, m.xid)
        BY <1>6 DEF Handled
  <2>2. CASE w.con[c].barrier # 0 /\ m.xid = w.con[c].barrier
    <3>1. v = finish_connecting(w, c, w.con[c].barrier)
          BY <2>1, <2>2 DEF handle_ERROR_MSG
    <3> QED BY <1>6, <2>2, <3>1, FinishOutcome DEF Outcome, Completes
  <2>3. CASE ~ (w.con[c].barrier # 0 /\ m.xid = w.con[c].barrier)
    <3>1. v = w
          BY <2>1, <2>3 DEF handle_ERROR_MSG
    <3> QED BY <1>6, <2>3, <3>1, QuietSteps DEF Outcome, Completes
  <2> QED BY <2>2, <2>3
<1>7. CASE m.t = "stats_reply"
  <2>1. v \in handle_STATS_REPLY(w, c, m)
        BY <1>7 DEF Handled
  <2> QED BY <1>7, <2>1, StatsOutcome DEF Outcome
<1>8. CASE m.t \notin {"hello", "echo_request", "flow_removed", "port_status", "packet_in",
                       "features_reply", "barrier_reply", "error", "stats_reply"}
  <2>1. v = w
        BY <1>8 DEF Handled
  <2> QED BY <1>8, <2>1, QuietSteps DEF Outcome, Completes
<1> QED BY <1>1, <1>2, <1>3, <1>4, <1>5, <1>6, <1>7, <1>8

(* However it ends, the controller is in one of its states. *)
LEMMA OutcomeWorlds ==
    ASSUME NEW w \in Worlds, NEW v, NEW c, NEW m, Outcome(w, v, c, m)
    PROVE  v \in Worlds
BY DEF Outcome, Quiet, Sent, Finished, Again, Refused, Accepted, Registered, Known, Lost, Filed

-----------------------------------------------------------------------------
(* One connection: what a step of the controller keeps. *)

(* A queue without its first message. *)
LEMMA TailOf ==
    ASSUME NEW S, NEW q \in Seq(S), q # <<>>
    PROVE  /\ Tail(q) \in Seq(S) /\ Head(q) \in S /\ Head(q) = q[1]
           /\ Len(q) \in Nat \ {0} /\ Len(Tail(q)) = Len(q) - 1
           /\ \A i \in 1 .. Len(Tail(q)) : i + 1 \in 1 .. Len(q) /\ Tail(q)[i] = q[i + 1]
           /\ \A i \in 2 .. Len(q) : i - 1 \in 1 .. Len(Tail(q)) /\ Tail(q)[i - 1] = q[i]
<1>1. Tail(q) \in Seq(S) /\ Len(q) \in Nat \ {0} /\ Len(Tail(q)) = Len(q) - 1
      OBVIOUS
<1>2. Head(q) \in S /\ Head(q) = q[1]
      OBVIOUS
<1>3. \A i \in 1 .. Len(Tail(q)) : i + 1 \in 1 .. Len(q) /\ Tail(q)[i] = q[i + 1]
      OBVIOUS
<1>4. \A i \in 2 .. Len(q) : i - 1 \in 1 .. Len(Tail(q)) /\ Tail(q)[i - 1] = q[i]
      OBVIOUS
<1> QED BY <1>1, <1>2, <1>3, <1>4

(* A queue with one more message. *)
LEMMA AppendOf ==
    ASSUME NEW S, NEW q \in Seq(S), NEW x \in S
    PROVE  /\ Append(q, x) \in Seq(S) /\ Len(q) \in Nat /\ Len(Append(q, x)) = Len(q) + 1
           /\ \A i \in 1 .. Len(q) : Append(q, x)[i] = q[i]
           /\ Append(q, x)[Len(q) + 1] = x
OBVIOUS

(* What is known of a connection only depends on its own state. *)
LEMMA Untouched ==
    ASSUME NEW c \in Conns, Local(c), con'[c] = con[c], toSwitch'[c] = toSwitch[c],
           toCtl'[c] = toCtl[c], peer'[c] = peer[c], pending'[c] = pending[c],
           told'[c] = told[c], peer[c].up => flows'[peer[c].dpid] = flows[peer[c].dpid]
    PROVE  Local(c)'
<1>1. Ends(c)'
      BY DEF Local, Ends
<1>2. Listening(c)'
      BY DEF Local, Listening
<1>3. Greeting(c)'
      BY DEF Local, Greeting
<1>4. Acked(c)' <=> Acked(c)
      BY DEF Acked
<1>5. Waiting(c)'
      BY <1>4 DEF Local, Waiting
<1>6. Clean(c)'
      BY <1>4 DEF Local, Clean
<1> QED BY <1>1, <1>2, <1>3, <1>5, <1>6 DEF Local

(* The messages to read: all of them, none because the connection is       *)
(* closed, or all but the first, if that did not complete the connection.  *)
Reads(c) ==
    \/ toCtl'[c] = toCtl[c]
    \/ toCtl'[c] = <<>> /\ con'[c].state = "closed"
    \/ /\ toCtl[c] # <<>> /\ toCtl'[c] = Tail(toCtl[c])
       /\ ~ (con[c].barrier # 0 /\ Ack(c, toCtl[c][1]))

(* Events, disconnecting, closing and learning the dpid keep what is known *)
(* of a connection.                                                        *)
LEMMA QuietLocal ==
    ASSUME NEW c \in Conns, Types, Types', Local(c), con[c].state # "unused",
           con'[c].state \in {con[c].state, "closed"},
           con'[c].dpid = con[c].dpid \/ con'[c].dpid = peer[c].dpid,
           con'[c].ofnexus = con[c].ofnexus, con'[c].connect_time = con[c].connect_time,
           con'[c].barrier = con[c].barrier, con[c].disconnected => con'[c].disconnected,
           toSwitch'[c] = toSwitch[c], peer' = peer, flows' = flows, pending' = pending,
           told'[c] = told[c] \/ told'[c] = Append(told[c], "ConnectionDown"), Reads(c)
    PROVE  Local(c)'
<1> DEFINE q == toCtl[c]
           r == toCtl'[c]
<1>1. q \in Seq(Answers) /\ r \in Seq(Answers)
      BY DEF Types
<1>2. told[c] \in Seq(Kinds) /\ "ConnectionDown" \in Kinds
      BY WorldFields DEF Types, Worlds, Kinds
<1>3. \E k \in {0, 1} : \A i \in 1 .. Len(r) : i + k \in 1 .. Len(q) /\ r[i] = q[i + k]
  <2>1. CASE r = q
    <3>1. \A i \in 1 .. Len(r) : i + 0 \in 1 .. Len(q) /\ r[i] = q[i + 0]
          BY <1>1, <2>1
    <3> QED BY <3>1
  <2>2. CASE r = <<>>
    <3>1. \A i \in 1 .. Len(r) : i + 0 \in 1 .. Len(q) /\ r[i] = q[i + 0]
          BY <2>2
    <3> QED BY <3>1
  <2>3. CASE q # <<>> /\ r = Tail(q)
    <3>1. \A i \in 1 .. Len(r) : i + 1 \in 1 .. Len(q) /\ r[i] = q[i + 1]
          BY <1>1, <2>3, TailOf
    <3> QED BY <3>1
  <2> QED BY <2>1, <2>2, <2>3 DEF Reads
<1>4. PICK k \in {0, 1} : \A i \in 1 .. Len(r) : i + k \in 1 .. Len(q) /\ r[i] = q[i + k]
      BY <1>3
<1>5. \A i \in 1 .. Len(told'[c]) :
        told'[c][i] = "ConnectionUp" => i \in 1 .. Len(told[c]) /\ told[c][i] = "ConnectionUp"
  <2>1. CASE told'[c] = told[c]
        BY <2>1
  <2>2. CASE told'[c] = Append(told[c], "ConnectionDown")
    <3> DEFINE a == told[c]
               b == told'[c]
    <3>1. Len(a) \in Nat /\ Len(b) = Len(a) + 1 /\ b[Len(a) + 1] = "ConnectionDown"
          /\ \A i \in 1 .. Len(a) : b[i] = a[i]
          BY <1>2, <2>2, AppendOf
    <3> HIDE DEF a, b
    <3>2. \A i \in 1 .. Len(b) : b[i] = "ConnectionUp" => i \in 1 .. Len(a) /\ a[i] = "ConnectionUp"
          BY <3>1
    <3> QED BY <3>2 DEF a, b
  <2> QED BY <2>1, <2>2
<1>6. Ends(c)'
  <2>1. \A i \in 1 .. Len(r) : r[i].t = "features_reply" => r[i].dpid = peer[c].dpid
        BY <1>4 DEF Local, Ends
  <2> QED BY <2>1 DEF Local, Ends
<1>7. Listening(c)'
  <2>1. con[c].ofnexus = "core" => con'[c].dpid # NoDpid
        BY ConnectionAssumption DEF Local, Ends, Listening
  <2> QED BY <1>5, <2>1 DEF Local, Listening
<1>8. Greeting(c)'
  <2>1. SUFFICES ASSUME con[c].state = "open", ~ con[c].connect_time, con[c].barrier = 0
                 PROVE  Greeting(c)'
        BY DEF Greeting
  <2>2. /\ con[c].ofnexus = "dummy"
        /\ Len(toSwitch[c]) <= 1
        /\ \A i \in 1 .. Len(toSwitch[c]) : toSwitch[c][i].t = "features_request"
        /\ \A i \in 1 .. Len(q) : q[i].t # "barrier_reply"
        /\ \A i, j \in 1 .. Len(q) : Drives(q[i]) /\ Drives(q[j]) => i = j
        /\ (\E i \in 1 .. Len(q) : Drives(q[i])) => toSwitch[c] = <<>>
        BY <2>1 DEF Local, Greeting
  <2> HIDE DEF q, r
  <2>3. /\ \A i \in 1 .. Len(r) : r[i].t # "barrier_reply"
        /\ (\E i \in 1 .. Len(r) : Drives(r[i])) => toSwitch[c] = <<>>
        BY <1>4, <2>2
  <2>4. \A i, j \in 1 .. Len(r) : Drives(r[i]) /\ Drives(r[j]) => i = j
    <3>1. SUFFICES ASSUME NEW i \in 1 .. Len(r), NEW j \in 1 .. Len(r), Drives(r[i]), Drives(r[j])
                   PROVE  i = j
          OBVIOUS
    <3>2. i + k = j + k
          BY <1>4, <2>2, <3>1
    <3> QED BY <3>2
  <2> QED BY <2>2, <2>3, <2>4 DEF Greeting, r
<1>9. Acked(c)' => Acked(c)
      BY <1>4 DEF Acked
<1>10. Waiting(c)'
  <2>1. SUFFICES ASSUME con'[c].state = "open", con[c].barrier # 0
                 PROVE  Waiting(c)'
        BY DEF Waiting
  <2>2. con[c].state = "open"
        BY <2>1
  <2>3. /\ \A i \in 1 .. Len(q) : q[i].t \in {"barrier_reply", "features_reply"} =>
               \E j \in 1 .. i : Ack(c, q[j])
        /\ \A i \in 1 .. Len(q) : q[i].t # "hello"
        /\ ~ Acked(c) =>
             /\ \A i \in 1 .. Len(toSwitch[c]) :
                  toSwitch[c][i].t \in {"barrier_request", "features_request"} =>
                      \E j \in 1 .. i : Bar(c, toSwitch[c][j])
             /\ peer[c].up /\ ~ con[c].disconnected =>
                  \E j \in 1 .. Len(toSwitch[c]) : Bar(c, toSwitch[c][j])
        BY <2>1, <2>2 DEF Local, Waiting
  <2>4. CASE r = q
    <3>1. Acked(c)' <=> Acked(c)
          BY <2>4 DEF Acked
    <3> QED BY <2>3, <2>4, <3>1 DEF Waiting
  <2>5. CASE q # <<>> /\ r = Tail(q) /\ ~ Ack(c, q[1])
    <3>1. /\ \A i \in 1 .. Len(r) : i + 1 \in 1 .. Len(q) /\ r[i] = q[i + 1]
          /\ \A i \in 2 .. Len(q) : i - 1 \in 1 .. Len(r) /\ r[i - 1] = q[i]
          /\ Len(q) \in Nat /\ Len(r) \in Nat
          BY <1>1, <2>5, TailOf
    <3>2. Acked(c) <=> \E i \in 1 .. Len(q) : Ack(c, q[i])
          BY DEF Acked
    <3>3. Acked(c)' <=> \E i \in 1 .. Len(r) : Ack(c, r[i])
          BY DEF Acked
    <3> HIDE DEF q, r
    <3>4. \A j \in 1 .. Len(q) : Ack(c, q[j]) => j \in 2 .. Len(q)
          BY <2>5, <3>1
    <3>5. Acked(c) => Acked(c)'
          BY <3>1, <3>2, <3>3, <3>4
    <3>6. \A i \in 1 .. Len(r) : r[i].t \in {"barrier_reply", "features_reply"} =>
             \E j \in 1 .. i : Ack(c, r[j])
      <4>1. SUFFICES ASSUME NEW i \in 1 .. Len(r), r[i].t \in {"barrier_reply", "features_reply"}
                     PROVE  \E j \in 1 .. i : Ack(c, r[j])
            OBVIOUS
      <4>2. PICK j \in 1 .. i + 1 : Ack(c, q[j])
            BY <2>3, <3>1, <4>1
      <4>3. j \in 1 .. Len(q)
            BY <3>1, <4>1
      <4>4. j \in 2 .. Len(q) /\ r[j - 1] = q[j] /\ j - 1 \in 1 .. i
            BY <3>1, <3>4, <4>2, <4>3
      <4> QED BY <4>2, <4>4
    <3>7. \A i \in 1 .. Len(r) : r[i].t # "hello"
          BY <2>3, <3>1
    <3> QED BY <2>3, <3>5, <3>6, <3>7 DEF Waiting, r
  <2> QED BY <2>1, <2>4, <2>5 DEF Reads
<1>11. Clean(c)'
       BY <1>9 DEF Local, Clean
<1> QED BY <1>6, <1>7, <1>8, <1>10, <1>11 DEF Local

(* Sending on a connection with a nexus: if its listener still waits, the  *)
(* barrier or its answer is already on the way.                            *)
LEMMA PushLocal ==
    ASSUME NEW c \in Conns, Types, Local(c), NEW m \in Demands, ~ Bar(c, m),
           con'[c] = con[c], con[c].state # "unused", con[c].ofnexus = "core", peer[c].up,
           ~ con[c].disconnected, toSwitch'[c] = Append(toSwitch[c], m), toCtl' = toCtl,
           peer' = peer, flows' = flows, pending' = pending, told'[c] = told[c]
    PROVE  Local(c)'
<1> DEFINE q == toSwitch[c]
           r == toSwitch'[c]
<1>1. q \in Seq(Demands)
      BY WorldFields DEF Types, Worlds
<1>2. Len(q) \in Nat /\ Len(r) = Len(q) + 1 /\ r[Len(q) + 1] = m
      /\ \A i \in 1 .. Len(q) : r[i] = q[i]
      BY <1>1, AppendOf
<1>3. \A i \in 1 .. Len(r) : i \in 1 .. Len(q) \/ i = Len(q) + 1
      BY <1>2
<1>4. Ends(c)'
      BY DEF Local, Ends
<1>5. Listening(c)'
      BY DEF Local, Listening
<1>6. Greeting(c)'
      BY DEF Local, Greeting
<1>7. Acked(c)' <=> Acked(c)
      BY DEF Acked
<1>8. Waiting(c)'
  <2>1. SUFFICES ASSUME con[c].state = "open", con[c].barrier # 0
                 PROVE  Waiting(c)'
        BY DEF Waiting
  <2>2. ~ Acked(c) =>
          /\ \A i \in 1 .. Len(q) : q[i].t \in {"barrier_request", "features_request"} =>
                 \E j \in 1 .. i : Bar(c, q[j])
          /\ \E j \in 1 .. Len(q) : Bar(c, q[j])
        BY <2>1 DEF Local, Waiting
  <2>3. ~ Acked(c) =>
          /\ \A i \in 1 .. Len(r) : r[i].t \in {"barrier_request", "features_request"} =>
                 \E j \in 1 .. i : Bar(c, r[j])
          /\ \E j \in 1 .. Len(r) : Bar(c, r[j])
    <3> HIDE DEF q, r
    <3>1. SUFFICES ASSUME ~ Acked(c)
                   PROVE  /\ \A i \in 1 .. Len(r) :
                               r[i].t \in {"barrier_request", "features_request"} =>
                                   \E j \in 1 .. i : Bar(c, r[j])
                          /\ \E j \in 1 .. Len(r) : Bar(c, r[j])
          OBVIOUS
    <3>2. PICK n \in 1 .. Len(q) : Bar(c, q[n])
          BY <2>2, <3>1
    <3>3. n \in 1 .. Len(r) /\ Bar(c, r[n])
          BY <1>2, <3>2
    <3>4. ASSUME NEW i \in 1 .. Len(r), r[i].t \in {"barrier_request", "features_request"}
          PROVE  \E j \in 1 .. i : Bar(c, r[j])
      <4>1. CASE i = Len(q) + 1
            BY <1>2, <3>3, <4>1
      <4>2. CASE i \in 1 .. Len(q)
        <5>1. PICK j \in 1 .. i : Bar(c, q[j])
              BY <1>2, <2>2, <3>1, <3>4, <4>2
        <5>2. j \in 1 .. Len(q) /\ r[j] = q[j]
              BY <1>2, <4>2
        <5> QED BY <5>1, <5>2
      <4> QED BY <1>3, <4>1, <4>2
    <3> QED BY <3>3, <3>4
  <2> QED BY <1>7, <2>1, <2>3 DEF Local, Waiting
<1>9. Clean(c)'
  <2>1. \A i \in 1 .. Len(q) : Bar(c, q[i]) =>
          \/ flows[peer[c].dpid] \subseteq {c}
          \/ \E j \in 1 .. i - 1 : q[j].t = "flow_mod_delete"
        BY DEF Local, Clean
  <2>2. \A i \in 1 .. Len(r) : Bar(c, r[i]) =>
          \/ flows[peer[c].dpid] \subseteq {c}
          \/ \E j \in 1 .. i - 1 : r[j].t = "flow_mod_delete"
    <3> HIDE DEF q, r
    <3>1. SUFFICES ASSUME NEW i \in 1 .. Len(r), Bar(c, r[i]),
                          ~ flows[peer[c].dpid] \subseteq {c}
                   PROVE  \E j \in 1 .. i - 1 : r[j].t = "flow_mod_delete"
          OBVIOUS
    <3>2. i \in 1 .. Len(q) /\ Bar(c, q[i])
          BY <1>2, <1>3, <3>1
    <3>3. PICK j \in 1 .. i - 1 : q[j].t = "flow_mod_delete"
          BY <2>1, <3>1, <3>2
    <3>4. j \in 1 .. Len(q)
          BY <1>2, <3>2
    <3> QED BY <1>2, <3>3, <3>4
  <2> QED BY <1>7, <2>2 DEF Local, Clean
<1> QED BY <1>4, <1>5, <1>6, <1>8, <1>9 DEF Local

(* The hello of the switch is answered by asking for its features. *)
LEMMA HelloLocal ==
    ASSUME NEW c \in Conns, Types, Types', Local(c), con'[c] = con[c], con[c].state = "open",
           peer[c].up, toSwitch'[c] = Append(toSwitch[c], Msg("features_request", 0)),
           toCtl[c] # <<>>, toCtl[c][1].t = "hello", toCtl'[c] = Tail(toCtl[c]),
           peer' = peer, flows' = flows, pending' = pending, told'[c] = told[c]
    PROVE  Local(c)'
<1> DEFINE q == toCtl[c]
           r == toCtl'[c]
           a == toSwitch[c]
           b == toSwitch'[c]
           m == Msg("features_request", 0)
<1>1. q \in Seq(Answers) /\ a \in Seq(Demands)
      BY WorldFields DEF Types, Worlds
<1>2. m \in Demands /\ m.t = "features_request" /\ m.xid = 0
      BY MsgType DEF Requested
<1> HIDE DEF m
<1>3. /\ \A i \in 1 .. Len(r) : i + 1 \in 1 .. Len(q) /\ r[i] = q[i + 1]
      /\ Len(q) \in Nat /\ Len(r) \in Nat /\ Len(q) >= 1
      BY <1>1, TailOf
<1>4. Len(a) \in Nat /\ Len(b) = Len(a) + 1 /\ b[Len(a) + 1] = m
      /\ \A i \in 1 .. Len(a) : b[i] = a[i]
      BY <1>1, <1>2, AppendOf DEF m
<1>5. con[c].barrier = 0
  <2>1. 1 \in 1 .. Len(q)
        BY <1>3
  <2> QED BY <2>1 DEF Local, Waiting
<1>6. Ends(c)'
  <2>1. \A i \in 1 .. Len(r) : r[i].t = "features_reply" => r[i].dpid = peer[c].dpid
        BY <1>3 DEF Local, Ends
  <2> QED BY <2>1 DEF Local, Ends
<1>7. Listening(c)'
      BY DEF Local, Listening
<1>8. Greeting(c)'
  <2>1. SUFFICES ASSUME ~ con[c].connect_time
                 PROVE  Greeting(c)'
        BY DEF Greeting
  <2>2. /\ con[c].ofnexus = "dummy"
        /\ \A i \in 1 .. Len(q) : q[i].t # "barrier_reply"
        /\ \A i, j \in 1 .. Len(q) : Drives(q[i]) /\ Drives(q[j]) => i = j
        /\ (\E i \in 1 .. Len(q) : Drives(q[i])) => a = <<>>
        BY <1>5, <2>1 DEF Local, Greeting
  <2>3. 1 \in 1 .. Len(q) /\ Drives(q[1])
        BY <1>3 DEF Drives
  <2>4. a = <<>>
        BY <2>2, <2>3
  <2>5. Len(a) = 0
        BY <2>4
  <2> HIDE DEF q, r, a, b
  <2>6. Len(b) <= 1 /\ \A i \in 1 .. Len(b) : b[i] = m
        BY <1>4, <2>5
  <2>7. \A i \in 1 .. Len(r) : r[i].t # "barrier_reply"
        BY <1>3, <2>2
  <2>8. \A i \in 1 .. Len(r) : ~ Drives(r[i])
    <3>1. SUFFICES ASSUME NEW i \in 1 .. Len(r), Drives(r[i])
                   PROVE  FALSE
          OBVIOUS
    <3>2. i + 1 = 1
          BY <1>3, <2>2, <2>3, <3>1
    <3> QED BY <3>2
  <2> QED BY <1>2, <1>5, <2>2, <2>6, <2>7, <2>8 DEF Greeting, r, b
<1>9. Waiting(c)'
      BY <1>5 DEF Waiting
<1>10. Acked(c)' => Acked(c)
       BY <1>3 DEF Acked
<1>11. Clean(c)'
  <2>1. \A i \in 1 .. Len(a) : Bar(c, a[i]) =>
          \/ flows[peer[c].dpid] \subseteq {c}
          \/ \E j \in 1 .. i - 1 : a[j].t = "flow_mod_delete"
        BY DEF Local, Clean
  <2>2. \A i \in 1 .. Len(b) : Bar(c, b[i]) =>
          \/ flows[peer[c].dpid] \subseteq {c}
          \/ \E j \in 1 .. i - 1 : b[j].t = "flow_mod_delete"
    <3> HIDE DEF a, b
    <3>1. SUFFICES ASSUME NEW i \in 1 .. Len(b), Bar(c, b[i]),
                          ~ flows[peer[c].dpid] \subseteq {c}
                   PROVE  \E j \in 1 .. i - 1 : b[j].t = "flow_mod_delete"
          OBVIOUS
    <3>2. ~ Bar(c, m)
          BY <1>2 DEF Bar
    <3>3. i \in 1 .. Len(a) /\ Bar(c, a[i])
          BY <1>4, <3>1, <3>2
    <3>4. PICK j \in 1 .. i - 1 : a[j].t = "flow_mod_delete"
          BY <2>1, <3>1, <3>3
    <3>5. j \in 1 .. Len(a)
          BY <1>4, <3>3
    <3> QED BY <1>4, <3>4, <3>5
  <2> QED BY <1>10, <2>2 DEF Local, Clean
<1> QED BY <1>6, <1>7, <1>8, <1>9, <1>11 DEF Local

(* The answer to the barrier: the connection is up, on a clean switch. *)
LEMMA FinishLocal ==
    ASSUME NEW c \in Conns, Types, Types', Local(c), con[c].state = "open",
           con'[c] = [con[c] EXCEPT !.barrier = 0, !.connect_time = TRUE],
           con[c].barrier # 0, toSwitch'[c] = toSwitch[c],
           toCtl[c] # <<>>, Ack(c, toCtl[c][1]), toCtl'[c] = Tail(toCtl[c]),
           peer' = peer, flows' = flows, pending' = pending
    PROVE  Local(c)'
<1> DEFINE q == toCtl[c]
           r == toCtl'[c]
<1>1. q \in Seq(Answers) /\ con[c] \in Fields
      BY WorldFields DEF Types, Worlds
<1>2. /\ \A i \in 1 .. Len(r) : i + 1 \in 1 .. Len(q) /\ r[i] = q[i + 1]
      /\ Len(q) \in Nat /\ Len(r) \in Nat /\ 1 \in 1 .. Len(q)
      BY <1>1, TailOf
<1>3. /\ con'[c].state = con[c].state /\ con'[c].dpid = con[c].dpid
      /\ con'[c].ofnexus = con[c].ofnexus /\ con'[c].connect_time /\ con'[c].barrier = 0
      BY <1>1 DEF Fields
<1>4. con[c].ofnexus = "core" /\ con[c].dpid # NoDpid
      BY DEF Local, Listening
<1>5. Acked(c)
      BY <1>2 DEF Acked
<1>6. Ends(c)'
  <2>1. \A i \in 1 .. Len(r) : r[i].t = "features_reply" => r[i].dpid = peer[c].dpid
        BY <1>2 DEF Local, Ends
  <2> QED BY <1>3, <2>1 DEF Local, Ends
<1>7. Listening(c)'
      BY <1>3, <1>4 DEF Listening
<1>8. Greeting(c)' /\ Waiting(c)'
      BY <1>3 DEF Greeting, Waiting
<1>9. Clean(c)'
      BY <1>5 DEF Local, Clean
<1> QED BY <1>6, <1>7, <1>8, <1>9 DEF Local

(* The first features: the listener waits, and if the switch can be        *)
(* reached the deletion and the barrier are on their way.                  *)
LEMMA AcceptedLocal ==
    ASSUME NEW c \in Conns, Types, Types', Local(c), con[c].state = "open",
           con'[c].state = "open", con'[c].dpid = peer[c].dpid, con'[c].ofnexus = "core",
           ~ con'[c].connect_time, con'[c].barrier = - c, ~ con[c].connect_time,
           con[c].barrier = 0,
           toCtl[c] # <<>>, toCtl[c][1].t = "features_reply", toCtl'[c] = Tail(toCtl[c]),
           \/ toSwitch'[c] = toSwitch[c] /\ (con'[c].disconnected \/ ~ peer[c].up)
           \/ toSwitch'[c] = Append(Append(toSwitch[c], Msg("flow_mod_delete", 0)),
                                    Msg("barrier_request", - c)) /\ peer[c].up,
           told'[c] = told[c] \/ told'[c] = Append(told[c], "ConnectionDown"),
           peer' = peer, flows' = flows, pending' = pending
    PROVE  Local(c)'
<1> DEFINE q == toCtl[c]
           r == toCtl'[c]
           a == toSwitch[c]
           b == toSwitch'[c]
           m2 == Msg("flow_mod_delete", 0)
           m3 == Msg("barrier_request", - c)
<1>1. q \in Seq(Answers) /\ a \in Seq(Demands) /\ told[c] \in Seq(Kinds)
      BY WorldFields DEF Types, Worlds
<1>2. /\ m2 \in Demands /\ m3 \in Demands /\ m2.t = "flow_mod_delete" /\ Bar(c, m3)
      /\ - c # 0 /\ ~ Bar(c, m2)
  <2>1. m2 \in Demands /\ m2.t = "flow_mod_delete"
        BY MsgType DEF Requested
  <2>2. m3 \in Demands /\ m3.t = "barrier_request" /\ m3.xid = - c
        BY MsgType, ConnNumber DEF Requested
  <2>3. - c # 0
        BY ConnNumber
  <2> HIDE DEF m2, m3
  <2> QED BY <2>1, <2>2, <2>3 DEF Bar
<1> HIDE DEF m2, m3
<1>3. /\ \A i \in 1 .. Len(r) : i + 1 \in 1 .. Len(q) /\ r[i] = q[i + 1]
      /\ Len(q) \in Nat /\ Len(r) \in Nat /\ 1 \in 1 .. Len(q)
      BY <1>1, TailOf
<1>4. /\ con[c].ofnexus = "dummy"
      /\ \A i \in 1 .. Len(q) : q[i].t # "barrier_reply"
      /\ \A i, j \in 1 .. Len(q) : Drives(q[i]) /\ Drives(q[j]) => i = j
      /\ (\E i \in 1 .. Len(q) : Drives(q[i])) => a = <<>>
      BY DEF Local, Greeting
<1>5. Drives(q[1])
      BY DEF Drives
<1>6. a = <<>> /\ Len(a) = 0
      BY <1>3, <1>4, <1>5
<1>7. \A i \in 1 .. Len(r) : r[i].t \notin {"hello", "features_reply", "barrier_reply"}
  <2>1. SUFFICES ASSUME NEW i \in 1 .. Len(r), r[i].t \in {"hello", "features_reply"}
                 PROVE  FALSE
        BY <1>3, <1>4
  <2>2. Drives(q[i + 1]) /\ i + 1 \in 1 .. Len(q)
        BY <1>3, <2>1 DEF Drives
  <2>3. i + 1 = 1
        BY <1>3, <1>4, <1>5, <2>2
  <2> QED BY <2>3
<1>8. \/ b = <<>> /\ Len(b) = 0 /\ (con'[c].disconnected \/ ~ peer[c].up)
      \/ peer[c].up /\ Len(b) = 2 /\ b[1] = m2 /\ b[2] = m3
  <2>1. CASE toSwitch'[c] = toSwitch[c] /\ (con'[c].disconnected \/ ~ peer[c].up)
        BY <1>6, <2>1
  <2>2. CASE b = Append(Append(a, m2), m3) /\ peer[c].up
    <3> DEFINE e == Append(a, m2)
    <3>1. e \in Seq(Demands) /\ Len(e) = 1 /\ e[1] = m2
          BY <1>1, <1>2, <1>6, AppendOf
    <3>2. b = Append(e, m3)
          BY <2>2
    <3> HIDE DEF e, b
    <3>3. Len(b) = 2 /\ b[1] = m2 /\ b[2] = m3
      <4>1. e \in Seq(Demands) /\ m3 \in Demands
            BY <1>2, <3>1
      <4>2. /\ Len(e) \in Nat /\ Len(Append(e, m3)) = Len(e) + 1
            /\ Append(e, m3)[Len(e) + 1] = m3
            /\ \A i \in 1 .. Len(e) : Append(e, m3)[i] = e[i]
            BY <4>1, AppendOf
      <4> QED BY <3>1, <3>2, <4>2
    <3> QED BY <2>2, <3>3
  <2> QED BY <2>1, <2>2 DEF m2, m3
<1>9. \A i \in 1 .. Len(told'[c]) : told'[c][i] = "ConnectionUp" => FALSE
  <2>1. \A i \in 1 .. Len(told[c]) : told[c][i] # "ConnectionUp"
        BY DEF Local, Listening
  <2>2. CASE told'[c] = told[c]
        BY <2>1, <2>2
  <2>3. CASE told'[c] = Append(told[c], "ConnectionDown")
    <3> DEFINE s == told[c]
               u == told'[c]
    <3>1. Len(s) \in Nat /\ Len(u) = Len(s) + 1 /\ u[Len(s) + 1] = "ConnectionDown"
          /\ \A i \in 1 .. Len(s) : u[i] = s[i]
          BY <1>1, <2>3, AppendOf DEF Kinds
    <3> HIDE DEF s, u
    <3>2. \A i \in 1 .. Len(u) : i \in 1 .. Len(s) \/ i = Len(s) + 1
          BY <3>1
    <3>3. \A i \in 1 .. Len(u) : u[i] # "ConnectionUp"
          BY <2>1, <3>1, <3>2 DEF s
    <3> QED BY <3>3 DEF u
  <2> QED BY <2>2, <2>3
<1>10. Ends(c)'
  <2>1. ~ peer[c].up => toSwitch'[c] = <<>>
        BY <1>8
  <2> QED BY <1>7, <2>1 DEF Local, Ends
<1>11. Listening(c)'
  <2>1. con'[c].dpid # NoDpid
        BY ConnectionAssumption DEF Local, Ends
  <2> QED BY <1>2, <1>9, <2>1 DEF Listening
<1>12. Greeting(c)'
       BY <1>2 DEF Greeting
<1>13. Waiting(c)'
  <2>1. \A i \in 1 .. Len(b) : b[i].t \in {"barrier_request", "features_request"} =>
          \E j \in 1 .. i : Bar(c, b[j])
    <3> HIDE DEF b
    <3>1. \A i \in 1 .. Len(b) : b[i].t \in {"barrier_request", "features_request"} => b[i] = m3
          BY <1>2, <1>8
    <3>2. \A i \in 1 .. Len(b) : i \in 1 .. i
          OBVIOUS
    <3> QED BY <1>2, <3>1, <3>2
  <2>2. peer[c].up /\ ~ con'[c].disconnected => \E j \in 1 .. Len(b) : Bar(c, b[j])
        BY <1>2, <1>8
  <2> QED BY <1>7, <2>1, <2>2 DEF Waiting
<1>14. Acked(c)' => Acked(c)
       BY <1>3 DEF Acked
<1>15. Clean(c)'
  <2>1. \A i \in 1 .. Len(b) : Bar(c, b[i]) =>
          \E j \in 1 .. i - 1 : b[j].t = "flow_mod_delete"
    <3> HIDE DEF b
    <3>1. \A i \in 1 .. Len(b) : Bar(c, b[i]) => i = 2 /\ b[1] = m2
          BY <1>2, <1>8
    <3> QED BY <1>2, <3>1
  <2> QED BY <1>14, <2>1 DEF Local, Clean
<1> QED BY <1>10, <1>11, <1>12, <1>13, <1>15 DEF Local

(* One connection: what a step of its switch keeps. *)

(* A message that neither drives the handshake nor answers a barrier. *)
LEMMA AsyncLocal ==
    ASSUME NEW c \in Conns, Types, Local(c), NEW m \in Answers,
           m.t \notin {"hello", "features_reply", "barrier_reply"}, ~ Ack(c, m),
           con' = con, toSwitch' = toSwitch, peer' = peer, flows' = flows, told' = told,
           peer[c].up, toCtl'[c] = Append(toCtl[c], m)
    PROVE  Local(c)'
<1> DEFINE q == toCtl[c]
           r == toCtl'[c]
<1>1. q \in Seq(Answers)
      BY DEF Types
<1>2. Len(q) \in Nat /\ Len(r) = Len(q) + 1 /\ r[Len(q) + 1] = m
      /\ \A i \in 1 .. Len(q) : r[i] = q[i]
      BY <1>1, AppendOf
<1>3. \A i \in 1 .. Len(r) : i \in 1 .. Len(q) \/ i = Len(q) + 1
      BY <1>2
<1>4. Ends(c)'
  <2>1. \A i \in 1 .. Len(r) : r[i].t = "features_reply" => r[i].dpid = peer[c].dpid
        BY <1>2, <1>3 DEF Local, Ends
  <2> QED BY <2>1 DEF Local, Ends
<1>5. Listening(c)'
      BY DEF Local, Listening
<1>6. Greeting(c)'
  <2>1. SUFFICES ASSUME con[c].state = "open", ~ con[c].connect_time, con[c].barrier = 0
                 PROVE  Greeting(c)'
        BY DEF Greeting
  <2>2. /\ con[c].ofnexus = "dummy"
        /\ Len(toSwitch[c]) <= 1
        /\ \A i \in 1 .. Len(toSwitch[c]) : toSwitch[c][i].t = "features_request"
        /\ \A i \in 1 .. Len(q) : q[i].t # "barrier_reply"
        /\ \A i, j \in 1 .. Len(q) : Drives(q[i]) /\ Drives(q[j]) => i = j
        /\ (\E i \in 1 .. Len(q) : Drives(q[i])) => toSwitch[c] = <<>>
        BY <2>1 DEF Local, Greeting
  <2>3. ~ Drives(m)
        BY DEF Drives
  <2> HIDE DEF q, r
  <2>4. \A i \in 1 .. Len(r) : Drives(r[i]) => i \in 1 .. Len(q) /\ Drives(q[i])
        BY <1>2, <1>3, <2>3
  <2>5. \A i \in 1 .. Len(r) : r[i].t # "barrier_reply"
        BY <1>2, <1>3, <2>2
  <2> QED BY <2>2, <2>4, <2>5 DEF Greeting, r
<1>7. Acked(c)' <=> Acked(c)
  <2>1. Acked(c) <=> \E i \in 1 .. Len(q) : Ack(c, q[i])
        BY DEF Acked
  <2>2. Acked(c)' <=> \E i \in 1 .. Len(r) : Ack(c, r[i])
        BY DEF Acked
  <2> HIDE DEF q, r
  <2> QED BY <1>2, <1>3, <2>1, <2>2
<1>8. Waiting(c)'
  <2>1. SUFFICES ASSUME con[c].state = "open", con[c].barrier # 0
                 PROVE  Waiting(c)'
        BY DEF Waiting
  <2>2. /\ \A i \in 1 .. Len(q) : q[i].t \in {"barrier_reply", "features_reply"} =>
             \E j \in 1 .. i : Ack(c, q[j])
        /\ \A i \in 1 .. Len(q) : q[i].t # "hello"
        BY <2>1 DEF Local, Waiting
  <2>3. /\ \A i \in 1 .. Len(r) : r[i].t \in {"barrier_reply", "features_reply"} =>
             \E j \in 1 .. i : Ack(c, r[j])
        /\ \A i \in 1 .. Len(r) : r[i].t # "hello"
    <3> HIDE DEF q, r
    <3>1. \A i \in 1 .. Len(r) : r[i].t # "hello"
          BY <1>2, <1>3, <2>2
    <3>2. ASSUME NEW i \in 1 .. Len(r), r[i].t \in {"barrier_reply", "features_reply"}
          PROVE  \E j \in 1 .. i : Ack(c, r[j])
      <4>1. i \in 1 .. Len(q) /\ q[i] = r[i]
            BY <1>2, <1>3, <3>2
      <4>2. PICK j \in 1 .. i : Ack(c, q[j])
            BY <2>2, <3>2, <4>1
      <4>3. j \in 1 .. Len(q)
            BY <1>2, <4>1
      <4> QED BY <1>2, <4>2, <4>3
    <3> QED BY <3>1, <3>2
  <2> QED BY <1>7, <2>1, <2>3 DEF Local, Waiting
<1>9. Clean(c)'
      BY <1>7 DEF Local, Clean
<1> QED BY <1>4, <1>5, <1>6, <1>8, <1>9 DEF Local

(* What the switch does with the first message m in its queue. *)
Answers1(c, m) ==
    \/ m.t \notin {"features_request", "barrier_request"} /\ toCtl'[c] = toCtl[c]
    \/ m.t = "features_request" /\ \E x \in Answers :
         x.t = "features_reply" /\ x.dpid = peer[c].dpid /\ toCtl'[c] = Append(toCtl[c], x)
    \/ m.t = "barrier_request" /\ \E x \in Answers :
         x.t \in {"barrier_reply", "error"} /\ x.xid = m.xid /\ toCtl'[c] = Append(toCtl[c], x)

(* A step of the switch: it answers the barrier of the handshake after it  *)
(* deleted the flows, and what was asked after that barrier after it.      *)
LEMMA PeerStepLocal ==
    ASSUME NEW c \in Conns, Types, Local(c), con' = con, peer' = peer, told' = told, peer[c].up,
           toSwitch[c] # <<>>, toSwitch'[c] = Tail(toSwitch[c]), Answers1(c, toSwitch[c][1]),
           flows'[peer[c].dpid] \subseteq flows[peer[c].dpid] \union {c},
           toSwitch[c][1].t = "flow_mod_delete" => flows'[peer[c].dpid] = {}
    PROVE  Local(c)'
<1> DEFINE q == toCtl[c]
           r == toCtl'[c]
           a == toSwitch[c]
           b == toSwitch'[c]
           m == a[1]
           d == peer[c].dpid
<1>1. q \in Seq(Answers) /\ a \in Seq(Demands) /\ con[c].state # "unused"
      BY WorldFields DEF Types, Worlds, Local, Ends
<1>2. /\ Len(b) = Len(a) - 1 /\ Len(a) \in Nat \ {0} /\ 1 \in 1 .. Len(a)
      /\ \A i \in 1 .. Len(b) : i + 1 \in 1 .. Len(a) /\ b[i] = a[i + 1]
      /\ \A i \in 2 .. Len(a) : i - 1 \in 1 .. Len(b) /\ b[i - 1] = a[i]
      BY <1>1, TailOf
<1>3. \/ r = q /\ m.t \notin {"features_request", "barrier_request"}
      \/ \E x \in Answers :
           /\ Len(r) = Len(q) + 1 /\ r[Len(q) + 1] = x /\ \A i \in 1 .. Len(q) : r[i] = q[i]
           /\ \/ m.t = "features_request" /\ x.t = "features_reply" /\ x.dpid = d
              \/ m.t = "barrier_request" /\ x.t \in {"barrier_reply", "error"} /\ x.xid = m.xid
  <2>1. CASE m.t \notin {"features_request", "barrier_request"} /\ r = q
        BY <2>1
  <2>2. ASSUME NEW x \in Answers, r = Append(q, x)
        PROVE  Len(r) = Len(q) + 1 /\ r[Len(q) + 1] = x /\ \A i \in 1 .. Len(q) : r[i] = q[i]
        BY <1>1, <2>2, AppendOf
  <2> HIDE DEF m, d, q, r
  <2> QED BY <2>1, <2>2 DEF Answers1, m, d, q, r
<1>4. Len(q) \in Nat /\ Len(r) \in Nat /\ \A i \in 1 .. Len(q) : i \in 1 .. Len(r) /\ r[i] = q[i]
  <2>1. Len(q) \in Nat
        BY <1>1
  <2> HIDE DEF q, r
  <2> QED BY <1>3, <2>1
<1>5. \A i \in 1 .. Len(r) : i \in 1 .. Len(q)
        \/ (i = Len(q) + 1 /\
              \/ m.t = "features_request" /\ r[i].t = "features_reply" /\ r[i].dpid = d
              \/ m.t = "barrier_request" /\ r[i].t \in {"barrier_reply", "error"}
                 /\ r[i].xid = m.xid)
  <2> HIDE DEF q, r, m, d
  <2> QED BY <1>3, <1>4
<1>6. Acked(c) <=> \E i \in 1 .. Len(q) : Ack(c, q[i])
      BY DEF Acked
<1>7. Acked(c)' <=> \E i \in 1 .. Len(r) : Ack(c, r[i])
      BY DEF Acked
<1>8. Acked(c) => Acked(c)'
  <2> HIDE DEF q, r
  <2> QED BY <1>4, <1>6, <1>7
<1>9. Bar(c, m) => Acked(c)'
  <2> HIDE DEF q, r, m
  <2> QED BY <1>3, <1>4, <1>7 DEF Bar, Ack
<1>10. Acked(c)' => Acked(c) \/ Bar(c, m)
  <2> HIDE DEF q, r, m
  <2> QED BY <1>4, <1>5, <1>6, <1>7 DEF Bar, Ack
<1>11. Ends(c)'
  <2>1. \A i \in 1 .. Len(r) : r[i].t = "features_reply" => r[i].dpid = d
        BY <1>4, <1>5 DEF Local, Ends
  <2> QED BY <1>1, <2>1 DEF Local, Ends
<1>12. Listening(c)'
       BY DEF Local, Listening
<1>13. Greeting(c)'
  <2>1. SUFFICES ASSUME con[c].state = "open", ~ con[c].connect_time, con[c].barrier = 0
                 PROVE  Greeting(c)'
        BY DEF Greeting
  <2>2. /\ con[c].ofnexus = "dummy"
        /\ Len(a) <= 1
        /\ \A i \in 1 .. Len(a) : a[i].t = "features_request"
        /\ \A i \in 1 .. Len(q) : q[i].t # "barrier_reply"
        /\ (\E i \in 1 .. Len(q) : Drives(q[i])) => a = <<>>
        BY <2>1 DEF Local, Greeting
  <2>3. \A i \in 1 .. Len(q) : ~ Drives(q[i])
        BY <2>2
  <2>4. m.t = "features_request" /\ Len(b) = 0
    <3>1. m.t = "features_request"
          BY <1>2, <2>2
    <3> HIDE DEF a, b
    <3>2. Len(b) = 0
          BY <1>2, <2>2
    <3> QED BY <3>1, <3>2
  <2>5. b = <<>>
    <3>1. b \in Seq(Demands)
          BY <1>1, TailOf
    <3>2. \A s \in Seq(Demands) : Len(s) = 0 => s = <<>>
          OBVIOUS
    <3> HIDE DEF b
    <3> QED BY <2>4, <3>1, <3>2
  <2> HIDE DEF q, r, a, b, m, d
  <2>6. \A i \in 1 .. Len(r) : r[i].t # "barrier_reply"
        BY <1>4, <1>5, <2>2, <2>4
  <2>7. \A i \in 1 .. Len(r) : Drives(r[i]) => i = Len(q) + 1
        BY <1>4, <1>5, <2>3
  <2>8. \A i, j \in 1 .. Len(r) : Drives(r[i]) /\ Drives(r[j]) => i = j
        BY <1>4, <2>7
  <2>9. Len(b) <= 1 /\ \A i \in 1 .. Len(b) : b[i].t = "features_request"
        BY <2>4
  <2> QED BY <2>2, <2>5, <2>6, <2>8, <2>9 DEF Greeting, r, b
<1>14. Waiting(c)'
  <2>1. SUFFICES ASSUME con[c].state = "open", con[c].barrier # 0
                 PROVE  Waiting(c)'
        BY DEF Waiting
  <2>2. /\ \A i \in 1 .. Len(q) : q[i].t \in {"barrier_reply", "features_reply"} =>
             \E j \in 1 .. i : Ack(c, q[j])
        /\ \A i \in 1 .. Len(q) : q[i].t # "hello"
        /\ ~ Acked(c) =>
             /\ \A i \in 1 .. Len(a) : a[i].t \in {"barrier_request", "features_request"} =>
                  \E j \in 1 .. i : Bar(c, a[j])
             /\ ~ con[c].disconnected => \E j \in 1 .. Len(a) : Bar(c, a[j])
        BY <2>1 DEF Local, Waiting
  <2> HIDE DEF q, r, a, b, m, d
  <2>3. ~ Acked(c) /\ m.t \in {"barrier_request", "features_request"} => Bar(c, m)
    <3>1. SUFFICES ASSUME ~ Acked(c), m.t \in {"barrier_request", "features_request"}
                   PROVE  Bar(c, m)
          OBVIOUS
    <3>2. PICK j \in 1 .. 1 : Bar(c, a[j])
          BY <1>2, <2>2, <3>1 DEF m
    <3> QED BY <3>2 DEF m
  <2>4. \A i \in 1 .. Len(r) : r[i].t # "hello"
        BY <1>4, <1>5, <2>2
  <2>5. ASSUME NEW i \in 1 .. Len(r), r[i].t \in {"barrier_reply", "features_reply"}
        PROVE  \E j \in 1 .. i : Ack(c, r[j])
    <3>1. CASE i \in 1 .. Len(q)
      <4>1. PICK j \in 1 .. i : Ack(c, q[j])
            BY <1>4, <2>2, <2>5, <3>1
      <4>2. j \in 1 .. Len(q)
            BY <1>4, <3>1
      <4> QED BY <1>4, <4>1, <4>2
    <3>2. CASE i = Len(q) + 1 /\ i \notin 1 .. Len(q)
      <4>1. m.t \in {"barrier_request", "features_request"}
            BY <1>5, <3>2
      <4>2. CASE Acked(c)
        <5>1. PICK j \in 1 .. Len(q) : Ack(c, q[j])
              BY <1>6, <4>2
        <5>2. j \in 1 .. i /\ r[j] = q[j]
              BY <1>4, <3>2, <5>1
        <5> QED BY <5>1, <5>2
      <4>3. CASE ~ Acked(c)
        <5>1. Bar(c, m)
              BY <2>3, <4>1, <4>3
        <5>2. r[i].t \in {"barrier_reply", "error"} /\ r[i].xid = m.xid
              BY <1>5, <3>2, <5>1 DEF Bar
        <5>3. Ack(c, r[i])
              BY <5>1, <5>2 DEF Ack, Bar
        <5>4. i \in 1 .. i
              BY <1>4, <3>2
        <5> QED BY <5>3, <5>4
      <4> QED BY <4>2, <4>3
    <3> QED BY <1>5, <3>1, <3>2
  <2>6. ASSUME ~ Acked(c)'
        PROVE  /\ \A i \in 1 .. Len(b) : b[i].t \in {"barrier_request", "features_request"} =>
                    \E j \in 1 .. i : Bar(c, b[j])
               /\ ~ con[c].disconnected => \E j \in 1 .. Len(b) : Bar(c, b[j])
    <3>1. ~ Acked(c) /\ ~ Bar(c, a[1])
          BY <1>8, <1>9, <2>6 DEF m
    <3>2. \A j \in 1 .. Len(a) : Bar(c, a[j]) => j \in 2 .. Len(a)
          BY <1>2, <3>1
    <3>3. ASSUME NEW i \in 1 .. Len(b), b[i].t \in {"barrier_request", "features_request"}
          PROVE  \E j \in 1 .. i : Bar(c, b[j])
      <4>1. PICK j \in 1 .. i + 1 : Bar(c, a[j])
            BY <1>2, <2>2, <3>1, <3>3
      <4>2. j \in 1 .. Len(a)
            BY <1>2, <3>3
      <4>3. j \in 2 .. Len(a) /\ b[j - 1] = a[j] /\ j - 1 \in 1 .. i
            BY <1>2, <3>2, <4>1, <4>2
      <4> QED BY <4>1, <4>3
    <3>4. ~ con[c].disconnected => \E j \in 1 .. Len(b) : Bar(c, b[j])
          BY <1>2, <2>2, <3>1, <3>2
    <3> QED BY <3>3, <3>4
  <2> QED BY <2>4, <2>5, <2>6 DEF Waiting, r, b
<1>15. Clean(c)'
  <2>1. /\ con[c].connect_time \/ Acked(c) => flows[d] \subseteq {c}
        /\ \A i \in 1 .. Len(a) : Bar(c, a[i]) =>
             flows[d] \subseteq {c} \/ \E j \in 1 .. i - 1 : a[j].t = "flow_mod_delete"
        BY DEF Local, Clean
  <2>2. flows[d] \subseteq {c} => flows'[d] \subseteq {c}
        OBVIOUS
  <2> HIDE DEF q, r, a, b, m, d
  <2>3. Bar(c, m) => flows[d] \subseteq {c}
        BY <1>2, <2>1 DEF m
  <2>4. con[c].connect_time \/ Acked(c)' => flows'[d] \subseteq {c}
        BY <1>10, <2>1, <2>2, <2>3
  <2>5. ASSUME NEW i \in 1 .. Len(b), Bar(c, b[i]), ~ flows'[d] \subseteq {c}
        PROVE  \E j \in 1 .. i - 1 : b[j].t = "flow_mod_delete"
    <3>1. ~ flows[d] \subseteq {c}
          BY <2>2, <2>5
    <3>2. PICK j \in 1 .. (i + 1) - 1 : a[j].t = "flow_mod_delete"
          BY <1>2, <2>1, <2>5, <3>1
    <3>3. j # 1
          BY <2>5, <3>2 DEF a, d
    <3>4. j \in 2 .. Len(a) /\ j - 1 \in 1 .. i - 1
          BY <1>2, <2>5, <3>2, <3>3
    <3> QED BY <1>2, <3>2, <3>4
  <2> QED BY <2>4, <2>5 DEF Clean, b, d
<1> QED BY <1>11, <1>12, <1>13, <1>14, <1>15 DEF Local

(* The switch hangs up: what was on its way to it is lost. *)
LEMMA HangUpLocal ==
    ASSUME NEW c \in Conns, Local(c), con' = con, toCtl' = toCtl, told' = told, flows' = flows,
           peer[c].up, ~ peer'[c].up, peer'[c].dpid = peer[c].dpid, toSwitch'[c] = <<>>
    PROVE  Local(c)'
<1>1. con[c].state # "unused"
      BY DEF Local, Ends
<1>2. Ends(c)'
      BY <1>1 DEF Local, Ends
<1>3. Listening(c)'
      BY DEF Local, Listening
<1>4. Greeting(c)'
      BY DEF Local, Greeting
<1>5. Waiting(c)'
      BY DEF Local, Waiting, Acked
<1>6. Clean(c)'
      BY DEF Clean
<1> QED BY <1>2, <1>3, <1>4, <1>5, <1>6 DEF Local

(* A new connection, with the hello of the switch to be read. *)
LEMMA NewLocal ==
    ASSUME NEW c \in Conns, NEW d \in Dpids, Local(c), con[c].state = "unused",
           con'[c] = [con[c] EXCEPT !.state = "open"], toSwitch' = toSwitch, told' = told,
           toCtl'[c] = <<Answer("hello", 0, NoDpid)>>, peer'[c] = [dpid |-> d, up |-> TRUE]
    PROVE  Local(c)'
<1>1. con[c] = Unused /\ toSwitch[c] = <<>> /\ told[c] = <<>>
      BY DEF Local, Ends
<1>2. con'[c] = [Unused EXCEPT !.state = "open"]
      BY <1>1
<1>3. /\ con'[c].state = "open" /\ con'[c].dpid = NoDpid /\ con'[c].ofnexus = "dummy"
      /\ ~ con'[c].connect_time /\ con'[c].barrier = 0
      BY <1>2 DEF Unused
<1> DEFINE r == toCtl'[c]
           m == Answer("hello", 0, NoDpid)
<1>4. m.t = "hello"
      BY DEF Answer
<1> HIDE DEF m
<1>5. Len(r) = 1 /\ r[1] = m
      BY DEF m
<1>6. \A i \in 1 .. Len(r) : i = 1 /\ r[i].t = "hello"
      BY <1>4, <1>5
<1> HIDE DEF r
<1>7. Ends(c)'
      BY <1>1, <1>3, <1>6 DEF Ends, r
<1>8. Listening(c)'
      BY <1>1, <1>3 DEF Listening
<1>9. Greeting(c)'
      BY <1>1, <1>3, <1>6 DEF Greeting, Drives, r
<1>10. Waiting(c)'
       BY <1>3 DEF Waiting
<1>11. ~ Acked(c)'
       BY <1>6 DEF Acked, Ack, r
<1>12. Clean(c)'
       BY <1>1, <1>3, <1>11 DEF Clean
<1> QED BY <1>7, <1>8, <1>9, <1>10, <1>12 DEF Local

-----------------------------------------------------------------------------
(* The nexus and the components: what a step of the controller keeps. *)

(* A step that neither registers a connection nor completes one. *)
LEMMA QuietSound ==
    ASSUME NEW w \in Worlds, NEW v, NEW c \in Conns, Quiet(w, v, c), Registry(w), Heard(w)
    PROVE  Registry(v) /\ Heard(v)
<1>1. /\ \A b \in Conns : /\ v.con[b].dpid = w.con[b].dpid /\ v.con[b].ofnexus = w.con[b].ofnexus
                          /\ w.con[b].disconnected => v.con[b].disconnected
      /\ v.con = [w.con EXCEPT ![c].disconnected = TRUE] => v.con[c].disconnected
  <2>1. w.con \in [Conns -> Fields]
        BY DEF Worlds
  <2>2. CASE v.con = [w.con EXCEPT ![c].disconnected = TRUE]
        BY <2>1, <2>2 DEF Fields
  <2> QED BY <2>2 DEF Quiet
<1>2. v.con = w.con => \A b \in Conns : v.con[b].disconnected = w.con[b].disconnected
      OBVIOUS
<1>3. \A d \in DOMAIN w.nexus : w.nexus[d] \in Conns
      BY TableHas DEF Worlds
<1>4. Registry(v)
  <2>1. \A d \in DOMAIN v.nexus : d \in DOMAIN w.nexus /\ v.nexus[d] = w.nexus[d]
        BY DEF Quiet
  <2> QED BY <1>1, <1>3, <2>1 DEF Registry
<1>5. \A b \in Conns : \A i \in 1 .. Len(v.told[b]) :
        v.told[b][i] = "ConnectionUp" => i \in 1 .. Len(w.told[b]) /\ w.told[b][i] = "ConnectionUp"
  <2>1. SUFFICES ASSUME NEW b \in Conns, NEW i \in 1 .. Len(v.told[b]),
                        v.told[b][i] = "ConnectionUp"
                 PROVE  i \in 1 .. Len(w.told[b]) /\ w.told[b][i] = "ConnectionUp"
        OBVIOUS
  <2>2. CASE v.told[b] = w.told[b]
        BY <2>1, <2>2
  <2>3. CASE b = c /\ v.told[c] = Append(w.told[c], "ConnectionDown")
    <3> DEFINE s == w.told[b]
               u == v.told[b]
    <3>1. s \in Seq(Kinds) /\ "ConnectionDown" \in Kinds
          BY DEF Worlds, Kinds
    <3>2. Len(s) \in Nat /\ Len(u) = Len(s) + 1 /\ u[Len(s) + 1] = "ConnectionDown"
          /\ \A n \in 1 .. Len(s) : u[n] = s[n]
          BY <2>3, <3>1, AppendOf
    <3>3. i \in 1 .. Len(u) /\ u[i] = "ConnectionUp"
          BY <2>1
    <3> HIDE DEF s, u
    <3>4. i \in 1 .. Len(s) /\ s[i] = "ConnectionUp"
          BY <3>2, <3>3
    <3> QED BY <3>4 DEF s
  <2> QED BY <2>2, <2>3 DEF Quiet
<1>6. NoDpid \notin v.seen
      BY DEF Quiet, Heard
<1>7. Heard(v)
      BY <1>1, <1>5, <1>6 DEF Heard
<1> QED BY <1>4, <1>7

(* Messages to the switch neither change the nexus nor what was told. *)
LEMMA SentSound ==
    ASSUME NEW w, NEW v, NEW c, NEW q, Sent(w, v, c, q), Registry(w), Heard(w)
    PROVE  v \in Worlds /\ Registry(v) /\ Heard(v)
<1>1. v \in Worlds /\ v.con = w.con /\ v.nexus = w.nexus /\ v.told = w.told /\ v.seen = w.seen
      BY DEF Sent
<1>2. Registry(v)
      BY <1>1 DEF Registry
<1>3. Heard(v)
      BY <1>1 DEF Heard
<1> QED BY <1>1, <1>2, <1>3

(* A connection that is up for the first time. *)
LEMMA FinishSound ==
    ASSUME NEW w \in Worlds, NEW v, NEW c \in Conns, Finished(w, v, c), Registry(w), Heard(w),
           \A i \in 1 .. Len(w.told[c]) : w.told[c][i] # "ConnectionUp"
    PROVE  Registry(v) /\ Heard(v)
<1>1. \A b \in Conns : /\ v.con[b].dpid = w.con[b].dpid /\ v.con[b].ofnexus = w.con[b].ofnexus
                       /\ v.con[b].disconnected = w.con[b].disconnected
  <2>1. w.con[c] \in Fields
        BY DEF Worlds
  <2>2. v.con[c].dpid = w.con[c].dpid /\ v.con[c].ofnexus = w.con[c].ofnexus
        /\ v.con[c].disconnected = w.con[c].disconnected
        BY <2>1 DEF Finished, Fields
  <2>3. \A b \in Conns \ {c} : v.con[b] = w.con[b]
        BY DEF Finished, Others
  <2> QED BY <2>2, <2>3
<1>2. \A d \in DOMAIN w.nexus : w.nexus[d] \in Conns
      BY TableHas DEF Worlds
<1>3. Registry(v)
      BY <1>1, <1>2 DEF Registry, Finished
<1>4. NoDpid \notin v.seen
      BY DEF Finished, Heard
<1>5. \A b \in Conns : \A i, j \in 1 .. Len(v.told[b]) :
        v.told[b][i] = "ConnectionUp" /\ v.told[b][j] = "ConnectionUp" => i = j
  <2>1. SUFFICES ASSUME NEW b \in Conns,
                        NEW i \in 1 .. Len(v.told[b]), NEW j \in 1 .. Len(v.told[b]),
                        v.told[b][i] = "ConnectionUp", v.told[b][j] = "ConnectionUp"
                 PROVE  i = j
        OBVIOUS
  <2>2. CASE v.told[b] = w.told[b]
        BY <2>1, <2>2 DEF Heard
  <2>3. CASE b = c /\ v.told[c] = Append(w.told[c], "ConnectionUp")
    <3> DEFINE s == w.told[b]
               u == v.told[b]
    <3>1. s \in Seq(Kinds) /\ "ConnectionUp" \in Kinds
          BY DEF Worlds, Kinds
    <3>2. Len(s) \in Nat /\ Len(u) = Len(s) + 1
          /\ \A n \in 1 .. Len(s) : u[n] = s[n]
          BY <2>3, <3>1, AppendOf
    <3>3. /\ i \in 1 .. Len(u) /\ u[i] = "ConnectionUp"
          /\ j \in 1 .. Len(u) /\ u[j] = "ConnectionUp"
          /\ \A n \in 1 .. Len(s) : s[n] # "ConnectionUp"
          BY <2>1, <2>3
    <3> HIDE DEF s, u
    <3>4. i = Len(s) + 1 /\ j = Len(s) + 1
          BY <3>2, <3>3
    <3> QED BY <3>4
  <2> QED BY <2>2, <2>3 DEF Finished
<1>6. Heard(v)
      BY <1>1, <1>4, <1>5 DEF Heard
<1> QED BY <1>3, <1>6

(* A connection that is registered takes the entry of an earlier one. *)
LEMMA RegisterSound ==
    ASSUME NEW w \in Worlds, NEW v, NEW c \in Conns, NEW r \in Fields, NEW d \in Dpids,
           Registered(w, v, c, r, d), r.dpid = d, r.ofnexus = "core",
           w.con[c].dpid \in {NoDpid, d}, Registry(w), Heard(w)
    PROVE  Registry(v) /\ Heard(v)
<1>1. \A e \in DOMAIN w.nexus : w.nexus[e] \in Conns /\ e \in Dpids
      BY TableHas DEF Worlds
<1>2. d # NoDpid /\ \A e \in DOMAIN w.nexus : e # NoDpid
      BY <1>1, ConnectionAssumption
<1>3. /\ \A b \in Conns \ {c} : v.con[b] = w.con[b]
      /\ v.con[c].dpid = d /\ v.con[c].ofnexus = "core"
      /\ DOMAIN v.nexus = DOMAIN w.nexus \union {d} /\ v.nexus[d] = c
      /\ \A e \in DOMAIN w.nexus \ {d} : v.nexus[e] = w.nexus[e]
      BY DEF Registered, Others
<1>4. ASSUME NEW e \in DOMAIN v.nexus
      PROVE  v.con[v.nexus[e]].dpid = e /\ v.con[v.nexus[e]].ofnexus = "core"
  <2>1. CASE e = d
        BY <1>3, <2>1
  <2>2. CASE e # d
    <3>1. e \in DOMAIN w.nexus /\ v.nexus[e] = w.nexus[e] /\ w.con[w.nexus[e]].dpid = e
          /\ w.con[w.nexus[e]].ofnexus = "core" /\ w.nexus[e] \in Conns
          BY <1>1, <1>3, <1>4, <2>2 DEF Registry
    <3>2. w.nexus[e] # c
          BY <1>2, <2>2, <3>1
    <3> QED BY <1>3, <3>1, <3>2
  <2> QED BY <2>1, <2>2
<1>6. Registry(v)
      BY <1>4 DEF Registry
<1>7. \A b \in Conns : v.con[b].ofnexus = "core" => v.con[b].dpid # NoDpid
      BY <1>2, <1>3 DEF Heard
<1>8. Heard(v)
      BY <1>7 DEF Heard, Registered
<1> QED BY <1>6, <1>8

(* Learning the dpid of a connection that is not registered yet, or is as  *)
(* that datapath.                                                          *)
LEMMA KnownSound ==
    ASSUME NEW w \in Worlds, NEW v, NEW c \in Conns, NEW r \in Fields,
           Known(w, v, c, r), r.ofnexus = w.con[c].ofnexus,
           r.disconnected = w.con[c].disconnected,
           r.dpid = w.con[c].dpid \/ (w.con[c].dpid = NoDpid /\ r.ofnexus # "core"),
           Registry(w), Heard(w)
    PROVE  Registry(v) /\ Heard(v)
<1>1. \A e \in DOMAIN w.nexus : w.nexus[e] \in Conns
      BY TableHas DEF Worlds
<1>2. /\ \A b \in Conns \ {c} : v.con[b] = w.con[b]
      /\ v.con[c] = r /\ v.nexus = w.nexus
      BY DEF Known, Others
<1>3. \A b \in Conns : /\ v.con[b].ofnexus = w.con[b].ofnexus
                       /\ v.con[b].disconnected = w.con[b].disconnected
                       /\ w.con[b].ofnexus = "core" => v.con[b].dpid = w.con[b].dpid
                       /\ w.con[b].dpid # NoDpid => v.con[b].dpid = w.con[b].dpid
      BY <1>2
<1>4. Registry(v)
      BY <1>1, <1>2, <1>3 DEF Registry
<1>5. \A b \in Conns : v.con[b].ofnexus = "core" => v.con[b].dpid # NoDpid
      BY <1>3 DEF Heard
<1>6. Heard(v)
      BY <1>5 DEF Heard, Known
<1> QED BY <1>4, <1>6

-----------------------------------------------------------------------------
(* The steps of the handshake. *)

(* The state of the controller after a step. *)
LEMMA BecomesWorld ==
    ASSUME NEW v \in Worlds, Becomes(v)
    PROVE  World' = v /\ World' \in Worlds
<1>1. v = [con |-> v.con, nexus |-> v.nexus, toSwitch |-> v.toSwitch, told |-> v.told,
           seen |-> v.seen, delivered |-> v.delivered]
      BY DEF Worlds
<1>2. World' = v
      BY <1>1 DEF World, Becomes
<1> QED BY <1>2

(* A step of the controller on one connection keeps the types. *)
LEMMA CtlTypes ==
    ASSUME Types, NEW v \in Worlds, Becomes(v), toCtl' \in [Conns -> Seq(Answers)],
           UNCHANGED <<peer, pending, flows>>, xid' \in Nat
    PROVE  Types'
BY BecomesWorld DEF Types

(* It leaves the other connections alone. *)
Frame(w, v, c) ==
    \A b \in Conns \ {c} :
        v.con[b] = w.con[b] /\ v.toSwitch[b] = w.toSwitch[b] /\ v.told[b] = w.told[b]

(* So what is left to show is about the connection, the table of the nexus *)
(* and the components.                                                     *)
LEMMA CtlStep ==
    ASSUME HandInv, NEW c \in Conns, NEW v \in Worlds, Becomes(v), Frame(World, v, c),
           \A b \in Conns \ {c} : toCtl'[b] = toCtl[b],
           UNCHANGED <<peer, pending, flows>>, Types', Local(c)', Registry(v), Heard(v)
    PROVE  HandInv'
<1>1. ASSUME NEW b \in Conns \ {c}
      PROVE  Local(b)'
  <2>1. con'[b] = con[b] /\ toSwitch'[b] = toSwitch[b] /\ told'[b] = told[b]
        BY WorldFields DEF Becomes, Frame
  <2>2. Local(b)
        BY DEF HandInv
  <2> QED BY <2>1, <2>2, Untouched
<1>2. OneUp'
      BY DEF HandInv, OneUp
<1>3. Registry(World)' /\ Heard(World)'
  <2>1. World' = v
        BY BecomesWorld
  <2>2. Registry(World') /\ Heard(World')
        BY <2>1
  <2> QED BY <2>2 DEF Registry, Heard, World
<1> QED BY <1>1, <1>2, <1>3 DEF HandInv

(* The ways of handling a message that leave the other connections alone. *)
LEMMA Frames ==
    ASSUME NEW w \in Worlds, NEW v, NEW c \in Conns
    PROVE  /\ Quiet(w, v, c) => Frame(w, v, c)
           /\ \A q : Sent(w, v, c, q) => Frame(w, v, c)
           /\ Finished(w, v, c) => Frame(w, v, c)
           /\ \A r, d : Registered(w, v, c, r, d) => Frame(w, v, c)
           /\ \A r : Known(w, v, c, r) => Frame(w, v, c)
<1>1. w.con \in [Conns -> Fields] /\ w.toSwitch \in [Conns -> Seq(Demands)]
      BY DEF Worlds
<1>2. \A b \in Conns \ {c} : [w.con EXCEPT ![c].disconnected = TRUE][b] = w.con[b]
      BY <1>1
<1>3. Quiet(w, v, c) => Frame(w, v, c)
      BY <1>2 DEF Quiet, Frame
<1>4. ASSUME NEW q, Sent(w, v, c, q)
      PROVE  Frame(w, v, c)
      BY <1>1, <1>4 DEF Sent, Frame
<1>5. Finished(w, v, c) => Frame(w, v, c)
      BY DEF Finished, Others, Frame
<1>6. \A r, d : Registered(w, v, c, r, d) => Frame(w, v, c)
      BY DEF Registered, Others, Frame
<1>7. \A r : Known(w, v, c, r) => Frame(w, v, c)
      BY DEF Known, Others, Frame
<1> QED BY <1>3, <1>4, <1>5, <1>6, <1>7

(* The first message to read, as the handlers need it. *)
LEMMA FirstMessage ==
    ASSUME HandInv, NEW c \in Conns, con[c].state = "open", toCtl[c] # <<>>
    PROVE  LET m == Head(toCtl[c])
           IN  /\ m \in Answers /\ m = toCtl[c][1]
               /\ m.t = "features_reply" => m.dpid = peer[c].dpid /\ m.dpid \in Dpids
               /\ m.t = "barrier_reply" /\ con[c].barrier # 0 => m.xid = con[c].barrier
               /\ m.t = "features_reply" => con[c].barrier = 0
<1>1. toCtl[c] \in Seq(Answers) /\ Local(c)
      BY DEF HandInv, Types
<1>2. Head(toCtl[c]) \in Answers /\ Head(toCtl[c]) = toCtl[c][1] /\ 1 \in 1 .. Len(toCtl[c])
      BY <1>1, TailOf
<1> DEFINE m == toCtl[c][1]
<1>3. m.t = "features_reply" => m.dpid = peer[c].dpid /\ m.dpid \in Dpids
      BY <1>1, <1>2 DEF Local, Ends
<1>4. con[c].barrier # 0 /\ m.t \in {"barrier_reply", "features_reply"} =>
        m.t = "barrier_reply" /\ m.xid = con[c].barrier
  <2>1. SUFFICES ASSUME con[c].barrier # 0, m.t \in {"barrier_reply", "features_reply"}
                 PROVE  m.t = "barrier_reply" /\ m.xid = con[c].barrier
        OBVIOUS
  <2>2. PICK j \in 1 .. 1 : Ack(c, toCtl[c][j])
        BY <1>1, <1>2, <2>1 DEF Local, Waiting
  <2>3. Ack(c, m) /\ con[c].barrier = - c
        BY <1>1, <2>1, <2>2 DEF Local, Listening
  <2> QED BY <2>1, <2>3 DEF Ack
<1> QED BY <1>2, <1>3, <1>4

(* Reading a message keeps the invariant. *)
LEMMA ReadHand ==
    ASSUME HandInv, NEW c \in Conns, Read(c)
    PROVE  HandInv'
<1> DEFINE m == Head(toCtl[c])
           k == con[c]
<1>1. /\ World \in Worlds /\ Types /\ Local(c) /\ Registry(World) /\ Heard(World)
      /\ k \in Fields /\ toSwitch[c] \in Seq(Demands) /\ told[c] \in Seq(Kinds)
      BY WorldFields DEF HandInv, Types, Worlds
<1>2. /\ k.state = "open" /\ toCtl[c] # <<>> /\ UNCHANGED <<peer, pending, flows, xid>>
      /\ toCtl \in [Conns -> Seq(Answers)] /\ xid \in Nat
      BY DEF Read, HandInv, Types
<1>3. Tail(toCtl[c]) \in Seq(Answers) /\ <<>> \in Seq(Answers)
      BY <1>2, TailOf
<1>4. /\ m \in Answers /\ m = toCtl[c][1]
      /\ m.t = "features_reply" => m.dpid = peer[c].dpid /\ m.dpid \in Dpids
      /\ m.t = "barrier_reply" /\ k.barrier # 0 => m.xid = k.barrier
      /\ m.t = "features_reply" => k.barrier = 0
      BY <1>2, FirstMessage
<1>5. k.barrier \in {0, - c} /\ (k.barrier # 0 => k.barrier = - c)
      BY <1>1 DEF Local, Listening
<1>6. CASE m.t = "garbage"
  <2> DEFINE r == [k EXCEPT !.state = "closed"]
             v == close(World, c)
  <2>1. v = [World EXCEPT !.con = [World.con EXCEPT ![c] = r]]
        BY WorldFields DEF close
  <2>2. r \in Fields /\ r.state = "closed" /\ r.disconnected = k.disconnected /\ r.dpid = k.dpid
        /\ r.ofnexus = k.ofnexus /\ r.connect_time = k.connect_time /\ r.barrier = k.barrier
    <3> HIDE DEF k
    <3> QED BY <1>1 DEF Fields
  <2> HIDE DEF r
  <2>3. Known(World, v, c, r)
        BY <1>1, <2>1, <2>2, FieldsChange
  <2>4. Becomes(v) /\ toCtl' = [toCtl EXCEPT ![c] = <<>>]
        BY <1>6 DEF Read
  <2> HIDE DEF v
  <2>5. v \in Worlds /\ con'[c] = r /\ toSwitch' = toSwitch /\ told' = told
        BY <2>3, <2>4, WorldFields DEF Known, Becomes
  <2>6. Types'
        BY <1>1, <1>2, <1>3, <2>4, <2>5, CtlTypes
  <2>7. Registry(v) /\ Heard(v)
        BY <1>1, <2>2, <2>3, KnownSound, WorldFields
  <2>8. Local(c)'
    <3>1. Reads(c)
          BY <1>2, <2>2, <2>4, <2>5 DEF Reads
    <3>2. k.state # "unused"
          BY <1>2
    <3> QED BY <1>1, <1>2, <2>2, <2>5, <2>6, <3>1, <3>2, QuietLocal
  <2>9. Frame(World, v, c)
        BY <1>1, <2>3, Frames
  <2> QED BY <1>2, <2>4, <2>5, <2>6, <2>7, <2>8, <2>9, CtlStep
<1>7. CASE m.t # "garbage"
  <2>1. PICK v \in Handled(World, c, m) : Becomes(v)
        BY <1>7 DEF Read
  <2>2. toCtl' = [toCtl EXCEPT ![c] = Tail(toCtl[c])]
        BY <1>7 DEF Read
  <2>3. toCtl' \in [Conns -> Seq(Answers)] /\ toCtl'[c] = Tail(toCtl[c])
        /\ \A b \in Conns \ {c} : toCtl'[b] = toCtl[b]
        BY <1>2, <1>3, <2>2
  <2>4. Outcome(World, v, c, m)
        BY <1>1, <1>2, <1>4, <2>1, HandledOutcome, WorldFields
  <2>5. /\ con' = v.con /\ nexus' = v.nexus /\ toSwitch' = v.toSwitch /\ told' = v.told
        BY <2>1 DEF Becomes
  <2>6. ASSUME v \in Worlds
        PROVE  Types'
        BY <1>1, <1>2, <2>1, <2>3, <2>6, CtlTypes
  <2>7. ASSUME v \in Worlds, Frame(World, v, c), Registry(v), Heard(v), Local(c)'
        PROVE  HandInv'
        BY <1>2, <2>1, <2>3, <2>6, <2>7, CtlStep
  <2>8. Completes(World, c, m) <=> k.barrier # 0 /\ Ack(c, m)
        BY <1>5, WorldFields DEF Completes, Ack
  <2>9. ~ Completes(World, c, m) => Reads(c)
        BY <1>2, <1>4, <2>3, <2>8 DEF Reads
  <2> HIDE DEF m
  <2>10. CASE ~ Completes(World, c, m) /\ Quiet(World, v, c)
    <3>1. v \in Worlds /\ Frame(World, v, c) /\ Registry(v) /\ Heard(v)
          BY <1>1, <2>10, Frames, QuietSound DEF Quiet
    <3>2. /\ con'[c].state = k.state /\ con'[c].dpid = k.dpid /\ con'[c].ofnexus = k.ofnexus
          /\ con'[c].connect_time = k.connect_time /\ con'[c].barrier = k.barrier
          /\ k.disconnected => con'[c].disconnected
      <4>1. con \in [Conns -> Fields]
            BY <1>1, WorldFields DEF Worlds
      <4>2. CASE con' = con
            BY <4>2
      <4>3. CASE con' = [con EXCEPT ![c].disconnected = TRUE]
            BY <4>1, <4>3 DEF Fields
      <4> QED BY <2>5, <2>10, <4>2, <4>3, WorldFields DEF Quiet
    <3>3. toSwitch'[c] = toSwitch[c]
          /\ (told'[c] = told[c] \/ told'[c] = Append(told[c], "ConnectionDown"))
          BY <2>5, <2>10, WorldFields DEF Quiet
    <3>4. k.state # "unused"
          BY <1>2
    <3>5. Local(c)'
          BY <1>1, <1>2, <2>6, <2>9, <2>10, <3>1, <3>2, <3>3, <3>4, QuietLocal
    <3> QED BY <2>7, <3>1, <3>5
  <2>11. CASE m.t = "hello" /\ peer[c].up /\
              Sent(World, v, c, Append(toSwitch[c], Msg("features_request", 0)))
    <3>1. v \in Worlds /\ Frame(World, v, c) /\ Registry(v) /\ Heard(v)
          BY <1>1, <2>11, Frames, SentSound
    <3>2. con' = con /\ told' = told
          /\ toSwitch'[c] = Append(toSwitch[c], Msg("features_request", 0))
          BY <1>1, <2>5, <2>11, WorldFields DEF Sent, Worlds
    <3>3. Local(c)'
          BY <1>1, <1>2, <1>4, <2>3, <2>6, <2>11, <3>1, <3>2, HelloLocal
    <3> QED BY <2>7, <3>1, <3>3
  <2>12. CASE Completes(World, c, m) /\ Finished(World, v, c)
    <3>1. \A i \in 1 .. Len(told[c]) : told[c][i] # "ConnectionUp"
          BY <1>1, <2>8, <2>12 DEF Local, Listening
    <3>2. v \in Worlds /\ Frame(World, v, c) /\ Registry(v) /\ Heard(v)
          BY <1>1, <2>12, <3>1, Frames, FinishSound, WorldFields DEF Finished
    <3>3. con'[c] = [con[c] EXCEPT !.barrier = 0, !.connect_time = TRUE]
          /\ toSwitch' = toSwitch
          BY <2>5, <2>12, WorldFields DEF Finished
    <3>4. Local(c)'
          BY <1>1, <1>2, <1>4, <2>3, <2>6, <2>8, <2>12, <3>2, <3>3, FinishLocal
    <3> QED BY <2>7, <3>2, <3>4
  <2>13. CASE m.t = "features_reply"
    <3> DEFINE d == m.dpid
               r1 == [k EXCEPT !.dpid = d]
               r2 == [k EXCEPT !.dpid = d, !.ofnexus = "core", !.barrier = - c]
    <3>1. d = peer[c].dpid /\ d \in Dpids /\ d \in Names /\ k.barrier = 0
          /\ k.dpid \in {NoDpid, d} /\ - c \in Int
          BY <1>1, <1>4, <2>13, ConnNumber DEF Local, Ends, Names
    <3>2. /\ r1 \in Fields /\ r1.dpid = d /\ r1.state = k.state /\ r1.ofnexus = k.ofnexus
          /\ r1.disconnected = k.disconnected /\ r1.connect_time = k.connect_time
          /\ r1.barrier = k.barrier
      <4> HIDE DEF k, d
      <4> QED BY <1>1, <3>1 DEF Fields
    <3>3. /\ r2 \in Fields /\ r2.dpid = d /\ r2.state = k.state /\ r2.ofnexus = "core"
          /\ r2.disconnected = k.disconnected /\ r2.connect_time = k.connect_time
          /\ r2.barrier = - c
      <4> HIDE DEF k, d
      <4> QED BY <1>1, <3>1 DEF Fields
    <3>4. Reads(c) /\ k.state # "unused"
          BY <1>2, <2>8, <2>9, <2>13 DEF Ack
    <3>5. CASE k.connect_time /\ Again(World, v, c, d)
      <4>1. k.ofnexus = "core" /\ k.dpid = d
            BY <1>1, <3>1, <3>5 DEF Local, Listening
      <4>2. Registered(World, v, c, r1, d) \/ Known(World, v, c, r1)
            BY <3>5, WorldFields DEF Again
      <4> HIDE DEF r1, d, k
      <4>3. v \in Worlds /\ Frame(World, v, c)
            BY <1>1, <4>2, Frames DEF Registered, Known
      <4>4. World.con[c] = k
            BY WorldFields DEF k
      <4>5. Registry(v) /\ Heard(v)
        <5>1. CASE Registered(World, v, c, r1, d)
              BY <1>1, <3>1, <3>2, <4>1, <4>4, <5>1, RegisterSound
        <5>2. CASE Known(World, v, c, r1)
              BY <1>1, <3>2, <4>1, <4>4, <5>2, KnownSound
        <5> QED BY <4>2, <5>1, <5>2
      <4>6. con'[c] = r1 /\ toSwitch' = toSwitch /\ told' = told
            BY <2>5, <4>2, WorldFields DEF Registered, Known
      <4>7. Local(c)'
        <5>1. con'[c].dpid = peer[c].dpid /\ con'[c].state = con[c].state
              /\ con'[c].ofnexus = con[c].ofnexus /\ con'[c].connect_time = con[c].connect_time
              /\ con'[c].barrier = con[c].barrier
              /\ con'[c].disconnected = con[c].disconnected
              BY <3>1, <3>2, <4>6 DEF k
        <5>2. con[c].state # "unused" /\ toSwitch'[c] = toSwitch[c] /\ told'[c] = told[c]
              BY <3>4, <4>6 DEF k
        <5> QED BY <1>1, <1>2, <2>6, <3>4, <4>3, <5>1, <5>2, QuietLocal
      <4> QED BY <2>7, <4>3, <4>5, <4>7
    <3>6. CASE ~ k.connect_time /\ Refused(World, v, c, d)
      <4>1. k.ofnexus = "dummy"
            BY <1>1, <1>2, <3>1, <3>6 DEF Local, Greeting
      <4>2. PICK u \in Worlds : Known(World, u, c, r1) /\ Lost(u, v, c)
            BY <3>6, WorldFields DEF Refused
      <4> HIDE DEF r1, d, k
      <4>3. Quiet(u, v, c)
            BY <4>2, QuietSteps
      <4>4. World.con[c] = k
            BY WorldFields DEF k
      <4>5. v \in Worlds /\ Frame(World, v, c)
        <5>1. Frame(World, u, c) /\ Frame(u, v, c)
              BY <1>1, <4>2, <4>3, Frames
        <5> QED BY <4>3, <5>1 DEF Frame, Quiet
      <4>6. Registry(u) /\ Heard(u)
        <5>1. r1.dpid = k.dpid \/ (k.dpid = NoDpid /\ r1.ofnexus # "core")
              BY <3>1, <3>2, <4>1
        <5> QED BY <1>1, <3>2, <4>2, <4>4, <5>1, KnownSound
      <4>7. Registry(v) /\ Heard(v)
            BY <4>3, <4>6, QuietSound
      <4>8. /\ u.con[c] = r1 /\ u.con \in [Conns -> Fields]
            /\ con' = [u.con EXCEPT ![c].disconnected = TRUE]
            BY <2>5, <4>2 DEF Known, Lost, Worlds
      <4>9. /\ con'[c].state = k.state /\ con'[c].dpid = d /\ con'[c].ofnexus = k.ofnexus
            /\ con'[c].connect_time = k.connect_time /\ con'[c].barrier = k.barrier
            /\ con'[c].disconnected
            BY <3>2, <4>8 DEF Fields
      <4>10. toSwitch' = toSwitch
             /\ (told'[c] = told[c] \/ told'[c] = Append(told[c], "ConnectionDown"))
             BY <2>5, <4>2, WorldFields DEF Known, Lost
      <4>11. Local(c)'
        <5>1. con'[c].dpid = peer[c].dpid /\ con'[c].state = con[c].state
              /\ con'[c].ofnexus = con[c].ofnexus /\ con'[c].connect_time = con[c].connect_time
              /\ con'[c].barrier = con[c].barrier
              /\ con[c].state # "unused" /\ toSwitch'[c] = toSwitch[c]
              BY <3>1, <3>4, <4>9, <4>10 DEF k
        <5> QED BY <1>1, <1>2, <2>6, <3>4, <4>5, <4>9, <4>10, <5>1, QuietLocal
      <4> QED BY <2>7, <4>5, <4>7, <4>11
    <3>7. CASE ~ k.connect_time /\ Accepted(World, v, c, d)
      <4> DEFINE b2 == Append(Append(toSwitch[c], Msg("flow_mod_delete", 0)),
                              Msg("barrier_request", - c))
      <4>1. PICK u \in Worlds :
              /\ Registered(World, u, c, r2, d)
              /\ \/ v = u /\ (k.disconnected \/ ~ peer[c].up)
                 \/ Lost(u, v, c) /\ ~ peer[c].up
                 \/ ~ k.disconnected /\ peer[c].up /\ Sent(u, v, c, b2)
            BY <3>7, WorldFields DEF Accepted
      <4> HIDE DEF r2, d, k, b2
      <4>2. World.con[c] = k
            BY WorldFields DEF k
      <4>3. Registry(u) /\ Heard(u)
            BY <1>1, <3>1, <3>3, <4>1, <4>2, RegisterSound
      <4>4. Quiet(u, v, c) \/ Sent(u, v, c, b2)
            BY <4>1, QuietSteps
      <4>5. v \in Worlds /\ Frame(World, v, c)
        <5>1. Frame(World, u, c) /\ Frame(u, v, c)
              BY <1>1, <4>1, <4>4, Frames
        <5> QED BY <4>4, <5>1 DEF Frame, Quiet, Sent
      <4>6. Registry(v) /\ Heard(v)
        <5>1. CASE Quiet(u, v, c)
              BY <4>3, <5>1, QuietSound
        <5>2. CASE Sent(u, v, c, b2)
              BY <4>3, <5>2, SentSound
        <5> QED BY <4>4, <5>1, <5>2
      <4>7. u.con[c] = r2 /\ u.con \in [Conns -> Fields] /\ u.toSwitch = toSwitch
            /\ u.told = told /\ toSwitch \in [Conns -> Seq(Demands)]
            BY <1>1, <4>1, WorldFields DEF Registered, Worlds
      <4>8. /\ con'[c].state = "open" /\ con'[c].dpid = d /\ con'[c].ofnexus = "core"
            /\ ~ con'[c].connect_time /\ con'[c].barrier = - c
            /\ k.disconnected => con'[c].disconnected
        <5>1. CASE con' = u.con
              BY <1>2, <3>3, <3>7, <4>7, <5>1
        <5>2. CASE con' = [u.con EXCEPT ![c].disconnected = TRUE]
              BY <1>2, <3>3, <3>7, <4>7, <5>2 DEF Fields
        <5> QED BY <2>5, <4>4, <5>1, <5>2 DEF Quiet, Sent
      <4>9. \/ toSwitch'[c] = toSwitch[c] /\ (con'[c].disconnected \/ ~ peer[c].up)
            \/ toSwitch'[c] = b2 /\ peer[c].up
        <5>1. CASE v = u /\ (k.disconnected \/ ~ peer[c].up)
              BY <2>5, <4>7, <4>8, <5>1
        <5>2. CASE Lost(u, v, c) /\ ~ peer[c].up
              BY <2>5, <4>7, <5>2 DEF Lost
        <5>3. CASE peer[c].up /\ Sent(u, v, c, b2)
              BY <2>5, <4>7, <5>3 DEF Sent
        <5> QED BY <4>1, <5>1, <5>2, <5>3
      <4>10. told'[c] = told[c] \/ told'[c] = Append(told[c], "ConnectionDown")
             BY <2>5, <4>4, <4>7 DEF Quiet, Sent
      <4>11. Local(c)'
        <5>1. ~ con[c].connect_time /\ con[c].barrier = 0 /\ con[c].state = "open"
              /\ con'[c].dpid = peer[c].dpid
              BY <1>2, <3>1, <3>7, <4>8 DEF k
        <5>2. toCtl[c] # <<>> /\ toCtl[c][1].t = "features_reply" /\ toCtl'[c] = Tail(toCtl[c])
              BY <1>2, <1>4, <2>3, <2>13
        <5> QED BY <1>1, <1>2, <2>6, <4>5, <4>8, <4>9, <4>10, <5>1, <5>2, AcceptedLocal DEF b2
      <4> QED BY <2>7, <4>5, <4>6, <4>11
    <3> QED BY <2>4, <2>13, <3>5, <3>6, <3>7, WorldFields DEF Outcome, Completes
  <2>14. CASE m.t = "stats_reply" /\ Filed(World, v, c, m)
    <3> DEFINE u == [World EXCEPT !.delivered = v.delivered]
               rest == v.con[c].previous_stats
               r == [k EXCEPT !.previous_stats = rest]
    <3>1. Known(u, v, c, r)
          BY <2>14, WorldFields DEF Filed
    <3>2. u.con = con /\ u.nexus = nexus /\ u.toSwitch = toSwitch /\ u.told = told
          /\ u.seen = seen /\ u.delivered = v.delivered
          BY WorldFields DEF World
    <3>3. v \in Worlds /\ rest \in Seq(Answers)
          BY <3>1 DEF Known, Worlds, Fields
    <3>4. u \in Worlds
          BY <1>1, <3>3 DEF Worlds
    <3>5. r \in Fields /\ r.state = k.state /\ r.dpid = k.dpid /\ r.ofnexus = k.ofnexus
          /\ r.disconnected = k.disconnected /\ r.connect_time = k.connect_time
          /\ r.barrier = k.barrier
      <4> HIDE DEF k, rest
      <4> QED BY <1>1, <3>3 DEF Fields
    <3> HIDE DEF u, r
    <3>6. Registry(u) /\ Heard(u)
          BY <1>1, <3>2, WorldFields DEF Registry, Heard
    <3>7. Registry(v) /\ Heard(v)
          BY <3>1, <3>2, <3>4, <3>5, <3>6, KnownSound
    <3>8. Frame(World, v, c)
      <4>1. Frame(u, v, c)
            BY <3>1, <3>4, Frames
      <4> QED BY <3>2, <4>1, WorldFields DEF Frame
    <3>9. con'[c] = r /\ toSwitch' = toSwitch /\ told' = told
          BY <2>5, <3>1, <3>2 DEF Known
    <3>10. Reads(c) /\ k.state # "unused"
           BY <1>2, <2>8, <2>9, <2>14 DEF Ack
    <3>11. Local(c)'
           BY <1>1, <1>2, <2>6, <3>3, <3>5, <3>9, <3>10, QuietLocal
    <3> QED BY <2>7, <3>3, <3>7, <3>8, <3>11
  <2> QED BY <2>4, <2>10, <2>11, <2>12, <2>13, <2>14, WorldFields DEF Outcome
<1> QED BY <1>6, <1>7

(* Closing a connection whose switch is gone keeps the invariant. *)
LEMMA ReadEndHand ==
    ASSUME HandInv, NEW c \in Conns, ReadEnd(c)
    PROVE  HandInv'
<1> DEFINE k == con[c]
           r == [k EXCEPT !.state = "closed"]
           v == close(World, c)
<1>1. /\ World \in Worlds /\ Types /\ Local(c) /\ Registry(World) /\ Heard(World)
      /\ k \in Fields /\ toCtl \in [Conns -> Seq(Answers)] /\ xid \in Nat
      BY WorldFields DEF HandInv, Types, Worlds
<1>2. /\ k.state = "open" /\ UNCHANGED <<toCtl, peer, pending, flows, xid>> /\ Becomes(v)
      BY DEF ReadEnd
<1>3. v = [World EXCEPT !.con = [World.con EXCEPT ![c] = r]]
      BY WorldFields DEF close
<1>4. r \in Fields /\ r.state = "closed" /\ r.disconnected = k.disconnected /\ r.dpid = k.dpid
      /\ r.ofnexus = k.ofnexus /\ r.connect_time = k.connect_time /\ r.barrier = k.barrier
  <2> HIDE DEF k
  <2> QED BY <1>1 DEF Fields
<1> HIDE DEF r
<1>5. Known(World, v, c, r)
      BY <1>1, <1>3, <1>4, FieldsChange
<1> HIDE DEF v
<1>6. v \in Worlds /\ con'[c] = r /\ toSwitch' = toSwitch /\ told' = told
      BY <1>2, <1>5, WorldFields DEF Known, Becomes
<1>7. Types'
      BY <1>1, <1>2, <1>6, CtlTypes
<1>8. Registry(v) /\ Heard(v)
      BY <1>1, <1>4, <1>5, KnownSound, WorldFields
<1>9. Local(c)'
  <2>1. Reads(c) /\ k.state # "unused"
        BY <1>2 DEF Reads
  <2> QED BY <1>1, <1>2, <1>4, <1>6, <1>7, <2>1, QuietLocal
<1>10. Frame(World, v, c)
       BY <1>1, <1>5, Frames
<1> QED BY <1>2, <1>6, <1>7, <1>8, <1>9, <1>10, CtlStep

(* A request of a component has its type, and is not a barrier of a        *)
(* handshake.                                                              *)
LEMMA RequestType ==
    ASSUME NEW r \in Requests, NEW x \in Nat, NEW c \in Conns
    PROVE  /\ [r EXCEPT !.xid = x] \in Demands
           /\ [r EXCEPT !.xid = x].t = r.t /\ [r EXCEPT !.xid = x].xid = x
           /\ ~ Bar(c, [r EXCEPT !.xid = x])
<1>1. r \in Demands
  <2>1. CASE r \in {Msg(t, 0) : t \in {"barrier_request", "flow_mod", "features_request"}}
    <3>1. PICK t \in {"barrier_request", "flow_mod", "features_request"} : r = Msg(t, 0)
          BY <2>1
    <3> QED BY <3>1, MsgType DEF Requested
  <2>2. CASE r \in {[Msg("stats_request", 0) EXCEPT !.type = y] : y \in StatsTypes}
    <3>1. PICK y \in StatsTypes : r = [Msg("stats_request", 0) EXCEPT !.type = y]
          BY <2>2
    <3>2. Msg("stats_request", 0) \in Demands
          BY MsgType DEF Requested
    <3>3. y \in StatsNames
          BY DEF StatsNames
    <3> QED BY <3>1, <3>2, <3>3 DEF Demands
  <2> QED BY <2>1, <2>2 DEF Requests
<1> DEFINE m == [r EXCEPT !.xid = x]
<1>2. m \in Demands /\ m.t = r.t /\ m.xid = x
      BY <1>1 DEF Demands
<1> HIDE DEF m
<1>3. ~ Bar(c, m)
      BY <1>2, ConnNumber DEF Bar
<1> QED BY <1>2, <1>3 DEF m

(* Sending on a connection with a nexus keeps the invariant. *)
LEMMA SendHand ==
    ASSUME HandInv, NEW c \in Conns, con[c].ofnexus = "core", NEW m \in Demands, ~ Bar(c, m),
           NEW v \in send(World, c, m), Becomes(v), UNCHANGED <<toCtl, peer, pending, flows>>,
           xid' \in Nat
    PROVE  HandInv'
<1> DEFINE k == con[c]
<1>1. /\ World \in Worlds /\ Types /\ Local(c) /\ Registry(World) /\ Heard(World)
      /\ con \in [Conns -> Fields] /\ toCtl \in [Conns -> Seq(Answers)]
      /\ toSwitch \in [Conns -> Seq(Demands)]
      BY WorldFields DEF HandInv, Types, Worlds
<1>2. k.state # "unused"
      BY <1>1 DEF Local, Ends, Unused
<1>3. /\ v \in Worlds
      /\ \/ Quiet(World, v, c)
         \/ ~ k.disconnected /\ peer[c].up /\ Sent(World, v, c, Append(toSwitch[c], m))
      BY <1>1, SendOutcome, QuietSteps, WorldFields
<1>4. Types'
      BY <1>1, <1>3, CtlTypes
<1>5. Frame(World, v, c)
      BY <1>1, <1>3, Frames
<1>6. /\ con' = v.con /\ toSwitch' = v.toSwitch /\ told' = v.told
      BY DEF Becomes
<1>7. CASE Quiet(World, v, c)
  <2>1. Registry(v) /\ Heard(v)
        BY <1>1, <1>7, QuietSound
  <2>2. /\ con'[c].state = k.state /\ con'[c].dpid = k.dpid /\ con'[c].ofnexus = k.ofnexus
        /\ con'[c].connect_time = k.connect_time /\ con'[c].barrier = k.barrier
        /\ k.disconnected => con'[c].disconnected
    <3>1. CASE con' = con
          BY <3>1
    <3>2. CASE con' = [con EXCEPT ![c].disconnected = TRUE]
          BY <1>1, <3>2 DEF Fields
    <3> QED BY <1>6, <1>7, <3>1, <3>2, WorldFields DEF Quiet
  <2>3. toSwitch'[c] = toSwitch[c]
        /\ (told'[c] = told[c] \/ told'[c] = Append(told[c], "ConnectionDown"))
        BY <1>6, <1>7, WorldFields DEF Quiet
  <2>4. Reads(c)
        BY DEF Reads
  <2>5. Local(c)'
        BY <1>1, <1>2, <1>4, <2>2, <2>3, <2>4, QuietLocal
  <2> QED BY <1>3, <1>4, <1>5, <2>1, <2>5, CtlStep
<1>8. CASE ~ k.disconnected /\ peer[c].up /\ Sent(World, v, c, Append(toSwitch[c], m))
  <2>1. Registry(v) /\ Heard(v)
        BY <1>1, <1>8, SentSound
  <2>2. con' = con /\ told' = told /\ toSwitch'[c] = Append(toSwitch[c], m)
        BY <1>1, <1>6, <1>8, WorldFields DEF Sent
  <2>3. Local(c)'
        BY <1>1, <1>2, <1>8, <2>2, PushLocal
  <2> QED BY <1>3, <1>4, <1>5, <2>1, <2>3, CtlStep
<1> QED BY <1>3, <1>7, <1>8

(* A component sends on a connection it was told of, or by dpid. *)
LEMMA ComponentHand ==
    ASSUME HandInv, NEW r \in Requests,
           (\E c \in Conns : ComponentSend(c, r)) \/ (\E d \in Dpids : sendToDPID(d, r))
    PROVE  HandInv'
<1>1. /\ World \in Worlds /\ told \in [Conns -> Seq(Kinds)] /\ nexus \in Tables /\ xid \in Nat
      BY WorldFields DEF HandInv, Types, Worlds
<1>2. ASSUME NEW c \in Conns, con[c].ofnexus = "core", xid' = xid + 1,
             \E w \in send(World, c, [r EXCEPT !.xid = xid]) : Becomes(w),
             UNCHANGED <<toCtl, peer, pending, flows>>
      PROVE  HandInv'
  <2>1. [r EXCEPT !.xid = xid] \in Demands /\ ~ Bar(c, [r EXCEPT !.xid = xid])
        BY <1>1, RequestType
  <2>2. xid' \in Nat
        BY <1>1, <1>2
  <2> QED BY <1>2, <2>1, <2>2, SendHand
<1>3. ASSUME NEW c \in Conns, ComponentSend(c, r)
      PROVE  HandInv'
  <2>1. \E i \in 1 .. Len(told[c]) : told[c][i] = "ConnectionUp"
        BY <1>1, <1>3 DEF ComponentSend, ToSet
  <2>2. con[c].ofnexus = "core"
        BY <2>1 DEF HandInv, Local, Listening
  <2> QED BY <1>2, <1>3, <2>2 DEF ComponentSend
<1>4. ASSUME NEW d \in Dpids, sendToDPID(d, r)
      PROVE  HandInv'
  <2>1. nexus[d] \in Conns /\ con[nexus[d]].ofnexus = "core"
        BY <1>1, <1>4, TableHas, WorldFields DEF sendToDPID, HandInv, Registry
  <2> QED BY <1>2, <1>4, <2>1 DEF sendToDPID
<1> QED BY <1>3, <1>4

(* The controller goes down: the table is empty afterwards, since every    *)
(* entry names the connection it leads to.                                 *)
LEMMA DownHand ==
    ASSUME HandInv, _handle_DownEvent
    PROVE  HandInv'
<1> DEFINE all == Range(nexus)
           one(c) == disconnect(World, c)
<1>1. /\ World \in Worlds /\ Types /\ Registry(World) /\ Heard(World) /\ nexus \in Tables
      /\ con \in [Conns -> Fields] /\ told \in [Conns -> Seq(Kinds)] /\ seen \in SUBSET Names
      BY WorldFields DEF HandInv, Types, Worlds
<1>2. /\ con' = [c \in Conns |-> IF c \in all THEN one(c).con[c] ELSE con[c]]
      /\ told' = [c \in Conns |-> IF c \in all THEN one(c).told[c] ELSE told[c]]
      /\ nexus' = [d \in {e \in DOMAIN nexus : \A c \in all : e \in DOMAIN one(c).nexus} |->
                     nexus[d]]
      /\ seen' = UNION {one(c).seen : c \in all}
      /\ UNCHANGED <<toSwitch, delivered, toCtl, peer, pending, flows, xid>>
      BY DEF _handle_DownEvent
<1>3. \A c \in all : c \in Conns /\ con[c].ofnexus = "core"
      BY <1>1, TableHas, WorldFields DEF Range, Registry
<1>4. \A d \in DOMAIN nexus : nexus[d] \in all /\ con[nexus[d]].dpid = d
      BY <1>1, WorldFields DEF Range, Registry
<1> HIDE DEF all
<1>5. ASSUME NEW c \in all
      PROVE  /\ one(c).con[c] = [con[c] EXCEPT !.disconnected = TRUE]
             /\ DOMAIN one(c).nexus = DOMAIN nexus \ {con[c].dpid}
             /\ one(c).told[c] = told[c] \/ one(c).told[c] = Append(told[c], "ConnectionDown")
             /\ one(c).seen \subseteq seen \union {con[c].dpid}
  <2>1. Lost(World, one(c), c) /\ c \in Conns
        BY <1>1, <1>3, DisconnectLoses
  <2> HIDE DEF one
  <2>2. one(c).con = [con EXCEPT ![c].disconnected = TRUE]
        BY <2>1, WorldFields DEF Lost
  <2>3. one(c).con[c] = [con[c] EXCEPT !.disconnected = TRUE]
        BY <1>1, <2>1, <2>2
  <2> QED BY <1>3, <2>1, <2>3, WorldFields DEF Lost
<1> HIDE DEF one
<1>6. DOMAIN nexus' = {}
      BY <1>2, <1>4, <1>5
<1>7. \A c \in Conns : /\ con'[c] = con[c] \/ con'[c] = [con[c] EXCEPT !.disconnected = TRUE]
                       /\ c \in all => con'[c] = [con[c] EXCEPT !.disconnected = TRUE]
                       /\ told'[c] = told[c] \/ told'[c] = Append(told[c], "ConnectionDown")
      BY <1>2, <1>5
<1>8. \A c \in Conns :
        /\ con'[c].state = con[c].state /\ con'[c].dpid = con[c].dpid
        /\ con'[c].ofnexus = con[c].ofnexus /\ con'[c].connect_time = con[c].connect_time
        /\ con'[c].barrier = con[c].barrier /\ con'[c] \in Fields
        /\ con[c].disconnected => con'[c].disconnected
        /\ c \in all => con'[c].disconnected
  <2>1. ASSUME NEW k \in Fields
        PROVE  LET r == [k EXCEPT !.disconnected = TRUE]
               IN  /\ r \in Fields /\ r.state = k.state /\ r.dpid = k.dpid
                   /\ r.ofnexus = k.ofnexus /\ r.connect_time = k.connect_time
                   /\ r.barrier = k.barrier /\ r.disconnected
        BY DEF Fields
  <2>2. SUFFICES ASSUME NEW c \in Conns
                 PROVE  /\ con'[c].state = con[c].state /\ con'[c].dpid = con[c].dpid
                        /\ con'[c].ofnexus = con[c].ofnexus
                        /\ con'[c].connect_time = con[c].connect_time
                        /\ con'[c].barrier = con[c].barrier /\ con'[c] \in Fields
                        /\ con[c].disconnected => con'[c].disconnected
                        /\ c \in all => con'[c].disconnected
        OBVIOUS
  <2>3. con[c] \in Fields
        BY <1>1
  <2>4. CASE con'[c] = [con[c] EXCEPT !.disconnected = TRUE]
        BY <2>1, <2>3, <2>4
  <2>5. CASE con'[c] # [con[c] EXCEPT !.disconnected = TRUE]
        BY <1>7, <2>3, <2>5
  <2> QED BY <2>4, <2>5
<1>9. Types'
  <2>1. con' \in [Conns -> Fields]
        BY <1>2, <1>8
  <2>2. told' \in [Conns -> Seq(Kinds)]
    <3>1. \A s \in Seq(Kinds) : Append(s, "ConnectionDown") \in Seq(Kinds)
          BY AppendOf DEF Kinds
    <3>2. \A c \in Conns : told'[c] \in Seq(Kinds)
          BY <1>1, <1>7, <3>1
    <3> QED BY <1>2, <3>2
  <2>3. nexus' \in Tables
    <3>1. nexus' \in [{} -> Conns]
          BY <1>2, <1>6
    <3> QED BY <3>1, IsTable
  <2>4. seen' \in SUBSET Names
    <3>1. \A c \in all : con[c].dpid \in Names
          BY <1>1, <1>3 DEF Fields
    <3>2. \A x \in seen' : \E c \in all : x \in one(c).seen
          BY <1>2
    <3>3. \A c \in all : one(c).seen \subseteq seen \union {con[c].dpid}
          BY <1>5
    <3>4. \A x \in seen' : x \in Names
          BY <1>1, <3>1, <3>2, <3>3
    <3> QED BY <3>4
  <2>5. World' \in Worlds
        BY <1>1, <1>2, <2>1, <2>2, <2>3, <2>4 DEF World, Worlds
  <2> QED BY <1>1, <1>2, <2>5 DEF Types
<1>10. ASSUME NEW c \in Conns
       PROVE  Local(c)'
  <2>1. Local(c)
        BY DEF HandInv
  <2>2. CASE con[c].state = "unused"
    <3>1. con[c] = Unused
          BY <2>1, <2>2 DEF Local, Ends
    <3>2. c \notin all
          BY <1>3, <3>1 DEF Unused
    <3>3. con'[c] = con[c] /\ told'[c] = told[c]
          BY <1>2, <3>2
    <3> QED BY <1>2, <2>1, <3>3, Untouched
  <2>3. CASE con[c].state # "unused"
    <3>1. Reads(c)
          BY <1>2 DEF Reads
    <3> QED BY <1>1, <1>2, <1>7, <1>8, <1>9, <2>1, <2>3, <3>1, QuietLocal
  <2> QED BY <2>2, <2>3
<1>11. Registry(World)'
       BY <1>6 DEF Registry, World
<1>12. Heard(World)'
  <2>1. NoDpid \notin seen'
    <3>1. NoDpid \notin seen /\ \A c \in all : con[c].dpid # NoDpid
          BY <1>1, <1>3, WorldFields DEF Heard
    <3>2. \A x \in seen' : \E c \in all : x \in one(c).seen
          BY <1>2
    <3>3. \A c \in all : one(c).seen \subseteq seen \union {con[c].dpid}
          BY <1>5
    <3> QED BY <3>1, <3>2, <3>3
  <2>2. \A c \in Conns : con'[c].ofnexus = "core" => con'[c].dpid # NoDpid
        BY <1>1, <1>8, WorldFields DEF Heard
  <2>3. ASSUME NEW c \in Conns, NEW i \in 1 .. Len(told'[c]), NEW j \in 1 .. Len(told'[c]),
               told'[c][i] = "ConnectionUp", told'[c][j] = "ConnectionUp"
        PROVE  i = j
    <3>1. \A m, n \in 1 .. Len(told[c]) :
            told[c][m] = "ConnectionUp" /\ told[c][n] = "ConnectionUp" => m = n
          BY <1>1, WorldFields DEF Heard
    <3>2. CASE told'[c] = told[c]
          BY <2>3, <3>1, <3>2
    <3>3. CASE told'[c] = Append(told[c], "ConnectionDown")
      <4> DEFINE s == told[c]
                 u == told'[c]
      <4>1. s \in Seq(Kinds) /\ "ConnectionDown" \in Kinds
            BY <1>1 DEF Kinds
      <4>2. Len(s) \in Nat /\ Len(u) = Len(s) + 1 /\ u[Len(s) + 1] = "ConnectionDown"
            /\ \A n \in 1 .. Len(s) : u[n] = s[n]
            BY <3>3, <4>1, AppendOf
      <4>3. /\ i \in 1 .. Len(u) /\ u[i] = "ConnectionUp"
            /\ j \in 1 .. Len(u) /\ u[j] = "ConnectionUp"
            BY <2>3
      <4> HIDE DEF s, u
      <4>4. i \in 1 .. Len(s) /\ j \in 1 .. Len(s) /\ s[i] = "ConnectionUp" /\ s[j] = "ConnectionUp"
            BY <4>2, <4>3
      <4> QED BY <3>1, <4>4 DEF s
    <3> QED BY <1>7, <3>2, <3>3
  <2> QED BY <2>1, <2>2, <2>3 DEF Heard, World
<1>13. OneUp'
       BY <1>2 DEF HandInv, OneUp
<1> QED BY <1>9, <1>10, <1>11, <1>12, <1>13 DEF HandInv

(* The switches and the network keep the nexus as it is. *)
LEMMA NexusKept ==
    ASSUME HandInv, UNCHANGED <<con, nexus, told, seen>>
    PROVE  Registry(World)' /\ Heard(World)'
BY DEF HandInv, Registry, Heard, World

(* Steps of a switch keep the types. *)
LEMMA PeerTypes ==
    ASSUME Types, UNCHANGED <<con, nexus, told, seen, delivered>>,
           toSwitch' \in [Conns -> Seq(Demands)], toCtl' \in [Conns -> Seq(Answers)],
           peer' \in [Conns -> [dpid : Names, up : BOOLEAN]],
           pending' \in [Conns -> SUBSET Rests], flows' \in [Dpids -> SUBSET Conns], xid' \in Nat
    PROVE  Types'
<1>1. World' \in Worlds
      BY DEF Types, World, Worlds
<1> QED BY <1>1 DEF Types

(* What a switch answers. *)
LEMMA RepliesOf ==
    ASSUME Types, NEW c \in Conns, peer[c].up, NEW m \in Demands, NEW r \in Replies(c, m),
           toCtl' = [toCtl EXCEPT ![c] = toCtl[c] \o r]
    PROVE  /\ toCtl' \in [Conns -> Seq(Answers)] /\ Answers1(c, m)
           /\ \A b \in Conns \ {c} : toCtl'[b] = toCtl[b]
<1>1. toCtl \in [Conns -> Seq(Answers)] /\ peer[c].dpid \in Names
      BY DEF Types
<1>2. ASSUME NEW x \in Answers, r = <<x>>
      PROVE  toCtl'[c] = Append(toCtl[c], x) /\ toCtl'[c] \in Seq(Answers)
  <2>1. toCtl[c] \o <<x>> = Append(toCtl[c], x)
        BY <1>1
  <2>2. Append(toCtl[c], x) \in Seq(Answers)
        BY <1>1, AppendOf
  <2> QED BY <1>1, <1>2, <2>1, <2>2
<1>3. m.xid \in Int /\ NoDpid \in Names
      BY DEF Demands, Names
<1>4. CASE m.t = "features_request"
  <2> DEFINE x == Answer("features_reply", 0, peer[c].dpid)
  <2>1. x \in Answers /\ x.t = "features_reply" /\ x.dpid = peer[c].dpid
        BY <1>1, AnswerType DEF Said
  <2>2. r = <<x>>
        BY <1>4 DEF Replies
  <2> HIDE DEF x
  <2>3. toCtl'[c] = Append(toCtl[c], x) /\ toCtl'[c] \in Seq(Answers)
        BY <1>2, <2>1, <2>2
  <2>4. Answers1(c, m)
        BY <1>4, <2>1, <2>3 DEF Answers1
  <2> QED BY <1>1, <2>3, <2>4
<1>5. CASE m.t = "barrier_request"
  <2>1. \A t \in {"barrier_reply", "error"} :
          LET x == Answer(t, m.xid, NoDpid) IN x \in Answers /\ x.t = t /\ x.xid = m.xid
        BY <1>3, AnswerType DEF Said, Unsolicited
  <2>2. r = <<Answer("barrier_reply", m.xid, NoDpid)>> \/ r = <<Answer("error", m.xid, NoDpid)>>
        BY <1>5 DEF Replies
  <2>3. PICK x \in Answers : x.t \in {"barrier_reply", "error"} /\ x.xid = m.xid /\ r = <<x>>
        BY <2>1, <2>2
  <2>4. toCtl'[c] = Append(toCtl[c], x) /\ toCtl'[c] \in Seq(Answers)
        BY <1>2, <2>3
  <2>5. Answers1(c, m)
        BY <1>5, <2>3, <2>4 DEF Answers1
  <2> QED BY <1>1, <2>4, <2>5
<1>6. CASE m.t \notin {"features_request", "barrier_request"}
  <2>1. r = <<>>
        BY <1>6 DEF Replies
  <2>2. toCtl[c] \o r = toCtl[c]
        BY <1>1, <2>1
  <2>3. toCtl'[c] = toCtl[c] /\ toCtl' \in [Conns -> Seq(Answers)]
        BY <1>1, <2>2
  <2>4. Answers1(c, m)
        BY <1>6, <2>3 DEF Answers1
  <2> QED BY <1>1, <2>3, <2>4
<1> QED BY <1>4, <1>5, <1>6

(* A switch takes a message from its queue. *)
LEMMA PeerStepHand ==
    ASSUME HandInv, NEW c \in Conns, PeerStep(c)
    PROVE  HandInv'
<1> DEFINE m == Head(toSwitch[c])
           d == peer[c].dpid
<1>1. /\ Types /\ Local(c) /\ toSwitch \in [Conns -> Seq(Demands)]
      /\ flows \in [Dpids -> SUBSET Conns] /\ pending \in [Conns -> SUBSET Rests]
      /\ peer \in [Conns -> [dpid : Names, up : BOOLEAN]] /\ xid \in Nat
      BY WorldFields DEF HandInv, Types, Worlds
<1>2. /\ peer[c].up /\ toSwitch[c] # <<>>
      /\ \E r \in Replies(c, m) : toCtl' = [toCtl EXCEPT ![c] = toCtl[c] \o r]
      /\ toSwitch' = [toSwitch EXCEPT ![c] = Tail(toSwitch[c])]
      /\ flows' = CASE m.t = "flow_mod" -> [flows EXCEPT ![d] = flows[d] \union {c}]
                    [] m.t = "flow_mod_delete" -> [flows EXCEPT ![d] = {}]
                    [] OTHER -> flows
      /\ pending' = IF m.t # "stats_request" THEN pending
                    ELSE [pending EXCEPT ![c] = pending[c] \union
                           {[xid |-> m.xid, type |-> m.type, part |-> 1]}]
      /\ UNCHANGED <<con, nexus, told, seen, delivered, peer, xid>>
      BY DEF PeerStep
<1>3. m \in Demands /\ m = toSwitch[c][1] /\ Tail(toSwitch[c]) \in Seq(Demands)
      BY <1>1, <1>2, TailOf
<1>4. d \in Dpids
      BY <1>1, <1>2 DEF Local, Ends
<1>5. toCtl' \in [Conns -> Seq(Answers)] /\ Answers1(c, m)
      /\ \A b \in Conns \ {c} : toCtl'[b] = toCtl[b]
      BY <1>1, <1>2, <1>3, RepliesOf
<1>6. toSwitch' \in [Conns -> Seq(Demands)] /\ toSwitch'[c] = Tail(toSwitch[c])
      /\ \A b \in Conns \ {c} : toSwitch'[b] = toSwitch[b]
      BY <1>1, <1>2, <1>3
<1> HIDE DEF m, d
<1>7. /\ flows' \in [Dpids -> SUBSET Conns] /\ flows'[d] \subseteq flows[d] \union {c}
      /\ m.t = "flow_mod_delete" => flows'[d] = {}
      /\ \A e \in Dpids \ {d} : flows'[e] = flows[e]
  <2>1. CASE m.t = "flow_mod"
    <3>1. flows' = [flows EXCEPT ![d] = flows[d] \union {c}]
          BY <1>2, <2>1
    <3> QED BY <1>1, <1>4, <2>1, <3>1
  <2>2. CASE m.t = "flow_mod_delete"
    <3>1. flows' = [flows EXCEPT ![d] = {}]
          BY <1>2, <2>2
    <3> QED BY <1>1, <1>4, <2>2, <3>1
  <2>3. CASE m.t \notin {"flow_mod", "flow_mod_delete"}
    <3>1. flows' = flows
          BY <1>2, <2>3
    <3> QED BY <1>1, <2>3, <3>1
  <2> QED BY <2>1, <2>2, <2>3
<1>8. pending' \in [Conns -> SUBSET Rests] /\ \A b \in Conns \ {c} : pending'[b] = pending[b]
  <2>1. [xid |-> m.xid, type |-> m.type, part |-> 1] \in Rests
        BY <1>3 DEF Demands, Rests
  <2>2. pending' = pending \/ pending' = [pending EXCEPT ![c] = pending[c] \union
                                {[xid |-> m.xid, type |-> m.type, part |-> 1]}]
        BY <1>2
  <2>3. CASE pending' = pending
        BY <1>1, <2>3
  <2>4. CASE pending' = [pending EXCEPT ![c] = pending[c] \union
                                {[xid |-> m.xid, type |-> m.type, part |-> 1]}]
        BY <1>1, <2>1, <2>4
  <2> QED BY <2>2, <2>3, <2>4
<1>9. Types'
      BY <1>1, <1>2, <1>5, <1>6, <1>7, <1>8, PeerTypes
<1>10. Local(c)'
       BY <1>1, <1>2, <1>3, <1>5, <1>6, <1>7, PeerStepLocal DEF d
<1>11. ASSUME NEW b \in Conns \ {c}
       PROVE  Local(b)'
  <2>1. Local(b)
        BY DEF HandInv
  <2>2. peer[b].up => peer[b].dpid \in Dpids \ {d}
    <3>1. peer[b].up => peer[b].dpid # d
          BY <1>2 DEF HandInv, OneUp, d
    <3>2. peer[b].up => peer[b].dpid \in Dpids
          BY <2>1 DEF Local, Ends
    <3> QED BY <3>1, <3>2
  <2> QED BY <1>2, <1>5, <1>6, <1>7, <1>8, <2>1, <2>2, Untouched
<1>12. OneUp'
       BY <1>2 DEF HandInv, OneUp
<1>13. Registry(World)' /\ Heard(World)'
       BY <1>2, NexusKept
<1> QED BY <1>9, <1>10, <1>11, <1>12, <1>13 DEF HandInv

(* A switch says something that does not belong to the handshake. *)
LEMMA SaysHand ==
    ASSUME HandInv, NEW c \in Conns, peer[c].up, NEW m \in Answers,
           m.t \notin {"hello", "features_reply", "barrier_reply"}, ~ Ack(c, m),
           toCtl' = [toCtl EXCEPT ![c] = Append(toCtl[c], m)],
           UNCHANGED <<ctlVars, peer, flows>>, pending' \in [Conns -> SUBSET Rests],
           \A b \in Conns \ {c} : pending'[b] = pending[b], xid' \in Nat
    PROVE  HandInv'
<1>1. /\ Types /\ toCtl \in [Conns -> Seq(Answers)] /\ toSwitch \in [Conns -> Seq(Demands)]
      /\ flows \in [Dpids -> SUBSET Conns] /\ peer \in [Conns -> [dpid : Names, up : BOOLEAN]]
      BY WorldFields DEF HandInv, Types, Worlds
<1>2. UNCHANGED <<con, nexus, toSwitch, told, seen, delivered, peer, flows>>
      BY DEF ctlVars
<1>3. Append(toCtl[c], m) \in Seq(Answers)
      BY <1>1, AppendOf
<1>4. toCtl' \in [Conns -> Seq(Answers)] /\ toCtl'[c] = Append(toCtl[c], m)
      /\ \A b \in Conns \ {c} : toCtl'[b] = toCtl[b]
      BY <1>1, <1>3
<1>5. Types'
      BY <1>1, <1>2, <1>4, PeerTypes
<1>6. ASSUME NEW b \in Conns
      PROVE  Local(b)'
  <2>1. Local(b)
        BY DEF HandInv
  <2>2. CASE b = c
        BY <1>1, <1>2, <1>4, <2>1, <2>2, AsyncLocal
  <2>3. CASE b # c
        BY <1>2, <1>4, <2>1, <2>3, Untouched
  <2> QED BY <2>2, <2>3
<1>7. OneUp'
      BY <1>2 DEF HandInv, OneUp
<1>8. Registry(World)' /\ Heard(World)'
      BY <1>2, NexusKept
<1> QED BY <1>5, <1>6, <1>7, <1>8 DEF HandInv

(* A switch sends a part of a stats reply. *)
LEMMA PeerStatsHand ==
    ASSUME HandInv, NEW c \in Conns, NEW p, PeerStats(c, p)
    PROVE  HandInv'
<1> DEFINE m == [Answer("stats_reply", p.xid, NoDpid) EXCEPT
                   !.type = p.type, !.part = p.part, !.more = p.part < Parts]
           P == (pending[c] \ {p}) \union
                  (IF p.part < Parts THEN {[p EXCEPT !.part = p.part + 1]} ELSE {})
<1>1. /\ pending \in [Conns -> SUBSET Rests] /\ xid \in Nat
      BY DEF HandInv, Types
<1>2. /\ peer[c].up /\ p \in pending[c] /\ UNCHANGED <<ctlVars, peer, flows, xid>>
      /\ toCtl' = [toCtl EXCEPT ![c] = Append(toCtl[c], m)]
      /\ pending' = [pending EXCEPT ![c] = P]
      BY DEF PeerStats
<1>3. p \in Rests /\ p.xid \in Int /\ NoDpid \in Names /\ p.part \in Nat /\ p.type \in StatsNames
      BY <1>1, <1>2 DEF Rests, Names
<1>4. m \in Answers /\ m.t = "stats_reply"
  <2> DEFINE a == Answer("stats_reply", p.xid, NoDpid)
  <2>1. a \in Answers /\ a.t = "stats_reply"
        BY <1>3, AnswerType DEF Said
  <2>2. (p.part < Parts) \in BOOLEAN
        OBVIOUS
  <2> HIDE DEF a
  <2>3. ASSUME NEW h \in BOOLEAN
        PROVE  LET n == [a EXCEPT !.type = p.type, !.part = p.part, !.more = h]
               IN  n \in Answers /\ n.t = "stats_reply"
        BY <1>3, <2>1 DEF Answers
  <2> QED BY <2>2, <2>3 DEF a
<1>5. [p EXCEPT !.part = p.part + 1] \in Rests
      BY <1>3 DEF Rests
<1>6. P \in SUBSET Rests
      BY <1>1, <1>5
<1> HIDE DEF m, P
<1>7. pending' \in [Conns -> SUBSET Rests] /\ \A b \in Conns \ {c} : pending'[b] = pending[b]
      BY <1>1, <1>2, <1>6
<1>8. ~ Ack(c, m) /\ m.t \notin {"hello", "features_reply", "barrier_reply"}
      BY <1>4 DEF Ack
<1> QED BY <1>1, <1>2, <1>4, <1>7, <1>8, SaysHand

(* A switch says something on its own. *)
LEMMA PeerAsyncHand ==
    ASSUME HandInv, NEW c \in Conns, NEW kind \in AsyncKinds, PeerAsync(c, kind)
    PROVE  HandInv'
<1> DEFINE m == Answer(kind, 0, NoDpid)
<1>1. /\ pending \in [Conns -> SUBSET Rests] /\ xid \in Nat
      BY DEF HandInv, Types
<1>2. /\ peer[c].up /\ UNCHANGED <<ctlVars, peer, flows, pending>> /\ xid' = xid + 1
      /\ toCtl' = [toCtl EXCEPT ![c] = Append(toCtl[c], m)]
      BY DEF PeerAsync
<1>3. kind \in Unsolicited
      BY ConnectionAssumption
<1>4. m \in Answers /\ m.t = kind /\ m.xid = 0
  <2>1. kind \in Said
        BY <1>3 DEF Said
  <2>2. NoDpid \in Names /\ 0 \in Int
        BY DEF Names
  <2> QED BY <2>1, <2>2, AnswerType
<1> HIDE DEF m
<1>5. m.t \notin {"hello", "features_reply", "barrier_reply"}
      BY <1>3, <1>4 DEF Unsolicited
<1>6. ~ Ack(c, m)
      BY <1>4, ConnNumber DEF Ack
<1>7. xid' \in Nat /\ pending' = pending
      BY <1>1, <1>2
<1> QED BY <1>1, <1>2, <1>4, <1>5, <1>6, <1>7, SaysHand

(* A switch hangs up. *)
LEMMA HangUpHand ==
    ASSUME HandInv, NEW c \in Conns, PeerHangsUp(c)
    PROVE  HandInv'
<1>1. /\ Types /\ toSwitch \in [Conns -> Seq(Demands)] /\ toCtl \in [Conns -> Seq(Answers)]
      /\ flows \in [Dpids -> SUBSET Conns] /\ peer \in [Conns -> [dpid : Names, up : BOOLEAN]]
      /\ pending \in [Conns -> SUBSET Rests] /\ xid \in Nat
      BY WorldFields DEF HandInv, Types, Worlds
<1>2. /\ peer[c].up /\ peer' = [peer EXCEPT ![c].up = FALSE]
      /\ toSwitch' = [toSwitch EXCEPT ![c] = <<>>] /\ pending' = [pending EXCEPT ![c] = {}]
      /\ UNCHANGED <<con, nexus, told, seen, delivered, toCtl, flows, xid>>
      BY DEF PeerHangsUp
<1>3. /\ toSwitch' \in [Conns -> Seq(Demands)] /\ pending' \in [Conns -> SUBSET Rests]
      /\ peer' \in [Conns -> [dpid : Names, up : BOOLEAN]]
      /\ toSwitch'[c] = <<>> /\ ~ peer'[c].up /\ peer'[c].dpid = peer[c].dpid
      /\ \A b \in Conns \ {c} :
           toSwitch'[b] = toSwitch[b] /\ pending'[b] = pending[b] /\ peer'[b] = peer[b]
  <2>1. <<>> \in Seq(Demands)
        OBVIOUS
  <2>2. toSwitch' \in [Conns -> Seq(Demands)] /\ toSwitch'[c] = <<>>
        /\ \A b \in Conns \ {c} : toSwitch'[b] = toSwitch[b]
        BY <1>1, <1>2, <2>1
  <2>3. pending' \in [Conns -> SUBSET Rests] /\ \A b \in Conns \ {c} : pending'[b] = pending[b]
        BY <1>1, <1>2
  <2>4. /\ peer' \in [Conns -> [dpid : Names, up : BOOLEAN]]
        /\ peer'[c] = [peer[c] EXCEPT !.up = FALSE]
        /\ \A b \in Conns \ {c} : peer'[b] = peer[b]
    <3> DEFINE k == peer[c]
               q == [k EXCEPT !.up = FALSE]
    <3>1. k \in [dpid : Names, up : BOOLEAN]
          BY <1>1
    <3> HIDE DEF k
    <3>2. q \in [dpid : Names, up : BOOLEAN]
          BY <3>1
    <3> HIDE DEF q
    <3>3. peer' = [peer EXCEPT ![c] = q]
          BY <1>1, <1>2 DEF q, k
    <3>4. /\ peer' \in [Conns -> [dpid : Names, up : BOOLEAN]] /\ peer'[c] = q
          /\ \A b \in Conns \ {c} : peer'[b] = peer[b]
          BY <1>1, <3>2, <3>3
    <3> QED BY <3>4 DEF q, k
  <2>5. ~ peer'[c].up /\ peer'[c].dpid = peer[c].dpid
        BY <1>1, <2>4
  <2> QED BY <2>2, <2>3, <2>4, <2>5
<1>4. Types'
      BY <1>1, <1>2, <1>3, PeerTypes
<1>5. ASSUME NEW b \in Conns
      PROVE  Local(b)'
  <2>1. Local(b)
        BY DEF HandInv
  <2>2. CASE b = c
        BY <1>2, <1>3, <2>1, <2>2, HangUpLocal
  <2>3. CASE b # c
        BY <1>2, <1>3, <2>1, <2>3, Untouched
  <2> QED BY <2>2, <2>3
<1>6. OneUp'
      BY <1>3 DEF HandInv, OneUp
<1>7. Registry(World)' /\ Heard(World)'
      BY <1>2, NexusKept
<1> QED BY <1>4, <1>5, <1>6, <1>7 DEF HandInv

(* A connection is accepted. *)
LEMMA AcceptHand ==
    ASSUME HandInv, NEW c \in Conns, NEW d \in Dpids, Accept(c, d)
    PROVE  HandInv'
<1> DEFINE r == [con[c] EXCEPT !.state = "open"]
           m == Answer("hello", 0, NoDpid)
           p == [dpid |-> d, up |-> TRUE]
<1>1. /\ Types /\ World \in Worlds /\ con \in [Conns -> Fields] /\ con[c] \in Fields
      /\ toCtl \in [Conns -> Seq(Answers)] /\ peer \in [Conns -> [dpid : Names, up : BOOLEAN]]
      /\ toSwitch \in [Conns -> Seq(Demands)] /\ flows \in [Dpids -> SUBSET Conns]
      /\ pending \in [Conns -> SUBSET Rests] /\ xid \in Nat
      BY WorldFields DEF HandInv, Types, Worlds
<1>2. /\ con[c].state = "unused" /\ \A b \in Conns : peer[b].dpid = d => ~ peer[b].up
      /\ con' = [con EXCEPT ![c] = r] /\ toCtl' = [toCtl EXCEPT ![c] = <<m>>]
      /\ peer' = [peer EXCEPT ![c] = p]
      /\ UNCHANGED <<nexus, toSwitch, told, seen, delivered, pending, flows, xid>>
      BY DEF Accept
<1>3. r \in Fields /\ r.ofnexus = con[c].ofnexus /\ r.disconnected = con[c].disconnected
      /\ r.dpid = con[c].dpid
  <2> DEFINE k == con[c]
  <2>1. k \in Fields
        BY <1>1
  <2> HIDE DEF k
  <2> QED BY <2>1 DEF Fields, k
<1>4. m \in Answers
      BY AnswerType DEF Said, Names
<1>5. p \in [dpid : Names, up : BOOLEAN] /\ p.dpid = d /\ p.up
      BY DEF Names
<1> HIDE DEF r, m, p
<1>6. /\ con' \in [Conns -> Fields] /\ con'[c] = r
      /\ toCtl' \in [Conns -> Seq(Answers)] /\ toCtl'[c] = <<m>>
      /\ peer' \in [Conns -> [dpid : Names, up : BOOLEAN]] /\ peer'[c] = p
      /\ \A b \in Conns \ {c} : con'[b] = con[b] /\ toCtl'[b] = toCtl[b] /\ peer'[b] = peer[b]
  <2>1. <<m>> \in Seq(Answers)
        BY <1>4
  <2> QED BY <1>1, <1>2, <1>3, <1>5, <2>1
<1>7. World' \in Worlds
      BY <1>1, <1>2, <1>6 DEF World, Worlds
<1>8. Types'
      BY <1>1, <1>2, <1>6, <1>7 DEF Types
<1>9. ASSUME NEW b \in Conns
      PROVE  Local(b)'
  <2>1. Local(b)
        BY DEF HandInv
  <2>2. CASE b = c
        BY <1>2, <1>6, <2>1, <2>2, NewLocal DEF r, m, p
  <2>3. CASE b # c
        BY <1>2, <1>6, <2>1, <2>3, Untouched
  <2> QED BY <2>2, <2>3
<1>10. OneUp'
       BY <1>2, <1>5, <1>6 DEF HandInv, OneUp
<1>11. Registry(World)' /\ Heard(World)'
  <2>1. Known(World, World', c, r)
        BY <1>2, <1>6, <1>7 DEF Known, Others, World
  <2>2. Registry(World) /\ Heard(World) /\ World.con[c] = con[c]
        BY WorldFields DEF HandInv
  <2>3. Registry(World') /\ Heard(World')
        BY <1>1, <1>3, <2>1, <2>2, KnownSound
  <2> QED BY <2>3 DEF Registry, Heard, World
<1> QED BY <1>8, <1>9, <1>10, <1>11 DEF HandInv

(* At the start no connection was accepted. *)
LEMMA InitHand == Init => HandInv
<1> SUFFICES ASSUME Init
             PROVE  HandInv
    OBVIOUS
<1>1. Unused \in Fields /\ Unused.state = "unused" /\ Unused.dpid = NoDpid
      /\ Unused.ofnexus = "dummy" /\ ~ Unused.connect_time /\ Unused.barrier = 0
  <2>1. <<>> \in Seq(Answers)
        OBVIOUS
  <2> QED BY <2>1 DEF Unused, Fields, Names
<1>2. \A c \in Conns : /\ con[c] = Unused /\ toSwitch[c] = <<>> /\ toCtl[c] = <<>>
                       /\ peer[c] = [dpid |-> NoDpid, up |-> FALSE] /\ pending[c] = {}
                       /\ told[c] = <<>>
      BY DEF Init
<1>3. DOMAIN nexus = {} /\ seen = {}
      BY DEF Init
<1>4. Types
  <2>1. nexus \in Tables
    <3>1. nexus \in [{} -> Conns]
          BY DEF Init
    <3> QED BY <3>1, IsTable
  <2>2. World \in Worlds
    <3>1. con \in [Conns -> Fields] /\ seen \in SUBSET Names
          BY <1>1 DEF Init
    <3>2. toSwitch \in [Conns -> Seq(Demands)] /\ told \in [Conns -> Seq(Kinds)]
          BY DEF Init
    <3>3. delivered \in [Conns -> SUBSET Seq(Answers)]
          BY DEF Init
    <3> QED BY <2>1, <3>1, <3>2, <3>3 DEF World, Worlds
  <2>3. /\ toCtl \in [Conns -> Seq(Answers)] /\ peer \in [Conns -> [dpid : Names, up : BOOLEAN]]
        /\ pending \in [Conns -> SUBSET Rests] /\ flows \in [Dpids -> SUBSET Conns] /\ xid \in Nat
        BY DEF Init, Names
  <2> QED BY <2>2, <2>3 DEF Types
<1>5. ASSUME NEW c \in Conns
      PROVE  Local(c)
  <2>1. Ends(c) /\ Listening(c)
        BY <1>1, <1>2 DEF Ends, Listening
  <2>2. Greeting(c) /\ Waiting(c) /\ Clean(c)
        BY <1>1, <1>2 DEF Greeting, Waiting, Clean
  <2> QED BY <2>1, <2>2 DEF Local
<1>6. Registry(World) /\ Heard(World)
      BY <1>1, <1>2, <1>3, WorldFields DEF Registry, Heard
<1>7. OneUp
      BY <1>2 DEF OneUp
<1> QED BY <1>4, <1>5, <1>6, <1>7 DEF HandInv

(* Every step keeps the invariant of the handshake. *)
LEMMA NextHand == HandInv /\ [Next]_vars => HandInv'
<1> SUFFICES ASSUME HandInv, [Next]_vars
             PROVE  HandInv'
    OBVIOUS
<1>1. CASE \E c \in Conns, d \in Dpids : Accept(c, d)
      BY <1>1, AcceptHand
<1>2. CASE \E c \in Conns : Read(c) \/ ReadEnd(c)
      BY <1>2, ReadHand, ReadEndHand
<1>3. CASE \E c \in Conns, r \in Requests : ComponentSend(c, r)
      BY <1>3, ComponentHand
<1>4. CASE \E d \in Dpids, r \in Requests : sendToDPID(d, r)
      BY <1>4, ComponentHand
<1>5. CASE _handle_DownEvent
      BY <1>5, DownHand
<1>6. CASE \E c \in Conns : PeerStep(c) \/ PeerHangsUp(c)
      BY <1>6, PeerStepHand, HangUpHand
<1>7. CASE \E c \in Conns : \E p \in pending[c] : PeerStats(c, p)
      BY <1>7, PeerStatsHand
<1>8. CASE \E c \in Conns, kind \in AsyncKinds : PeerAsync(c, kind)
      BY <1>8, PeerAsyncHand
<1>9. CASE UNCHANGED vars
  <2>1. UNCHANGED <<con, nexus, toSwitch, told, seen, delivered, toCtl, peer, pending,
                    flows, xid>>
        BY <1>9 DEF vars, ctlVars
  <2>2. Types' /\ OneUp'
        BY <2>1 DEF HandInv, Types, World, OneUp
  <2>3. \A c \in Conns : Local(c)'
        BY <2>1, Untouched DEF HandInv
  <2> QED BY <2>1, <2>2, <2>3, NexusKept DEF HandInv
<1> QED BY <1>1, <1>2, <1>3, <1>4, <1>5, <1>6, <1>7, <1>8, <1>9 DEF Next, Step

(* The invariant of the handshake. *)
LEMMA HandAlways == Spec => []HandInv
<1> QED BY InitHand, NextHand, PTL DEF Spec

(* Components hear of a connection only under its dpid, at most once that  *)
(* it is up, and by then the flows of earlier connections are deleted, for *)
(* any connections, datapaths, requests and order of the messages.         *)
THEOREM HandshakeSafety == Spec => []UpOnClean
<1>1. HandInv => UpOnClean
  <2> SUFFICES ASSUME HandInv
               PROVE  UpOnClean
      OBVIOUS
  <2>1. EventsNameDatapath /\ UpOnce
        BY WorldFields DEF HandInv, Heard, EventsNameDatapath, UpOnce
  <2>2. StaleFlowsGone
    <3>1. told \in [Conns -> Seq(Kinds)]
          BY WorldFields DEF HandInv, Types, Worlds
    <3>2. SUFFICES ASSUME NEW c \in Conns, peer[c].up, "ConnectionUp" \in ToSet(told[c])
                   PROVE  flows[peer[c].dpid] \subseteq {c}
          BY DEF StaleFlowsGone
    <3>3. \E i \in 1 .. Len(told[c]) : told[c][i] = "ConnectionUp"
          BY <3>1, <3>2 DEF ToSet
    <3>4. con[c].connect_time
          BY <3>3 DEF HandInv, Local, Listening
    <3> QED BY <3>2, <3>4 DEF HandInv, Local, Clean
  <2> QED BY <2>1, <2>2 DEF UpOnClean
<1> QED BY <1>1, HandAlways, PTL

-----------------------------------------------------------------------------
(* The entries of the nexus. *)

(* A connection with a nexus that was not found lost has its entry, or     *)
(* lost it to another connection.                                          *)
Reachable ==
    \A c \in Conns :
        con[c].ofnexus = "core" /\ ~ con[c].disconnected =>
            \/ con[c].dpid \in DOMAIN nexus /\ nexus[con[c].dpid] = c
            \/ c \in robbed

(* What a step of the controller on the connection c does to the table:    *)
(* nothing, or it enters c, or it deletes the entry of the dpid of c and   *)
(* says so.                                                                *)
Tabled(w, v, c) ==
    /\ \A b \in Conns \ {c} : v.con[b] = w.con[b]
    /\ w.con[c].dpid \in {NoDpid, v.con[c].dpid}
    /\ \/ /\ v.nexus = w.nexus
          /\ v.con[c].ofnexus = "core" /\ ~ v.con[c].disconnected =>
               w.con[c].ofnexus = "core" /\ ~ w.con[c].disconnected
               /\ v.con[c].dpid = w.con[c].dpid
       \/ /\ DOMAIN v.nexus = DOMAIN w.nexus \union {v.con[c].dpid}
          /\ v.nexus[v.con[c].dpid] = c
          /\ \A e \in DOMAIN w.nexus \ {v.con[c].dpid} : v.nexus[e] = w.nexus[e]
       \/ /\ v.con[c].disconnected /\ v.told[c] = Append(w.told[c], "ConnectionDown")
          /\ DOMAIN v.nexus = DOMAIN w.nexus \ {v.con[c].dpid}
          /\ \A e \in DOMAIN v.nexus : v.nexus[e] = w.nexus[e]

(* Raising events and disconnecting. *)
LEMMA QuietTabled ==
    ASSUME NEW w \in Worlds, NEW v, NEW c \in Conns, Quiet(w, v, c), Heard(w)
    PROVE  Tabled(w, v, c)
<1>1. w.con \in [Conns -> Fields]
      BY DEF Worlds
<1>2. /\ \A b \in Conns \ {c} : v.con[b] = w.con[b]
      /\ v.con[c].dpid = w.con[c].dpid /\ v.con[c].ofnexus = w.con[c].ofnexus
      /\ w.con[c].disconnected => v.con[c].disconnected
      /\ v.con = [w.con EXCEPT ![c].disconnected = TRUE] => v.con[c].disconnected
  <2>1. CASE v.con = w.con
        BY <1>1, <2>1 DEF Fields
  <2>2. CASE v.con = [w.con EXCEPT ![c].disconnected = TRUE]
        BY <1>1, <2>2 DEF Fields
  <2> QED BY <2>1, <2>2 DEF Quiet
<1>3. CASE v.nexus = w.nexus
      BY <1>2, <1>3 DEF Tabled
<1>4. CASE v.nexus # w.nexus
  <2>1. /\ v.con[c].disconnected /\ w.con[c].ofnexus = "core"
        /\ w.con[c].dpid # NoDpid => v.told[c] = Append(w.told[c], "ConnectionDown")
        /\ DOMAIN v.nexus = DOMAIN w.nexus \ {w.con[c].dpid}
        /\ \A d \in DOMAIN v.nexus : v.nexus[d] = w.nexus[d]
        BY <1>2, <1>4 DEF Quiet
  <2>2. w.con[c].dpid # NoDpid
        BY <2>1 DEF Heard
  <2> QED BY <1>2, <2>1, <2>2 DEF Tabled
<1> QED BY <1>3, <1>4

(* Changing fields of a connection that do not matter to the nexus. *)
LEMMA KnownTabled ==
    ASSUME NEW w, NEW v, NEW c \in Conns, NEW r, Known(w, v, c, r),
           w.con[c].dpid \in {NoDpid, r.dpid}, r.ofnexus = w.con[c].ofnexus,
           r.disconnected = w.con[c].disconnected,
           r.dpid = w.con[c].dpid \/ r.ofnexus # "core"
    PROVE  Tabled(w, v, c)
BY DEF Known, Others, Tabled

(* Every way of handling a message. *)
LEMMA OutcomeTabled ==
    ASSUME NEW w \in Worlds, NEW v, NEW c \in Conns, NEW m \in Answers, Outcome(w, v, c, m),
           Heard(w),
           m.t = "features_reply" =>
             /\ m.dpid \in Dpids /\ w.con[c].dpid \in {NoDpid, m.dpid}
             /\ w.con[c].connect_time => w.con[c].dpid = m.dpid
             /\ ~ w.con[c].connect_time => w.con[c].ofnexus = "dummy"
    PROVE  Tabled(w, v, c)
<1> DEFINE k == w.con[c]
           d == m.dpid
           r1 == [k EXCEPT !.dpid = d]
           r2 == [k EXCEPT !.dpid = d, !.ofnexus = "core", !.barrier = - c]
           r3 == [k EXCEPT !.barrier = 0, !.connect_time = TRUE]
<1>1. k \in Fields /\ d \in Names
      BY DEF Worlds, Answers
<1> HIDE DEF k, d
<1>2. /\ r1.dpid = d /\ r1.ofnexus = k.ofnexus /\ r1.disconnected = k.disconnected
      /\ r2.dpid = d /\ r2.ofnexus = "core"
      /\ r3.dpid = k.dpid /\ r3.ofnexus = k.ofnexus /\ r3.disconnected = k.disconnected
      BY <1>1 DEF Fields
<1> HIDE DEF r1, r2, r3
<1>3. CASE Quiet(w, v, c)
      BY <1>3, QuietTabled
<1>4. CASE Sent(w, v, c, Append(w.toSwitch[c], Msg("features_request", 0)))
      BY <1>4 DEF Sent, Tabled
<1>5. CASE Finished(w, v, c)
  <2>1. v.con[c] = r3 /\ v.nexus = w.nexus /\ \A b \in Conns \ {c} : v.con[b] = w.con[b]
        BY <1>5 DEF Finished, Others, r3, k
  <2> QED BY <1>2, <2>1 DEF Tabled, k
<1>6. CASE m.t = "features_reply" /\ k.connect_time /\ Again(w, v, c, d)
  <2>1. Registered(w, v, c, r1, d) \/ Known(w, v, c, r1)
        BY <1>6 DEF Again, r1, k
  <2>2. k.dpid = d
        BY <1>6 DEF k, d
  <2>3. CASE Known(w, v, c, r1)
        BY <1>2, <2>2, <2>3, KnownTabled DEF k
  <2>4. CASE Registered(w, v, c, r1, d)
        BY <1>2, <2>2, <2>4 DEF Registered, Others, Tabled, k
  <2> QED BY <2>1, <2>3, <2>4
<1>7. CASE m.t = "features_reply" /\ ~ k.connect_time /\ Refused(w, v, c, d)
  <2>1. PICK u \in Worlds : Known(w, u, c, r1) /\ Lost(u, v, c)
        BY <1>7 DEF Refused, r1, k
  <2>2. k.ofnexus = "dummy" /\ k.dpid \in {NoDpid, d}
        BY <1>7 DEF k, d
  <2>3. u.con[c] = r1 /\ u.con \in [Conns -> Fields] /\ u.nexus = w.nexus
        /\ \A b \in Conns \ {c} : u.con[b] = w.con[b]
        BY <2>1 DEF Known, Others, Worlds
  <2>4. v.con = [u.con EXCEPT ![c].disconnected = TRUE] /\ v.nexus = u.nexus
        BY <1>2, <2>1, <2>2, <2>3 DEF Lost
  <2>5. v.con[c].disconnected /\ v.con[c].dpid = d
        /\ \A b \in Conns \ {c} : v.con[b] = w.con[b]
        BY <1>2, <2>3, <2>4 DEF Fields
  <2> QED BY <2>2, <2>3, <2>4, <2>5 DEF Tabled, k
<1>8. CASE m.t = "features_reply" /\ ~ k.connect_time /\ Accepted(w, v, c, d)
  <2>1. PICK u \in Worlds :
          /\ Registered(w, u, c, r2, d)
          /\ \/ v = u \/ Lost(u, v, c)
             \/ Sent(u, v, c, Append(Append(w.toSwitch[c], Msg("flow_mod_delete", 0)),
                                     Msg("barrier_request", - c)))
        BY <1>8 DEF Accepted, r2, k
  <2>2. k.dpid \in {NoDpid, d} /\ d \in Dpids /\ d # NoDpid
        BY <1>8, ConnectionAssumption DEF k, d
  <2>3. /\ u.con[c] = r2 /\ u.con \in [Conns -> Fields] /\ u.told = w.told
        /\ DOMAIN u.nexus = DOMAIN w.nexus \union {d} /\ u.nexus[d] = c
        /\ \A e \in DOMAIN w.nexus \ {d} : u.nexus[e] = w.nexus[e]
        /\ \A b \in Conns \ {c} : u.con[b] = w.con[b]
        BY <2>1 DEF Registered, Others, Worlds
  <2>4. CASE v.con = u.con /\ v.nexus = u.nexus
        BY <1>2, <2>2, <2>3, <2>4 DEF Tabled, k
  <2>5. CASE Lost(u, v, c)
    <3>1. v.con = [u.con EXCEPT ![c].disconnected = TRUE]
          /\ v.told[c] = Append(w.told[c], "ConnectionDown")
          /\ DOMAIN v.nexus = DOMAIN u.nexus \ {d} /\ \A e \in DOMAIN v.nexus : v.nexus[e] = u.nexus[e]
          BY <1>2, <2>2, <2>3, <2>5 DEF Lost
    <3>2. v.con[c].disconnected /\ v.con[c].dpid = d
          /\ \A b \in Conns \ {c} : v.con[b] = w.con[b]
          BY <1>2, <2>3, <3>1 DEF Fields
    <3>3. DOMAIN v.nexus = DOMAIN w.nexus \ {d} /\ \A e \in DOMAIN v.nexus : v.nexus[e] = w.nexus[e]
          BY <2>3, <3>1
    <3> QED BY <2>2, <3>1, <3>2, <3>3 DEF Tabled, k
  <2> QED BY <2>1, <2>4, <2>5 DEF Sent
<1>9. CASE m.t = "stats_reply" /\ Filed(w, v, c, m)
  <2> DEFINE u == [w EXCEPT !.delivered = v.delivered]
             rest == v.con[c].previous_stats
             r == [k EXCEPT !.previous_stats = rest]
  <2>1. Known(u, v, c, r)
        BY <1>9 DEF Filed, k
  <2>2. u.con = w.con /\ u.nexus = w.nexus
        BY DEF Worlds
  <2>3. r.dpid = k.dpid /\ r.ofnexus = k.ofnexus /\ r.disconnected = k.disconnected
        BY <1>1 DEF Fields
  <2> HIDE DEF u, r
  <2> QED BY <2>1, <2>2, <2>3 DEF Known, Others, Tabled, k
<1> QED BY <1>3, <1>4, <1>5, <1>6, <1>7, <1>8, <1>9 DEF Outcome, k, d

(* A connection loses its entry only to another one of its datapath, and   *)
(* in the step that components are told of, or that gives it the entry.    *)
LEMMA TabledReachable ==
    ASSUME HandInv, HandInv', Reachable, Robs, NEW c \in Conns, NEW v \in Worlds, Becomes(v),
           Tabled(World, v, c)
    PROVE  Reachable'
<1>1. /\ con' = v.con /\ nexus' = v.nexus /\ told' = v.told
      BY DEF Becomes
<1>2. /\ nexus \in Tables /\ nexus' \in Tables /\ con \in [Conns -> Fields]
      /\ con' \in [Conns -> Fields]
  <2>1. World' \in Worlds
        BY BecomesWorld
  <2> QED BY <1>1, <2>1, WorldFields DEF HandInv, Types, Worlds
<1>3. \A d \in DOMAIN nexus : nexus[d] \in Conns /\ con[nexus[d]].dpid = d /\ d \in Dpids
      BY <1>2, TableHas, WorldFields DEF HandInv, Registry
<1>4. \A d \in DOMAIN nexus' : con'[nexus'[d]].dpid = d
      BY DEF HandInv, Registry, World
<1>5. /\ \A b \in Conns \ {c} : con'[b] = con[b]
      /\ con[c].dpid \in {NoDpid, con'[c].dpid}
      BY <1>1, WorldFields DEF Tabled
<1>6. \/ /\ nexus' = nexus
         /\ con'[c].ofnexus = "core" /\ ~ con'[c].disconnected =>
              con[c].ofnexus = "core" /\ ~ con[c].disconnected /\ con'[c].dpid = con[c].dpid
      \/ /\ DOMAIN nexus' = DOMAIN nexus \union {con'[c].dpid} /\ nexus'[con'[c].dpid] = c
         /\ \A e \in DOMAIN nexus \ {con'[c].dpid} : nexus'[e] = nexus[e]
      \/ /\ con'[c].disconnected /\ told'[c] = Append(told[c], "ConnectionDown")
         /\ DOMAIN nexus' = DOMAIN nexus \ {con'[c].dpid}
         /\ \A e \in DOMAIN nexus' : nexus'[e] = nexus[e]
      BY <1>1, WorldFields DEF Tabled
<1>7. ASSUME NEW b \in Conns, b \in Range(nexus')
      PROVE  con'[b].dpid \in DOMAIN nexus' /\ nexus'[con'[b].dpid] = b
  <2>1. PICK d \in DOMAIN nexus' : nexus'[d] = b
        BY <1>7 DEF Range
  <2> QED BY <1>4, <2>1
<1>8. ASSUME NEW b \in Conns, b \in robbed, b \notin Range(nexus')
      PROVE  b \in robbed'
      BY <1>8 DEF Robs
<1>9. ASSUME NEW b \in Conns, con'[b].ofnexus = "core", ~ con'[b].disconnected,
             b \notin Range(nexus')
      PROVE  b \in robbed'
  <2>1. CASE b \in robbed
        BY <1>8, <1>9, <2>1
  <2>2. CASE b \notin robbed
    <3>1. con[b].ofnexus = "core" /\ ~ con[b].disconnected
      <4>1. CASE b # c
            BY <1>5, <1>9, <4>1
      <4>2. CASE b = c
        <5>1. con'[c].dpid \in DOMAIN nexus' /\ nexus'[con'[c].dpid] = c => c \in Range(nexus')
              BY DEF Range
        <5> QED BY <1>6, <1>9, <4>2, <5>1
      <4> QED BY <4>1, <4>2
    <3>2. con[b].dpid \in DOMAIN nexus /\ nexus[con[b].dpid] = b /\ b \in Range(nexus)
          BY <2>2, <3>1 DEF Reachable, Range
    <3>3. \A e \in DOMAIN nexus' : nexus'[e] # b
          BY <1>9 DEF Range
    <3>4. b # c /\ con'[c].dpid = con[b].dpid /\ con'[b] = con[b]
      <4>1. con[b].dpid # con'[c].dpid => nexus' = nexus
            BY <1>6, <3>2, <3>3
      <4>2. nexus' # nexus
            BY <3>2, <3>3
      <4>3. b # c
        <5>1. b = c => con'[c].dpid = con[c].dpid
              BY <1>3, <1>5, <3>2, ConnectionAssumption
        <5> QED BY <1>6, <1>9, <3>2, <3>3, <4>2, <5>1
      <4> QED BY <1>5, <4>1, <4>2, <4>3
    <3>5. Interferes(c)
      <4>1. CASE told'[c] = Append(told[c], "ConnectionDown")
            BY <4>1 DEF Interferes
      <4>2. CASE con'[c].dpid \in DOMAIN nexus' /\ nexus'[con'[c].dpid] = c
        <5>1. c \in Range(nexus')
              BY <4>2 DEF Range
        <5>2. ASSUME NEW e \in DOMAIN nexus, nexus[e] = c
              PROVE  FALSE
          <6>1. con[c].dpid = e /\ e \in Dpids
                BY <1>3, <5>2
          <6>2. e = con[b].dpid
                BY <1>5, <3>4, <6>1, ConnectionAssumption
          <6> QED BY <3>2, <3>4, <5>2, <6>2
        <5>3. c \notin Range(nexus)
              BY <5>2 DEF Range
        <5> QED BY <5>1, <5>3 DEF Interferes
      <4>3. nexus' # nexus
            BY <3>2, <3>3
      <4> QED BY <1>6, <4>1, <4>2, <4>3
    <3> QED BY <1>9, <3>2, <3>4, <3>5 DEF Robs
  <2> QED BY <2>1, <2>2
<1>10. ASSUME NEW b \in Conns, con'[b].ofnexus = "core", ~ con'[b].disconnected
       PROVE  \/ con'[b].dpid \in DOMAIN nexus' /\ nexus'[con'[b].dpid] = b
              \/ b \in robbed'
       BY <1>7, <1>9, <1>10
<1> QED BY <1>10 DEF Reachable

(* Where the connections and the table stay as they are. *)
LEMMA SameReachable ==
    ASSUME HandInv', Reachable, Robs, UNCHANGED <<con, nexus>>
    PROVE  Reachable'
<1>1. ASSUME NEW b \in Conns, con'[b].ofnexus = "core", ~ con'[b].disconnected
      PROVE  \/ con'[b].dpid \in DOMAIN nexus' /\ nexus'[con'[b].dpid] = b
             \/ b \in robbed'
  <2>1. CASE b \in Range(nexus')
    <3>1. PICK d \in DOMAIN nexus' : nexus'[d] = b
          BY <2>1 DEF Range
    <3> QED BY <3>1 DEF HandInv, Registry, World
  <2>2. CASE b \notin Range(nexus')
    <3>1. ~ (con'[b].dpid \in DOMAIN nexus' /\ nexus'[con'[b].dpid] = b)
          BY <2>2 DEF Range
    <3>2. b \in robbed
          BY <1>1, <3>1 DEF Reachable
    <3> QED BY <2>2, <3>2 DEF Robs
  <2> QED BY <2>1, <2>2
<1> QED BY <1>1 DEF Reachable

(* Reading a message, and closing a connection. *)
LEMMA ReadReachable ==
    ASSUME HandInv, HandInv', Reachable, Robs, NEW c \in Conns, Read(c) \/ ReadEnd(c)
    PROVE  Reachable'
<1> DEFINE m == Head(toCtl[c])
           k == con[c]
<1>1. World \in Worlds /\ k \in Fields /\ Local(c) /\ Heard(World)
      BY WorldFields DEF HandInv, Types, Worlds
<1>2. k.state = "open"
      BY DEF Read, ReadEnd
<1>3. CASE Becomes(close(World, c))
  <2> DEFINE r == [k EXCEPT !.state = "closed"]
             v == close(World, c)
  <2>1. v = [World EXCEPT !.con = [World.con EXCEPT ![c] = r]]
        BY WorldFields DEF close
  <2>2. r \in Fields /\ r.disconnected = k.disconnected /\ r.dpid = k.dpid
        /\ r.ofnexus = k.ofnexus
    <3> HIDE DEF k
    <3> QED BY <1>1 DEF Fields
  <2> HIDE DEF r
  <2>3. Known(World, v, c, r)
        BY <1>1, <2>1, <2>2, FieldsChange
  <2>4. v \in Worlds /\ Becomes(v)
        BY <1>3, <2>3 DEF Known
  <2> HIDE DEF v
  <2>5. Tabled(World, v, c)
        BY <2>2, <2>3, KnownTabled, WorldFields
  <2> QED BY <2>4, <2>5, TabledReachable
<1>4. CASE Read(c) /\ ~ Becomes(close(World, c))
  <2>1. toCtl[c] # <<>> /\ \E v \in Handled(World, c, m) : Becomes(v)
        BY <1>4 DEF Read
  <2>2. PICK v \in Handled(World, c, m) : Becomes(v)
        BY <2>1
  <2>3. /\ m \in Answers
        /\ m.t = "features_reply" => m.dpid = peer[c].dpid /\ m.dpid \in Dpids
        /\ m.t = "barrier_reply" /\ k.barrier # 0 => m.xid = k.barrier
        /\ m.t = "features_reply" => k.barrier = 0
        BY <1>2, <2>1, FirstMessage
  <2>4. Outcome(World, v, c, m)
        BY <1>1, <1>2, <2>2, <2>3, HandledOutcome, WorldFields
  <2> HIDE DEF m
  <2>5. m.t = "features_reply" =>
          /\ m.dpid \in Dpids /\ k.dpid \in {NoDpid, m.dpid}
          /\ k.connect_time => k.dpid = m.dpid
          /\ ~ k.connect_time => k.ofnexus = "dummy"
        BY <1>1, <1>2, <2>3 DEF Local, Ends, Listening, Greeting
  <2>6. Tabled(World, v, c)
        BY <1>1, <2>3, <2>4, <2>5, OutcomeTabled, WorldFields
  <2>7. v \in Worlds
        BY <1>1, <2>4, OutcomeWorlds
  <2> QED BY <2>2, <2>6, <2>7, TabledReachable
<1>5. ReadEnd(c) => Becomes(close(World, c))
      BY DEF ReadEnd
<1> QED BY <1>3, <1>4, <1>5

(* Sending, on a connection or by dpid. *)
LEMMA SendReachable ==
    ASSUME HandInv, HandInv', Reachable, Robs, NEW r \in Requests,
           (\E c \in Conns : ComponentSend(c, r)) \/ (\E d \in Dpids : sendToDPID(d, r))
    PROVE  Reachable'
<1>1. World \in Worlds /\ nexus \in Tables /\ xid \in Nat /\ Heard(World)
      BY WorldFields DEF HandInv, Types, Worlds
<1>2. ASSUME NEW c \in Conns, \E w \in send(World, c, [r EXCEPT !.xid = xid]) : Becomes(w)
      PROVE  Reachable'
  <2>1. [r EXCEPT !.xid = xid] \in Demands
        BY <1>1, <1>2, RequestType
  <2>2. PICK v \in send(World, c, [r EXCEPT !.xid = xid]) : Becomes(v)
        BY <1>2
  <2>3. v \in Worlds /\ (Quiet(World, v, c) \/ \E q : Sent(World, v, c, q))
        BY <1>1, <2>1, SendOutcome, QuietSteps
  <2>4. CASE Quiet(World, v, c)
        BY <1>1, <2>2, <2>3, <2>4, QuietTabled, TabledReachable
  <2>5. CASE \E q : Sent(World, v, c, q)
    <3>1. con' = con /\ nexus' = nexus
          BY <2>2, <2>5, WorldFields DEF Sent, Becomes
    <3> QED BY <3>1, SameReachable
  <2> QED BY <2>3, <2>4, <2>5
<1>3. ASSUME NEW d \in Dpids, sendToDPID(d, r)
      PROVE  nexus[d] \in Conns
      BY <1>1, <1>3, TableHas DEF sendToDPID
<1> QED BY <1>2, <1>3 DEF ComponentSend, sendToDPID

(* The controller goes down: every connection with an entry is lost. *)
LEMMA DownReachable ==
    ASSUME HandInv, HandInv', Reachable, Robs, _handle_DownEvent
    PROVE  Reachable'
<1> DEFINE all == Range(nexus)
           one(c) == disconnect(World, c)
<1>1. World \in Worlds /\ con \in [Conns -> Fields] /\ nexus \in Tables /\ nexus' \in Tables
  <2>1. World' \in Worlds
        BY DEF HandInv, Types
  <2> QED BY <2>1, WorldFields DEF HandInv, Types, Worlds, World
<1>2. /\ con' = [c \in Conns |-> IF c \in all THEN one(c).con[c] ELSE con[c]]
      /\ \A d \in DOMAIN nexus' : d \in DOMAIN nexus /\ nexus'[d] = nexus[d]
      BY DEF _handle_DownEvent
<1>3. \A c \in Conns : one(c).con[c].disconnected
  <2>1. \A c \in Conns : Lost(World, one(c), c)
        BY <1>1, DisconnectLoses
  <2> HIDE DEF one
  <2>2. ASSUME NEW c \in Conns
        PROVE  one(c).con[c].disconnected
    <3>1. one(c).con = [con EXCEPT ![c].disconnected = TRUE]
          BY <2>1, WorldFields DEF Lost
    <3>2. con[c] \in Fields /\ one(c).con[c] = [con[c] EXCEPT !.disconnected = TRUE]
          BY <1>1, <3>1
    <3> QED BY <3>2 DEF Fields
  <2> QED BY <2>2
<1> HIDE DEF one
<1>4. ASSUME NEW b \in Conns, con'[b].ofnexus = "core", ~ con'[b].disconnected
      PROVE  b \in robbed'
  <2>1. b \notin all /\ con'[b] = con[b]
        BY <1>2, <1>3, <1>4
  <2>2. ~ (con[b].dpid \in DOMAIN nexus /\ nexus[con[b].dpid] = b)
        BY <2>1 DEF Range
  <2>3. b \in robbed
        BY <1>4, <2>1, <2>2 DEF Reachable
  <2>4. b \notin Range(nexus')
        BY <1>2, <2>1 DEF Range
  <2> QED BY <2>3, <2>4 DEF Robs
<1> QED BY <1>4 DEF Reachable

(* Every step keeps the connections reachable. *)
LEMMA NextReachable == HandInv /\ HandInv' /\ Reachable /\ [Next]_vars => Reachable'
<1> SUFFICES ASSUME HandInv, HandInv', Reachable, [Next]_vars
             PROVE  Reachable'
    OBVIOUS
<1>1. CASE Robs /\ \E c \in Conns, d \in Dpids : Accept(c, d)
  <2>1. PICK c \in Conns, d \in Dpids : Accept(c, d)
        BY <1>1
  <2> DEFINE r == [con[c] EXCEPT !.state = "open"]
             v == [World EXCEPT !.con = [World.con EXCEPT ![c] = r]]
  <2>2. con[c] \in Fields /\ World \in Worlds
        BY WorldFields DEF HandInv, Types, Worlds
  <2>3. r \in Fields /\ r.ofnexus = con[c].ofnexus /\ r.disconnected = con[c].disconnected
        /\ r.dpid = con[c].dpid
    <3> DEFINE k == con[c]
    <3>1. k \in Fields
          BY <2>2
    <3> HIDE DEF k
    <3> QED BY <3>1 DEF Fields, k
  <2>4. con' = [con EXCEPT ![c] = r] /\ UNCHANGED <<nexus, toSwitch, told, seen, delivered>>
        BY <2>1 DEF Accept
  <2> HIDE DEF r
  <2>5. Known(World, v, c, r)
        BY <2>2, <2>3, FieldsChange
  <2>6. Becomes(v)
        BY <2>4, WorldFields DEF Becomes, World
  <2>7. v \in Worlds
        BY <2>5 DEF Known
  <2> HIDE DEF v
  <2>8. Tabled(World, v, c)
        BY <2>3, <2>5, KnownTabled, WorldFields
  <2> QED BY <1>1, <2>6, <2>7, <2>8, TabledReachable
<1>2. CASE Robs /\ \E c \in Conns : Read(c) \/ ReadEnd(c)
      BY <1>2, ReadReachable
<1>3. CASE Robs /\ \E c \in Conns, r \in Requests : ComponentSend(c, r)
      BY <1>3, SendReachable
<1>4. CASE Robs /\ \E d \in Dpids, r \in Requests : sendToDPID(d, r)
      BY <1>4, SendReachable
<1>5. CASE Robs /\ _handle_DownEvent
      BY <1>5, DownReachable
<1>6. CASE Robs /\ UNCHANGED <<con, nexus>>
      BY <1>6, SameReachable
<1>7. CASE UNCHANGED vars
  <2>1. UNCHANGED <<con, nexus, robbed>>
        BY <1>7 DEF vars, ctlVars
  <2> QED BY <2>1 DEF Reachable
<1>8. \A c \in Conns : PeerStep(c) \/ PeerHangsUp(c) => UNCHANGED <<con, nexus>>
      BY DEF PeerStep, PeerHangsUp
<1>9. \A c \in Conns : \A p \in pending[c] : PeerStats(c, p) => UNCHANGED <<con, nexus>>
      BY DEF PeerStats, ctlVars
<1>10. \A c \in Conns, kind \in AsyncKinds : PeerAsync(c, kind) => UNCHANGED <<con, nexus>>
       BY DEF PeerAsync, ctlVars
<1> QED BY <1>1, <1>2, <1>3, <1>4, <1>5, <1>6, <1>7, <1>8, <1>9, <1>10 DEF Next, Step

(* A connection that is up and not found lost is found by its dpid, unless *)
(* since it was registered another connection of its datapath was entered  *)
(* in its place, or was found lost and took the entry along; the table of  *)
(* the nexus has no other entries.                                         *)
THEOREM RegistrySafety == Spec => []LiveRegistered
<1>1. HandInv /\ Reachable => LiveRegistered
  <2> SUFFICES ASSUME HandInv, Reachable
               PROVE  LiveRegistered
      OBVIOUS
  <2>1. con \in [Conns -> Fields] /\ nexus \in Tables
        BY WorldFields DEF HandInv, Types, Worlds
  <2>2. TypeOK
    <3>1. \A c \in Conns : /\ con[c].state \in {"unused", "open", "closed"}
                           /\ con[c].dpid \in Dpids \union {NoDpid}
                           /\ con[c].ofnexus \in {"dummy", "core"}
          BY <2>1 DEF Fields, Names
    <3>2. DOMAIN nexus \subseteq Dpids /\ Range(nexus) \subseteq Conns
          BY <2>1, TableHas DEF Range
    <3> QED BY <3>1, <3>2 DEF TypeOK
  <2>3. \A c \in Conns : con[c].connect_time => con[c].ofnexus = "core"
        BY DEF HandInv, Local, Listening
  <2> QED BY <2>2, <2>3 DEF LiveRegistered, Reachable
<1>2. Init => Reachable
      BY DEF Init, Reachable, Unused
<1> QED BY <1>1, <1>2, InitHand, NextHand, NextReachable, PTL DEF Spec


-----------------------------------------------------------------------------
(* The statistics. *)

(* The xids in the queues are numbers. *)
LEMMA Numbers ==
    ASSUME NEW Q \in Seq(Demands), NEW T \in Seq(Answers)
    PROVE  /\ \A i \in 1 .. Len(Q) : Q[i] \in Demands /\ Q[i].xid \in Int
           /\ \A i \in 1 .. Len(T) :
                /\ T[i] \in Answers /\ T[i].xid \in Int /\ T[i].part \in Nat
                /\ T[i].more \in BOOLEAN
<1>1. \A i \in 1 .. Len(Q) : Q[i] \in Demands
      OBVIOUS
<1>2. \A i \in 1 .. Len(T) : T[i] \in Answers
      OBVIOUS
<1>3. \A m \in Demands : m.xid \in Int
      BY DEF Demands
<1>4. \A m \in Answers : m.xid \in Int /\ m.part \in Nat /\ m.more \in BOOLEAN
      BY DEF Answers
<1> QED BY <1>1, <1>2, <1>3, <1>4

(* A later next xid. *)
LEMMA TidyLater ==
    ASSUME NEW S \in Seq(Answers), NEW Q, NEW P \in SUBSET Rests, NEW T \in Seq(Answers), NEW M,
           NEW x \in Nat, NEW y \in Nat, x <= y, Q \in Seq(Demands), Tidy(S, Q, P, T, M, x)
    PROVE  Tidy(S, Q, P, T, M, y)
<1>1. \A i \in 1 .. Len(Q) : Q[i].xid \in Int
      BY Numbers
<1>2. \A p \in P : p.xid \in Int
      BY DEF Rests
<1>3. \A i \in 1 .. Len(T) : T[i].xid \in Int
      BY Numbers
<1>4. \A i \in 1 .. Len(S) : S[i].xid \in Int
      BY Numbers
<1>5. Collected(S, y)
      BY <1>4 DEF Tidy, Collected
<1>6. Asked(Q, P, T, S, y)
      BY <1>1 DEF Tidy, Asked
<1>7. Unfinished(P, T, S, M, y)
      BY <1>2 DEF Tidy, Unfinished
<1>8. Unread(T, S, M, y)
      BY <1>3 DEF Tidy, Unread
<1> QED BY <1>5, <1>6, <1>7, <1>8 DEF Tidy

(* A message to the switch that asks for no statistics. *)
LEMMA TidyPush ==
    ASSUME NEW S, NEW Q \in Seq(Demands), NEW P, NEW T, NEW M, NEW x, NEW m \in Demands,
           m.t # "stats_request", Tidy(S, Q, P, T, M, x)
    PROVE  Tidy(S, Append(Q, m), P, T, M, x)
<1> DEFINE R == Append(Q, m)
<1>1. /\ Len(Q) \in Nat /\ Len(R) = Len(Q) + 1 /\ R[Len(Q) + 1] = m
      /\ \A i \in 1 .. Len(Q) : R[i] = Q[i]
      BY AppendOf
<1> HIDE DEF R
<1>2. \A i \in 1 .. Len(R) : R[i].t = "stats_request" => i \in 1 .. Len(Q)
      BY <1>1
<1>3. Asked(R, P, T, S, x)
      BY <1>1, <1>2 DEF Tidy, Asked
<1> QED BY <1>3 DEF Tidy, R

(* A request for statistics, with the next xid. *)
LEMMA TidyAsk ==
    ASSUME NEW S \in Seq(Answers), NEW Q \in Seq(Demands), NEW P \in SUBSET Rests,
           NEW T \in Seq(Answers), NEW M,
           NEW x \in Nat, NEW m \in Demands, m.xid = x, Tidy(S, Q, P, T, M, x)
    PROVE  Tidy(S, Append(Q, m), P, T, M, x + 1)
<1> DEFINE R == Append(Q, m)
<1>1. /\ Len(Q) \in Nat /\ Len(R) = Len(Q) + 1 /\ R[Len(Q) + 1] = m
      /\ \A i \in 1 .. Len(Q) : R[i] = Q[i]
      BY AppendOf
<1> HIDE DEF R
<1>2. \A i \in 1 .. Len(R) : i \in 1 .. Len(Q) \/ i = Len(Q) + 1
      BY <1>1
<1>3. \A i \in 1 .. Len(Q) : Q[i].t = "stats_request" => Q[i].xid < x /\ Q[i].xid # x
  <2>1. \A i \in 1 .. Len(Q) : Q[i].xid \in Int
        BY Numbers
  <2> QED BY <2>1 DEF Tidy, Asked
<1>4. \A p \in P : p.xid # x
  <2>1. \A p \in P : p.xid \in Int
        BY DEF Rests
  <2> QED BY <2>1 DEF Tidy, Unfinished
<1>5. \A j \in 1 .. Len(T) : ~ IsPart(T[j], x)
  <2>1. \A j \in 1 .. Len(T) : T[j].xid \in Int
        BY Numbers
  <2> QED BY <2>1 DEF Tidy, Unread, IsPart
<1>6. x < x + 1 /\ x <= x + 1
      OBVIOUS
<1>7. Tidy(S, Q, P, T, M, x + 1)
      BY <1>6, TidyLater
<1>8. Foreign(S, x)
  <2>1. \A j \in 1 .. Len(S) : S[j].xid \in Int
        BY Numbers
  <2>2. S # <<>> => 1 \in 1 .. Len(S)
        OBVIOUS
  <2> QED BY <2>1, <2>2 DEF Tidy, Collected, Foreign
<1>9. ASSUME NEW i \in 1 .. Len(R), R[i].t = "stats_request"
      PROVE  /\ R[i].xid < x + 1 /\ Foreign(S, R[i].xid)
             /\ \A j \in 1 .. Len(R) :
                  R[j].t = "stats_request" /\ R[j].xid = R[i].xid => i = j
             /\ \A p \in P : p.xid # R[i].xid
             /\ \A j \in 1 .. Len(T) : ~ IsPart(T[j], R[i].xid)
  <2>1. CASE i = Len(Q) + 1
    <3>1. R[i].xid = x
          BY <1>1, <2>1
    <3>2. \A j \in 1 .. Len(R) : R[j].t = "stats_request" /\ R[j].xid = x => i = j
          BY <1>1, <1>2, <1>3, <2>1
    <3> QED BY <1>4, <1>5, <1>6, <1>8, <3>1, <3>2
  <2>2. CASE i \in 1 .. Len(Q)
    <3>1. R[i] = Q[i] /\ Q[i].xid # x
          BY <1>1, <1>3, <1>9, <2>2
    <3>2. /\ Q[i].xid < x + 1 /\ Foreign(S, Q[i].xid)
          /\ \A j \in 1 .. Len(Q) : Q[j].t = "stats_request" /\ Q[j].xid = Q[i].xid => i = j
          /\ \A p \in P : p.xid # Q[i].xid
          /\ \A j \in 1 .. Len(T) : ~ IsPart(T[j], Q[i].xid)
          BY <1>7, <1>9, <2>2, <3>1 DEF Tidy, Asked
    <3>3. \A j \in 1 .. Len(R) :
            R[j].t = "stats_request" /\ R[j].xid = R[i].xid => i = j
          BY <1>1, <1>2, <3>1, <3>2
    <3> QED BY <3>1, <3>2, <3>3
  <2> QED BY <1>2, <2>1, <2>2
<1>10. Asked(R, P, T, S, x + 1)
       BY <1>9 DEF Asked
<1> QED BY <1>7, <1>10 DEF Tidy, R

(* The switch hangs up, or a new one is there. *)
LEMMA TidyGone ==
    ASSUME NEW S, NEW Q, NEW P, NEW T, NEW M, NEW x, Tidy(S, Q, P, T, M, x)
    PROVE  Tidy(S, <<>>, {}, T, M, x)
<1>1. Asked(<<>>, {}, T, S, x) /\ Unfinished({}, T, S, M, x)
      BY DEF Asked, Unfinished
<1> QED BY <1>1 DEF Tidy

(* A message is read that belongs to no statistics. *)
LEMMA TidySkip ==
    ASSUME NEW S, NEW Q, NEW P, NEW T \in Seq(Answers), NEW M, NEW x, T # <<>>,
           T[1].t # "stats_reply", Tidy(S, Q, P, T, M, x)
    PROVE  Tidy(S, Q, P, Tail(T), M, x)
<1> DEFINE U == Tail(T)
<1>1. /\ Len(T) \in Nat \ {0} /\ Len(U) = Len(T) - 1
      /\ \A i \in 1 .. Len(U) : i + 1 \in 1 .. Len(T) /\ U[i] = T[i + 1]
      /\ \A i \in 2 .. Len(T) : i - 1 \in 1 .. Len(U) /\ U[i - 1] = T[i]
      BY TailOf
<1> HIDE DEF U
<1>2. Asked(Q, P, U, S, x)
      BY <1>1 DEF Tidy, Asked
<1>3. ASSUME NEW y, NEW z, NEW n, NEW i \in 0 .. Len(U), Due(T, S, M, y, z, n, i + 1)
      PROVE  Due(U, S, M, y, z, n, i)
  <2>1. SUFFICES ASSUME Follows(T, S, y, z, n, i + 1)
                 PROVE  Follows(U, S, y, z, n, i)
        BY <1>3 DEF Due
  <2>2. \A k \in 1 .. i : k + 1 \in 1 .. i + 1 /\ U[k] = T[k + 1]
        BY <1>1
  <2>3. CASE n = 1 /\ Foreign(S, y) /\ \A j \in 1 .. i + 1 : ~ IsPart(T[j], y)
        BY <2>2, <2>3 DEF Follows
  <2>4. CASE n > 1 /\ \E j \in 1 .. i + 1 :
               /\ IsPart(T[j], y) /\ T[j].type = z /\ T[j].part = n - 1
               /\ \A k \in j + 1 .. i + 1 : T[k].t # "stats_reply"
    <3>1. PICK j \in 1 .. i + 1 : /\ IsPart(T[j], y) /\ T[j].type = z /\ T[j].part = n - 1
                                  /\ \A k \in j + 1 .. i + 1 : T[k].t # "stats_reply"
          BY <2>4
    <3>2. j \in 2 .. Len(T) /\ j - 1 \in 1 .. i
          BY <1>1, <3>1 DEF IsPart
    <3>3. U[j - 1] = T[j]
          BY <1>1, <3>2
    <3>4. \A k \in (j - 1) + 1 .. i : k + 1 \in j + 1 .. i + 1 /\ k \in 1 .. i
          BY <3>2
    <3>5. \A k \in (j - 1) + 1 .. i : U[k].t # "stats_reply"
          BY <2>2, <3>1, <3>4
    <3> QED BY <2>4, <3>1, <3>2, <3>3, <3>5 DEF Follows
  <2>5. CASE n > 1 /\ At(S, y, z, n) /\ \A k \in 1 .. i + 1 : T[k].t # "stats_reply"
        BY <2>2, <2>5 DEF Follows
  <2> QED BY <2>1, <2>3, <2>4, <2>5 DEF Follows
<1>4. Len(U) \in 0 .. Len(U) /\ Len(U) + 1 = Len(T)
      BY <1>1
<1>5. Unfinished(P, U, S, M, x)
      BY <1>1, <1>3, <1>4 DEF Tidy, Unfinished
<1>6. ASSUME NEW i \in 1 .. Len(U), U[i].t = "stats_reply"
      PROVE  /\ U[i].xid < x
             /\ ~ U[i].more => U[i].part = Parts
             /\ Due(U, S, M, U[i].xid, U[i].type, U[i].part, i - 1)
             /\ \A j \in i + 1 .. Len(U) : IsPart(U[j], U[i].xid) => U[i].more
  <2>1. i + 1 \in 1 .. Len(T) /\ U[i] = T[i + 1] /\ i - 1 \in 0 .. Len(U)
        /\ (i + 1) - 1 = (i - 1) + 1
        BY <1>1
  <2>2. /\ T[i + 1].xid < x
        /\ ~ T[i + 1].more => T[i + 1].part = Parts
        /\ Due(T, S, M, T[i + 1].xid, T[i + 1].type, T[i + 1].part, (i + 1) - 1)
        /\ \A j \in (i + 1) + 1 .. Len(T) : IsPart(T[j], T[i + 1].xid) => T[i + 1].more
        BY <1>6, <2>1 DEF Tidy, Unread
  <2>3. \A j \in i + 1 .. Len(U) : j + 1 \in (i + 1) + 1 .. Len(T) /\ U[j] = T[j + 1]
        BY <1>1
  <2> QED BY <1>3, <2>1, <2>2, <2>3
<1>7. Unread(U, S, M, x)
      BY <1>6 DEF Unread
<1> QED BY <1>2, <1>5, <1>7 DEF Tidy, U

(* What is due stays so when the switch says more. *)
LEMMA DueMore ==
    ASSUME NEW S, NEW M, NEW T \in Seq(Answers), NEW a \in Answers, NEW y, NEW z, NEW n,
           NEW i \in 0 .. Len(T), Due(T, S, M, y, z, n, i)
    PROVE  /\ Due(Append(T, a), S, M, y, z, n, i)
           /\ i = Len(T) /\ a.t # "stats_reply" => Due(Append(T, a), S, M, y, z, n, i + 1)
           /\ i = Len(T) /\ n = 1 /\ ~ IsPart(a, y) => Due(Append(T, a), S, M, y, z, n, i + 1)
<1> DEFINE U == Append(T, a)
<1>1. /\ Len(T) \in Nat /\ U[Len(T) + 1] = a /\ \A j \in 1 .. Len(T) : U[j] = T[j]
      BY AppendOf
<1> HIDE DEF U
<1>2. \A j \in 1 .. i : j \in 1 .. Len(T) /\ j \in 1 .. i + 1 /\ U[j] = T[j]
      BY <1>1
<1>3. \A j \in 1 .. i : \A k \in j + 1 .. i : k \in 1 .. i
      OBVIOUS
<1>4. Follows(T, S, y, z, n, i) => Follows(U, S, y, z, n, i)
  <2>1. ASSUME NEW j \in 1 .. i, IsPart(T[j], y), T[j].type = z, T[j].part = n - 1,
               \A k \in j + 1 .. i : T[k].t # "stats_reply"
        PROVE  /\ IsPart(U[j], y) /\ U[j].type = z /\ U[j].part = n - 1
               /\ \A k \in j + 1 .. i : U[k].t # "stats_reply"
        BY <1>2, <1>3, <2>1
  <2> QED BY <1>2, <2>1 DEF Follows
<1>5. ASSUME i = Len(T), a.t # "stats_reply" \/ (n = 1 /\ ~ IsPart(a, y)),
             Follows(U, S, y, z, n, i)
      PROVE  Follows(U, S, y, z, n, i + 1)
  <2>1. \A k \in 1 .. i + 1 : k \in 1 .. i \/ (k = i + 1 /\ U[k] = a)
        BY <1>1, <1>5
  <2>2. CASE n = 1 /\ Foreign(S, y) /\ \A j \in 1 .. i : ~ IsPart(U[j], y)
    <3>1. ~ IsPart(a, y)
          BY <1>5 DEF IsPart
    <3> QED BY <2>1, <2>2, <3>1 DEF Follows
  <2>3. CASE n > 1 /\ \E j \in 1 .. i :
               /\ IsPart(U[j], y) /\ U[j].type = z /\ U[j].part = n - 1
               /\ \A k \in j + 1 .. i : U[k].t # "stats_reply"
    <3>1. PICK j \in 1 .. i : /\ IsPart(U[j], y) /\ U[j].type = z /\ U[j].part = n - 1
                              /\ \A k \in j + 1 .. i : U[k].t # "stats_reply"
          BY <2>3
    <3>2. \A k \in j + 1 .. i + 1 : k \in j + 1 .. i \/ (k = i + 1 /\ U[k] = a)
          BY <1>1, <1>5
    <3>3. a.t # "stats_reply"
          BY <1>5, <2>3
    <3>4. \A k \in j + 1 .. i + 1 : U[k].t # "stats_reply"
          BY <3>1, <3>2, <3>3
    <3>5. j \in 1 .. i + 1
          BY <1>2
    <3> QED BY <2>3, <3>1, <3>4, <3>5 DEF Follows
  <2>4. CASE n > 1 /\ At(S, y, z, n) /\ \A k \in 1 .. i : U[k].t # "stats_reply"
    <3>1. a.t # "stats_reply"
          BY <1>5, <2>4
    <3> QED BY <2>1, <2>4, <3>1 DEF Follows
  <2> QED BY <1>5, <2>2, <2>3, <2>4 DEF Follows
<1> QED BY <1>4, <1>5 DEF Due, U

(* The switch says something that belongs to no statistics. *)
LEMMA TidySays ==
    ASSUME NEW S, NEW Q, NEW P, NEW T \in Seq(Answers), NEW M, NEW x, NEW a \in Answers,
           a.t # "stats_reply", Tidy(S, Q, P, T, M, x)
    PROVE  Tidy(S, Q, P, Append(T, a), M, x)
<1> DEFINE U == Append(T, a)
<1>1. /\ Len(T) \in Nat /\ Len(U) = Len(T) + 1 /\ U[Len(T) + 1] = a
      /\ \A j \in 1 .. Len(T) : U[j] = T[j]
      BY AppendOf
<1>2. \A y, z, n : \A i \in 0 .. Len(T) :
        Due(T, S, M, y, z, n, i) =>
            /\ Due(U, S, M, y, z, n, i)
            /\ i = Len(T) => Due(U, S, M, y, z, n, i + 1)
      BY DueMore
<1> HIDE DEF U
<1>3. \A i \in 1 .. Len(U) : U[i].t = "stats_reply" => i \in 1 .. Len(T) /\ U[i] = T[i]
      BY <1>1
<1>4. Asked(Q, P, U, S, x)
      BY <1>3 DEF Tidy, Asked, IsPart
<1>5. Unfinished(P, U, S, M, x)
  <2>1. Len(T) \in 0 .. Len(T)
        BY <1>1
  <2> QED BY <1>1, <1>2, <1>3, <2>1 DEF Tidy, Unfinished, IsPart
<1>6. Unread(U, S, M, x)
  <2>1. \A i \in 1 .. Len(T) : i - 1 \in 0 .. Len(T)
        BY <1>1
  <2>2. SUFFICES ASSUME NEW i \in 1 .. Len(U), U[i].t = "stats_reply"
                 PROVE  /\ U[i].xid < x
                        /\ ~ U[i].more => U[i].part = Parts
                        /\ Due(U, S, M, U[i].xid, U[i].type, U[i].part, i - 1)
                        /\ \A j \in i + 1 .. Len(U) : IsPart(U[j], U[i].xid) => U[i].more
        BY DEF Unread
  <2>3. i \in 1 .. Len(T) /\ U[i] = T[i]
        BY <1>3, <2>2
  <2>4. /\ T[i].xid < x
        /\ ~ T[i].more => T[i].part = Parts
        /\ Due(T, S, M, T[i].xid, T[i].type, T[i].part, i - 1)
        /\ \A j \in i + 1 .. Len(T) : IsPart(T[j], T[i].xid) => T[i].more
        BY <2>2, <2>3 DEF Tidy, Unread
  <2>5. \A j \in i + 1 .. Len(U) :
          U[j].t = "stats_reply" => j \in i + 1 .. Len(T) /\ U[j] = T[j]
        BY <1>1, <1>3
  <2> QED BY <1>2, <2>1, <2>3, <2>4, <2>5 DEF IsPart
<1> QED BY <1>4, <1>5, <1>6 DEF Tidy, U

(* The switch takes a request. *)
LEMMA TidyPop ==
    ASSUME NEW S, NEW Q \in Seq(Demands), Q # <<>>, NEW P, NEW T, NEW M, NEW x,
           Tidy(S, Q, P, T, M, x)
    PROVE  Tidy(S, Tail(Q), P, T, M, x)
<1> DEFINE R == Tail(Q)
<1>1. \A i \in 1 .. Len(R) : i \in Int /\ i + 1 \in 1 .. Len(Q) /\ R[i] = Q[i + 1]
      BY TailOf
<1> HIDE DEF R
<1>2. \A i, j \in 1 .. Len(R) : i + 1 = j + 1 => i = j
      BY <1>1
<1>3. ASSUME NEW i \in 1 .. Len(R), R[i].t = "stats_request"
      PROVE  /\ R[i].xid < x /\ Foreign(S, R[i].xid)
             /\ \A j \in 1 .. Len(R) :
                  R[j].t = "stats_request" /\ R[j].xid = R[i].xid => i = j
             /\ \A p \in P : p.xid # R[i].xid
             /\ \A j \in 1 .. Len(T) : ~ IsPart(T[j], R[i].xid)
  <2>1. i + 1 \in 1 .. Len(Q) /\ R[i] = Q[i + 1]
        BY <1>1
  <2>2. /\ Q[i + 1].xid < x /\ Foreign(S, Q[i + 1].xid)
        /\ \A j \in 1 .. Len(Q) :
             Q[j].t = "stats_request" /\ Q[j].xid = Q[i + 1].xid => i + 1 = j
        /\ \A p \in P : p.xid # Q[i + 1].xid
        /\ \A j \in 1 .. Len(T) : ~ IsPart(T[j], Q[i + 1].xid)
        BY <1>3, <2>1 DEF Tidy, Asked
  <2> QED BY <1>1, <1>2, <2>1, <2>2
<1>4. Asked(R, P, T, S, x)
      BY <1>3 DEF Asked
<1> QED BY <1>4 DEF Tidy, R

(* The switch takes a request for statistics, and starts to answer it. *)
LEMMA TidyTake ==
    ASSUME NEW S, NEW Q \in Seq(Demands), Q # <<>>, NEW P \in SUBSET Rests,
           NEW T \in Seq(Answers), NEW M, NEW x \in Nat, Q[1].t = "stats_request",
           NEW r \in Rests, r.xid = Q[1].xid, r.part = 1, Tidy(S, Q, P, T, M, x)
    PROVE  Tidy(S, Tail(Q), P \union {r}, T, M, x)
<1> DEFINE R == Tail(Q)
           O == P \union {r}
<1>1. /\ \A i \in 1 .. Len(R) : i \in Int /\ i + 1 \in 1 .. Len(Q) /\ i + 1 # 1 /\ R[i] = Q[i + 1]
      /\ 1 \in 1 .. Len(Q)
      BY TailOf
<1>2. Asked(R, P, T, S, x)
      BY TidyPop DEF Tidy
<1> HIDE DEF R
<1>3. \A i \in 1 .. Len(R) : R[i].t = "stats_request" => R[i].xid # r.xid
      BY <1>1 DEF Tidy, Asked
<1>4. Asked(R, O, T, S, x)
      BY <1>2, <1>3 DEF Asked
<1>5. /\ r.xid < x /\ Foreign(S, r.xid) /\ \A p \in P : p.xid # r.xid
      /\ \A j \in 1 .. Len(T) : ~ IsPart(T[j], r.xid)
      BY <1>1 DEF Tidy, Asked
<1>6. r.part \in 1 .. Parts
      BY ConnectionAssumption
<1>7. Due(T, S, M, r.xid, r.type, r.part, Len(T))
      BY <1>5 DEF Due, Follows
<1>8. Unfinished(O, T, S, M, x)
  <2>1. ASSUME NEW p \in O
        PROVE  /\ p.xid < x /\ p.part \in 1 .. Parts
               /\ \A q \in O : q.xid = p.xid => q = p
               /\ \A j \in 1 .. Len(T) : IsPart(T[j], p.xid) => T[j].more
               /\ Due(T, S, M, p.xid, p.type, p.part, Len(T))
    <3>1. CASE p = r
          BY <1>5, <1>6, <1>7, <3>1
    <3>2. CASE p \in P
      <4>1. /\ p.xid < x /\ p.part \in 1 .. Parts
            /\ \A q \in P : q.xid = p.xid => q = p
            /\ \A j \in 1 .. Len(T) : IsPart(T[j], p.xid) => T[j].more
            /\ Due(T, S, M, p.xid, p.type, p.part, Len(T))
            BY <3>2 DEF Tidy, Unfinished
      <4>2. p.xid # r.xid
            BY <1>5, <3>2
      <4> QED BY <4>1, <4>2
    <3> QED BY <3>1, <3>2
  <2> QED BY <2>1 DEF Unfinished
<1> QED BY <1>4, <1>8 DEF Tidy, R

(* The switch sends the next part of a reply; the other replies it has     *)
(* begun are interleaved with it.                                          *)
LEMMA TidyPart ==
    ASSUME NEW S, NEW Q \in Seq(Demands), NEW P \in SUBSET Rests, NEW T \in Seq(Answers), NEW M,
           NEW N, M \subseteq N,
           NEW x \in Nat, NEW p \in P, NEW a \in Answers, IsPart(a, p.xid), a.part = p.part,
           a.type = p.type, a.more <=> p.part < Parts, NEW O,
           \A q \in O : \/ q \in P \ {p}
                        \/ /\ p.part < Parts /\ q.xid = p.xid /\ q.part = p.part + 1
                           /\ q.type = p.type,
           \A q, r \in O : q.xid = p.xid /\ r.xid = p.xid => q = r,
           \A q \in P \ {p} : q.part > 1 => q.xid \in N,
           Tidy(S, Q, P, T, M, x)
    PROVE  Tidy(S, Q, O, Append(T, a), N, x)
<1> DEFINE U == Append(T, a)
<1>1. /\ Len(T) \in Nat /\ Len(U) = Len(T) + 1 /\ U[Len(T) + 1] = a
      /\ \A j \in 1 .. Len(T) : U[j] = T[j]
      BY AppendOf
<1>2. \A y, z, n : \A i \in 0 .. Len(T) :
        Due(T, S, M, y, z, n, i) =>
            /\ Due(U, S, M, y, z, n, i)
            /\ i = Len(T) /\ n = 1 /\ ~ IsPart(a, y) => Due(U, S, M, y, z, n, i + 1)
      BY DueMore
<1> HIDE DEF U
<1>3. \A i \in 1 .. Len(U) : (i \in 1 .. Len(T) /\ U[i] = T[i]) \/ (i = Len(T) + 1 /\ U[i] = a)
      BY <1>1
<1>4. /\ p.xid < x /\ p.part \in 1 .. Parts /\ Parts \in Nat
      /\ \A q \in P : q.xid = p.xid => q = p
      /\ \A j \in 1 .. Len(T) : IsPart(T[j], p.xid) => T[j].more
      /\ Due(T, S, M, p.xid, p.type, p.part, Len(T))
      BY ConnectionAssumption DEF Tidy, Unfinished
<1>5. Len(T) \in 0 .. Len(T) /\ \A i \in 1 .. Len(T) : i - 1 \in 0 .. Len(T)
      BY <1>1
<1>6. a.xid = p.xid /\ a.t = "stats_reply"
      BY DEF IsPart
<1>7. \A y, z, n, i : Due(U, S, M, y, z, n, i) => Due(U, S, N, y, z, n, i)
      BY DEF Due
<1>8. Asked(Q, O, U, S, x)
      BY <1>3, <1>6 DEF Tidy, Asked, IsPart
<1>9. ASSUME NEW q \in O
      PROVE  /\ q.xid < x /\ q.part \in 1 .. Parts
             /\ \A r \in O : r.xid = q.xid => r = q
             /\ \A j \in 1 .. Len(U) : IsPart(U[j], q.xid) => U[j].more
             /\ Due(U, S, N, q.xid, q.type, q.part, Len(U))
  <2>1. CASE q \in P \ {p}
    <3>1. q.xid # p.xid
          BY <1>4, <2>1
    <3>2. /\ q.xid < x /\ q.part \in 1 .. Parts
          /\ \A r \in P : r.xid = q.xid => r = q
          /\ \A j \in 1 .. Len(T) : IsPart(T[j], q.xid) => T[j].more
          /\ Due(T, S, M, q.xid, q.type, q.part, Len(T))
          BY <2>1 DEF Tidy, Unfinished
    <3>3. \A r \in O : r.xid = q.xid => r = q
          BY <3>1, <3>2
    <3>4. \A j \in 1 .. Len(U) : IsPart(U[j], q.xid) => U[j].more
          BY <1>3, <1>6, <3>1, <3>2 DEF IsPart
    <3>5. Due(U, S, N, q.xid, q.type, q.part, Len(U))
      <4>1. CASE q.part > 1
            BY <2>1, <4>1 DEF Due
      <4>2. CASE ~ q.part > 1
        <5>1. q.part = 1 /\ ~ IsPart(a, q.xid)
              BY <1>4, <1>6, <3>1, <3>2, <4>2 DEF IsPart
        <5>2. Due(U, S, M, q.xid, q.type, q.part, Len(T) + 1)
              BY <1>2, <1>5, <3>2, <5>1
        <5> QED BY <1>1, <1>7, <5>2
      <4> QED BY <4>1, <4>2
    <3> QED BY <3>2, <3>3, <3>4, <3>5
  <2>2. CASE /\ p.part < Parts /\ q.xid = p.xid /\ q.part = p.part + 1 /\ q.type = p.type
    <3>1. q.xid < x /\ q.part \in 1 .. Parts
          BY <1>4, <2>2
    <3>2. \A r \in O : r.xid = q.xid => r = q
          BY <2>2
    <3>3. \A j \in 1 .. Len(U) : IsPart(U[j], q.xid) => U[j].more
          BY <1>3, <1>4, <2>2
    <3>4. Due(U, S, N, q.xid, q.type, q.part, Len(U))
      <4>1. Len(U) \in 1 .. Len(U) /\ Len(U) + 1 .. Len(U) = {} /\ U[Len(U)] = a
            BY <1>1
      <4>2. q.part > 1 /\ q.part - 1 = p.part
            BY <1>4, <2>2
      <4>3. IsPart(U[Len(U)], q.xid) /\ U[Len(U)].type = q.type /\ U[Len(U)].part = q.part - 1
            BY <1>6, <2>2, <4>1, <4>2 DEF IsPart
      <4>4. Follows(U, S, q.xid, q.type, q.part, Len(U))
            BY <4>1, <4>2, <4>3 DEF Follows
      <4> QED BY <4>4 DEF Due
    <3> QED BY <3>1, <3>2, <3>3, <3>4
  <2> QED BY <2>1, <2>2
<1>10. Unfinished(O, U, S, N, x)
       BY <1>9 DEF Unfinished
<1>11. ASSUME NEW i \in 1 .. Len(U), U[i].t = "stats_reply"
       PROVE  /\ U[i].xid < x
              /\ ~ U[i].more => U[i].part = Parts
              /\ Due(U, S, N, U[i].xid, U[i].type, U[i].part, i - 1)
              /\ \A j \in i + 1 .. Len(U) : IsPart(U[j], U[i].xid) => U[i].more
  <2>1. CASE i \in 1 .. Len(T) /\ U[i] = T[i]
    <3>1. /\ T[i].xid < x
          /\ ~ T[i].more => T[i].part = Parts
          /\ Due(T, S, M, T[i].xid, T[i].type, T[i].part, i - 1)
          /\ \A j \in i + 1 .. Len(T) : IsPart(T[j], T[i].xid) => T[i].more
          BY <1>11, <2>1 DEF Tidy, Unread
    <3>2. ASSUME NEW j \in i + 1 .. Len(U), IsPart(U[j], T[i].xid)
          PROVE  T[i].more
      <4>1. CASE j \in 1 .. Len(T)
        <5>1. j \in i + 1 .. Len(T) /\ U[j] = T[j]
              BY <1>1, <3>2, <4>1
        <5> QED BY <3>1, <3>2, <5>1
      <4>2. CASE j = Len(T) + 1
        <5>1. IsPart(T[i], p.xid)
              BY <1>1, <1>6, <1>11, <2>1, <3>2, <4>2 DEF IsPart
        <5> QED BY <1>4, <2>1, <5>1
      <4> QED BY <1>1, <4>1, <4>2
    <3> QED BY <1>2, <1>5, <1>7, <2>1, <3>1, <3>2
  <2>2. CASE i = Len(T) + 1 /\ U[i] = a
    <3>1. ~ a.more => a.part = Parts
          BY <1>4
    <3>2. i - 1 = Len(T) /\ i + 1 .. Len(U) = {}
          BY <1>1, <2>2
    <3>3. Due(U, S, N, p.xid, p.type, p.part, Len(T))
          BY <1>2, <1>4, <1>5, <1>7
    <3> QED BY <1>4, <1>6, <2>2, <3>1, <3>2, <3>3
  <2> QED BY <1>3, <2>1, <2>2
<1>12. Unread(U, S, N, x)
       BY <1>11 DEF Unread
<1> QED BY <1>8, <1>10, <1>12 DEF Tidy, U

(* A part is read: what is due after it, and what was not begun, stays so. *)
LEMMA TidyRead ==
    ASSUME NEW S, NEW M, NEW S2, NEW Q, NEW P \in SUBSET Rests, NEW T \in Seq(Answers),
           T # <<>>, NEW x, T[1].t = "stats_reply", Tidy(S, Q, P, T, M, x), Collected(S2, x),
           \A y : y # T[1].xid /\ Foreign(S, y) => Foreign(S2, y),
           T[1].type \in Aggregated /\ T[1].xid \notin M /\ T[1].more =>
               At(S2, T[1].xid, T[1].type, T[1].part + 1)
    PROVE  Tidy(S2, Q, P, Tail(T), M, x)
<1> DEFINE U == Tail(T)
           m == T[1]
<1>1. /\ Len(T) \in Nat \ {0} /\ Len(U) = Len(T) - 1
      /\ \A i \in 1 .. Len(U) : i + 1 \in 1 .. Len(T) /\ U[i] = T[i + 1]
      /\ \A i \in 2 .. Len(T) : i - 1 \in 1 .. Len(U) /\ U[i - 1] = T[i]
      BY TailOf
<1> HIDE DEF U
<1>2. Asked(Q, P, U, S2, x)
  <2>1. 1 \in 1 .. Len(T)
        BY <1>1
  <2> QED BY <1>1, <2>1 DEF Tidy, Asked, IsPart
<1>3. ASSUME NEW y, NEW z, NEW n, NEW i \in 0 .. Len(U), m.more \/ y # m.xid, n \in Nat,
             Due(T, S, M, y, z, n, i + 1)
      PROVE  Due(U, S2, M, y, z, n, i)
  <2>1. SUFFICES ASSUME Follows(T, S, y, z, n, i + 1), z \in Aggregated, y \notin M
                 PROVE  Follows(U, S2, y, z, n, i)
        BY <1>3 DEF Due
  <2>2. \A k \in 1 .. i : k + 1 \in 1 .. i + 1 /\ U[k] = T[k + 1]
        BY <1>1
  <2>3. 1 \in 1 .. i + 1 /\ m.t = "stats_reply"
        OBVIOUS
  <2>4. CASE n = 1 /\ Foreign(S, y) /\ \A j \in 1 .. i + 1 : ~ IsPart(T[j], y)
    <3>1. y # m.xid
          BY <2>3, <2>4 DEF IsPart
    <3> QED BY <2>2, <2>4, <3>1 DEF Follows
  <2>5. CASE n > 1 /\ \E j \in 1 .. i + 1 :
               /\ IsPart(T[j], y) /\ T[j].type = z /\ T[j].part = n - 1
               /\ \A k \in j + 1 .. i + 1 : T[k].t # "stats_reply"
    <3>1. PICK j \in 1 .. i + 1 : /\ IsPart(T[j], y) /\ T[j].type = z /\ T[j].part = n - 1
                                  /\ \A k \in j + 1 .. i + 1 : T[k].t # "stats_reply"
          BY <2>5
    <3>2. CASE j = 1
      <4>1. m.xid = y /\ m.type = z /\ m.part = n - 1
            BY <3>1, <3>2 DEF IsPart
      <4>2. (n - 1) + 1 = n
            BY <1>3
      <4>3. At(S2, y, z, n)
            BY <1>3, <2>1, <4>1, <4>2
      <4>4. \A k \in 1 .. i : k + 1 \in j + 1 .. i + 1
            BY <3>2
      <4>5. \A k \in 1 .. i : U[k].t # "stats_reply"
            BY <2>2, <3>1, <4>4
      <4> QED BY <2>5, <4>3, <4>5 DEF Follows
    <3>3. CASE j # 1
      <4>1. j \in 2 .. Len(T) /\ j - 1 \in 1 .. i
            BY <1>1, <3>3
      <4>2. U[j - 1] = T[j]
            BY <1>1, <4>1
      <4>3. \A k \in (j - 1) + 1 .. i : k + 1 \in j + 1 .. i + 1 /\ k \in 1 .. i
            BY <4>1
      <4>4. \A k \in (j - 1) + 1 .. i : U[k].t # "stats_reply"
            BY <2>2, <3>1, <4>3
      <4> QED BY <2>5, <3>1, <4>1, <4>2, <4>4 DEF Follows
    <3> QED BY <3>2, <3>3
  <2>6. CASE \A k \in 1 .. i + 1 : T[k].t # "stats_reply"
        BY <2>3, <2>6
  <2> QED BY <2>1, <2>4, <2>5, <2>6 DEF Follows
<1>4. Len(U) \in 0 .. Len(U) /\ Len(U) + 1 = Len(T) /\ 1 \in 1 .. Len(T)
      BY <1>1
<1>5. \A i \in 2 .. Len(T) : IsPart(T[i], m.xid) => m.more
  <2>1. \A i \in 2 .. Len(T) : i \in 1 + 1 .. Len(T)
        OBVIOUS
  <2> QED BY <1>4, <2>1 DEF Tidy, Unread
<1>6. \A p \in P : p.xid = m.xid => m.more
      BY <1>4 DEF Tidy, Unfinished, IsPart
<1>7. Unfinished(P, U, S2, M, x)
  <2>1. ASSUME NEW p \in P
        PROVE  /\ p.xid < x /\ p.part \in 1 .. Parts
               /\ \A q \in P : q.xid = p.xid => q = p
               /\ \A j \in 1 .. Len(U) : IsPart(U[j], p.xid) => U[j].more
               /\ Due(U, S2, M, p.xid, p.type, p.part, Len(U))
    <3>1. /\ p.xid < x /\ p.part \in 1 .. Parts
          /\ \A q \in P : q.xid = p.xid => q = p
          /\ \A j \in 1 .. Len(T) : IsPart(T[j], p.xid) => T[j].more
          /\ Due(T, S, M, p.xid, p.type, p.part, Len(T))
          BY DEF Tidy, Unfinished
    <3>2. p.part \in Nat
          BY DEF Rests
    <3>3. Due(U, S2, M, p.xid, p.type, p.part, Len(U))
          BY <1>3, <1>4, <1>6, <3>1, <3>2
    <3> QED BY <1>1, <3>1, <3>3
  <2> QED BY <2>1 DEF Unfinished
<1>8. ASSUME NEW i \in 1 .. Len(U), U[i].t = "stats_reply"
      PROVE  /\ U[i].xid < x
             /\ ~ U[i].more => U[i].part = Parts
             /\ Due(U, S2, M, U[i].xid, U[i].type, U[i].part, i - 1)
             /\ \A j \in i + 1 .. Len(U) : IsPart(U[j], U[i].xid) => U[i].more
  <2>1. i + 1 \in 2 .. Len(T) /\ i + 1 \in 1 .. Len(T) /\ U[i] = T[i + 1] /\ i - 1 \in 0 .. Len(U)
        /\ (i + 1) - 1 = (i - 1) + 1
        BY <1>1
  <2>2. /\ T[i + 1].xid < x
        /\ ~ T[i + 1].more => T[i + 1].part = Parts
        /\ Due(T, S, M, T[i + 1].xid, T[i + 1].type, T[i + 1].part, (i + 1) - 1)
        /\ \A j \in (i + 1) + 1 .. Len(T) : IsPart(T[j], T[i + 1].xid) => T[i + 1].more
        BY <1>8, <2>1 DEF Tidy, Unread
  <2>3. \A j \in i + 1 .. Len(U) : j + 1 \in (i + 1) + 1 .. Len(T) /\ U[j] = T[j + 1]
        BY <1>1
  <2>4. m.more \/ T[i + 1].xid # m.xid
        BY <1>5, <1>8, <2>1 DEF IsPart
  <2>5. T[i + 1].part \in Nat
    <3>1. <<>> \in Seq(Demands)
          OBVIOUS
    <3> QED BY <2>1, <3>1, Numbers
  <2>6. Due(U, S2, M, U[i].xid, U[i].type, U[i].part, i - 1)
        BY <1>3, <2>1, <2>2, <2>4, <2>5
  <2> QED BY <2>1, <2>2, <2>3, <2>6
<1>9. Unread(U, S2, M, x)
      BY <1>8 DEF Unread
<1> QED BY <1>2, <1>7, <1>9 DEF Tidy, U

(* What _incoming_stats_reply does with a part, in the terms above. *)
Sorted(S, S2, D, D2, m) ==
    \/ m.more /\ m.type \notin Aggregated /\ S2 = <<>> /\ D2 = D
    \/ ~ Fits(S, m) /\ S2 = S /\ D2 = D
    \/ Fits(S, m) /\ m.more /\ S2 = Append(S, m) /\ D2 = D
    \/ Fits(S, m) /\ ~ m.more /\ S2 = <<>> /\ D2 \in {D, D \union {Append(S, m)}}

(* The first message to read completes what was collected, or is dropped. *)
LEMMA FirstDue ==
    ASSUME NEW S, NEW Q, NEW P, NEW T \in Seq(Answers), NEW M, NEW x, T # <<>>,
           T[1].t = "stats_reply", Tidy(S, Q, P, T, M, x), T[1].type \in Aggregated,
           T[1].xid \notin M
    PROVE  At(S, T[1].xid, T[1].type, T[1].part)
<1>1. 1 \in 1 .. Len(T) /\ 1 - 1 = 0 /\ 1 .. 0 = {}
      BY TailOf
<1>2. Follows(T, S, T[1].xid, T[1].type, T[1].part, 0)
      BY <1>1 DEF Tidy, Unread, Due
<1>3. CASE T[1].part = 1 /\ Foreign(S, T[1].xid)
  <2>1. S = <<>> => Len(S) = 1 - 1 /\ 1 .. Len(S) = {}
        OBVIOUS
  <2> QED BY <1>3, <2>1 DEF Foreign, At
<1> QED BY <1>1, <1>2, <1>3 DEF Follows

(* It keeps account of the parts. *)
LEMMA SortedTidy ==
    ASSUME NEW S \in Seq(Answers), NEW M, NEW S2, NEW D, NEW D2,
           NEW Q, NEW P \in SUBSET Rests, NEW T \in Seq(Answers), NEW x,
           T # <<>>, T[1].t = "stats_reply", Tidy(S, Q, P, T, M, x),
           Sorted(S, S2, D, D2, T[1])
    PROVE  Tidy(S2, Q, P, Tail(T), M, x)
<1> DEFINE m == T[1]
<1>1. m \in Answers /\ m.part \in Nat /\ m.xid < x
  <2>1. m \in Answers /\ 1 \in 1 .. Len(T)
        BY TailOf
  <2> QED BY <2>1 DEF Answers, Tidy, Unread
<1>2. Collected(S, x)
      BY DEF Tidy
<1>3. m.type \in Aggregated /\ m.xid \notin M => At(S, m.xid, m.type, m.part)
      BY FirstDue
<1> HIDE DEF m
<1>4. Sorted(S, S2, D, D2, m)
      BY DEF m
<1>5. ASSUME Fits(S, m)
      PROVE  \A j \in 1 .. Len(S) : S[j].xid = m.xid /\ S[j].type = m.type
  <2>1. S = <<>> => Len(S) = 0
        OBVIOUS
  <2> QED BY <1>2, <1>5, <2>1 DEF Fits, Collected
<1>6. ASSUME S2 = Append(S, m)
      PROVE  /\ Len(S) \in Nat /\ Len(S2) = Len(S) + 1 /\ S2[Len(S) + 1] = m
             /\ \A j \in 1 .. Len(S) : S2[j] = S[j]
             /\ \A j \in 1 .. Len(S2) : j \in 1 .. Len(S) \/ j = Len(S) + 1
             /\ 1 \in 1 .. Len(S2)
  <2>1. /\ Len(S) \in Nat /\ Len(S2) = Len(S) + 1 /\ S2[Len(S) + 1] = m
        /\ \A j \in 1 .. Len(S) : S2[j] = S[j]
        BY <1>1, <1>6, AppendOf
  <2> QED BY <2>1
<1>7. Collected(S2, x)
  <2>1. Collected(<<>>, x)
        BY DEF Collected
  <2>2. ASSUME Fits(S, m), m.more, S2 = Append(S, m)
        PROVE  Collected(S2, x)
    <3>1. \A j \in 1 .. Len(S2) : S2[j].xid = m.xid /\ S2[j].type = m.type /\ S2[j].more
          BY <1>2, <1>5, <1>6, <2>2 DEF Collected
    <3> QED BY <1>1, <1>6, <2>2, <3>1 DEF Collected
  <2> QED BY <1>2, <1>4, <2>1, <2>2 DEF Sorted
<1>8. ASSUME NEW y, y # m.xid, Foreign(S, y)
      PROVE  Foreign(S2, y)
  <2>1. CASE S2 = <<>> \/ S2 = S
        BY <1>8, <2>1 DEF Foreign
  <2>2. CASE S2 = Append(S, m)
    <3>1. S2[1] = m \/ (S2[1] = S[1] /\ S # <<>>)
      <4>1. CASE S = <<>>
        <5>1. Len(S) = 0
              BY <4>1
        <5> QED BY <1>6, <2>2, <5>1
      <4>2. CASE S # <<>>
        <5>1. 1 \in 1 .. Len(S)
              BY <4>2
        <5> QED BY <1>6, <2>2, <4>2, <5>1
      <4> QED BY <4>1, <4>2
    <3> QED BY <1>8, <3>1 DEF Foreign
  <2> QED BY <1>4, <2>1, <2>2 DEF Sorted
<1>9. ASSUME m.type \in Aggregated, m.xid \notin M, m.more
      PROVE  At(S2, m.xid, m.type, m.part + 1)
  <2>1. CASE ~ Fits(S, m) /\ S2 = S
    <3>1. CASE S[1].xid # m.xid
          BY <2>1, <3>1 DEF At, Fits
    <3>2. CASE S[1].xid = m.xid
      <4>1. Len(S) = m.part - 1 /\ \A k \in 1 .. Len(S) : S[k].xid = m.xid /\ S[k].type = m.type
            BY <1>3, <1>9, <3>2 DEF At
      <4>2. S # <<>> /\ 1 \in 1 .. Len(S)
            BY <2>1 DEF Fits
      <4> QED BY <2>1, <4>1, <4>2 DEF Fits
    <3> QED BY <3>1, <3>2
  <2>2. CASE Fits(S, m) /\ S2 = Append(S, m)
    <3>1. ~ (S # <<>> /\ S[1].xid # m.xid)
          BY <2>2 DEF Fits
    <3>2. /\ Len(S) = m.part - 1
          /\ \A k \in 1 .. Len(S) : S[k].xid = m.xid /\ S[k].type = m.type /\ S[k].part = k
          BY <1>3, <1>9, <3>1 DEF At
    <3>3. Len(S2) = (m.part + 1) - 1 /\ Len(S) + 1 = m.part
          BY <1>1, <1>6, <2>2, <3>2
    <3>4. \A k \in 1 .. Len(S2) : S2[k].xid = m.xid /\ S2[k].type = m.type /\ S2[k].part = k
          BY <1>6, <2>2, <3>2, <3>3
    <3> QED BY <3>3, <3>4 DEF At
  <2> QED BY <1>4, <1>9, <2>1, <2>2 DEF Sorted
<1> QED BY <1>7, <1>8, <1>9, TidyRead DEF m

(* What it gives to a handler is the reply it came from. *)
LEMMA SortedGiven ==
    ASSUME NEW S \in Seq(Answers), NEW M, NEW S2, NEW D, NEW D2,
           NEW Q, NEW P, NEW T \in Seq(Answers), NEW x,
           T # <<>>, T[1].t = "stats_reply", Tidy(S, Q, P, T, M, x),
           Sorted(S, S2, D, D2, T[1]), Given(D, M)
    PROVE  Given(D2, M)
<1> DEFINE m == T[1]
<1>1. m \in Answers /\ 1 \in 1 .. Len(T)
      BY TailOf
<1>2. CASE D2 = D
      BY <1>2
<1>3. CASE Fits(S, m) /\ ~ m.more /\ D2 = D \union {Append(S, m)}
  <2> DEFINE s == Append(S, m)
  <2>1. /\ Len(S) \in Nat /\ Len(s) = Len(S) + 1 /\ s[Len(S) + 1] = m
        /\ \A j \in 1 .. Len(S) : s[j] = S[j]
        BY <1>1, AppendOf
  <2>2. m.xid \in Int /\ m.part \in Nat /\ m.more = FALSE
        BY <1>1, <1>3 DEF Answers
  <2>3. m.part = Parts
        BY <1>1, <1>3 DEF Tidy, Unread
  <2>4. m.type \in Aggregated /\ m.xid \notin M => At(S, m.xid, m.type, m.part)
        BY FirstDue
  <2>5. \A j \in 1 .. Len(S) : S[j].xid = m.xid /\ S[j].type = m.type /\ S[j].more
    <3>1. S = <<>> => Len(S) = 0
          OBVIOUS
    <3> QED BY <1>3, <3>1 DEF Fits, Tidy, Collected
  <2>6. \A j \in 1 .. Len(S) : S[j].more = TRUE
    <3>1. <<>> \in Seq(Demands)
          OBVIOUS
    <3>2. \A j \in 1 .. Len(S) : S[j].more \in BOOLEAN
          BY <3>1, Numbers
    <3> QED BY <2>5, <3>2
  <2> HIDE DEF s, m
  <2>7. \A j \in 1 .. Len(s) : j \in 1 .. Len(S) \/ j = Len(S) + 1
        BY <2>1
  <2>8. 1 \in 1 .. Len(s) /\ Len(S) + 1 \in 1 .. Len(s)
        /\ \A j \in 1 .. Len(S) : j \in 1 .. Len(s)
        BY <2>1
  <2>9. \A j \in 1 .. Len(s) : s[j].xid = m.xid /\ s[j].type = m.type
        BY <2>1, <2>5, <2>7
  <2>10. ASSUME NEW j \in 1 .. Len(s)
         PROVE  s[j].xid = s[1].xid /\ s[j].type = s[1].type /\ s[j].more = (j < Len(s))
    <3>1. CASE j \in 1 .. Len(S)
      <4>1. j < Len(s) /\ s[j].more = TRUE
            BY <2>1, <2>6, <3>1
      <4> QED BY <2>8, <2>9, <4>1
    <3>2. CASE j = Len(S) + 1
      <4>1. ~ (j < Len(s)) /\ s[j] = m
            BY <2>1, <3>2
      <4>2. (j < Len(s)) = FALSE
            BY <4>1
      <4>3. s[j].more = (j < Len(s))
            BY <2>2, <4>1, <4>2
      <4> QED BY <2>8, <2>9, <4>3
    <3> QED BY <2>7, <3>1, <3>2
  <2>11. ASSUME s[1].type \in Aggregated, s[1].xid \notin M, NEW n \in 1 .. Parts
         PROVE  \E i \in 1 .. Len(s) : s[i].part = n
    <3>1. At(S, m.xid, m.type, m.part)
          BY <2>4, <2>8, <2>9, <2>11
    <3>2. ~ (S # <<>> /\ S[1].xid # m.xid)
          BY <1>3 DEF Fits
    <3>3. Len(S) = m.part - 1 /\ \A k \in 1 .. Len(S) : S[k].part = k
          BY <3>1, <3>2 DEF At
    <3>4. CASE n = Parts
          BY <2>1, <2>3, <2>8, <3>4
    <3>5. CASE n # Parts
      <4>1. n \in 1 .. Len(S)
            BY <2>2, <2>3, <3>3, <3>5
      <4> QED BY <2>1, <2>8, <3>3, <4>1
    <3> QED BY <3>4, <3>5
  <2>12. Given({s}, M)
         BY <2>10, <2>11 DEF Given
  <2> QED BY <1>3, <2>12 DEF Given, s, m
<1> QED BY <1>2, <1>3 DEF Sorted

(* The types of what the statistics of a connection depend on. *)
LEMMA OwnTypes ==
    ASSUME HandInv, NEW c \in Conns
    PROVE  /\ con[c] \in Fields /\ con[c].previous_stats \in Seq(Answers)
           /\ toSwitch[c] \in Seq(Demands) /\ pending[c] \in SUBSET Rests
           /\ toCtl[c] \in Seq(Answers) /\ xid \in Nat
<1>1. /\ con \in [Conns -> Fields] /\ toSwitch \in [Conns -> Seq(Demands)]
      /\ toCtl \in [Conns -> Seq(Answers)]
      /\ pending \in [Conns -> SUBSET Rests] /\ xid \in Nat
      BY WorldFields DEF HandInv, Types, Worlds
<1>2. con[c].previous_stats \in Seq(Answers)
      BY <1>1 DEF Fields
<1> QED BY <1>1, <1>2

(* Steps elsewhere, which at most use up an xid. *)
LEMMA OwnKept ==
    ASSUME HandInv, NEW c \in Conns, Own(c), con'[c].state = "open" => con[c].state = "open",
           con'[c].previous_stats = con[c].previous_stats, toSwitch'[c] = toSwitch[c],
           pending'[c] = pending[c], toCtl'[c] = toCtl[c], delivered'[c] = delivered[c],
           mixed'[c] = mixed[c], xid' \in Nat, xid <= xid'
    PROVE  Own(c)'
<1>1. /\ con[c].previous_stats \in Seq(Answers)
      /\ toSwitch[c] \in Seq(Demands) /\ pending[c] \in SUBSET Rests
      /\ toCtl[c] \in Seq(Answers) /\ xid \in Nat
      BY OwnTypes
<1>2. con'[c].state = "open" =>
        Tidy(con[c].previous_stats, toSwitch[c], pending[c], toCtl[c], mixed[c], xid')
      BY <1>1, TidyLater DEF Own
<1> QED BY <1>2 DEF Own

(* A queue that got messages which ask for no statistics. *)
Pushed(q, r) ==
    \/ r = q
    \/ \E a \in Demands : /\ a.t # "stats_request"
                          /\ \/ r = Append(q, a)
                             \/ \E b \in Demands : /\ b.t # "stats_request"
                                                   /\ r = Append(Append(q, a), b)

(* It has no new requests for statistics. *)
LEMMA TidyPushed ==
    ASSUME NEW S, NEW Q \in Seq(Demands), NEW R, NEW P, NEW T, NEW M, NEW x,
           Pushed(Q, R), Tidy(S, Q, P, T, M, x)
    PROVE  Tidy(S, R, P, T, M, x)
<1>1. CASE R = Q
      BY <1>1
<1>2. ASSUME NEW a \in Demands, a.t # "stats_request"
      PROVE  Append(Q, a) \in Seq(Demands) /\ Tidy(S, Append(Q, a), P, T, M, x)
      BY <1>2, AppendOf, TidyPush
<1>3. ASSUME NEW a \in Demands, a.t # "stats_request", NEW b \in Demands, b.t # "stats_request"
      PROVE  Tidy(S, Append(Append(Q, a), b), P, T, M, x)
      BY <1>2, <1>3, TidyPush
<1> QED BY <1>1, <1>2, <1>3 DEF Pushed

(* What every handler but that of statistics leaves alone. *)
Kept(w, v, c) ==
    /\ \A b \in Conns : /\ v.con[b].state = w.con[b].state
                        /\ v.con[b].previous_stats = w.con[b].previous_stats
    /\ v.delivered = w.delivered
    /\ \A b \in Conns \ {c} : v.toSwitch[b] = w.toSwitch[b]
    /\ Pushed(w.toSwitch[c], v.toSwitch[c])

(* A connection that is lost or of which an event is raised. *)
LEMMA QuietKept ==
    ASSUME NEW w \in Worlds, NEW v, NEW c \in Conns, Quiet(w, v, c)
    PROVE  Kept(w, v, c) /\ v.toSwitch = w.toSwitch
<1>1. w.con \in [Conns -> Fields]
      BY DEF Worlds
<1>2. \A b \in Conns : /\ v.con[b].state = w.con[b].state
                       /\ v.con[b].previous_stats = w.con[b].previous_stats
  <2>1. CASE v.con = w.con
        BY <2>1
  <2>2. CASE v.con = [w.con EXCEPT ![c].disconnected = TRUE]
        BY <1>1, <2>2 DEF Fields
  <2> QED BY <2>1, <2>2 DEF Quiet
<1> QED BY <1>2 DEF Quiet, Kept, Pushed

(* A connection whose other fields change. *)
LEMMA KnownKept ==
    ASSUME NEW w \in Worlds, NEW v, NEW c \in Conns, NEW r, r.state = w.con[c].state,
           r.previous_stats = w.con[c].previous_stats,
           Known(w, v, c, r) \/ \E d : Registered(w, v, c, r, d)
    PROVE  Kept(w, v, c) /\ v.toSwitch = w.toSwitch
BY DEF Known, Registered, Others, Kept, Pushed

(* Two such steps. *)
LEMMA KeptTwice ==
    ASSUME NEW w, NEW u, NEW v, NEW c \in Conns, Kept(w, u, c), u.toSwitch = w.toSwitch,
           Kept(u, v, c)
    PROVE  Kept(w, v, c)
BY DEF Kept

(* What is sent on the way up asks for no statistics. *)
LEMMA SentKept ==
    ASSUME NEW w \in Worlds, NEW v, NEW c \in Conns, NEW q, Sent(w, v, c, q),
           Pushed(w.toSwitch[c], q)
    PROVE  Kept(w, v, c)
<1>1. w.toSwitch \in [Conns -> Seq(Demands)]
      BY DEF Worlds
<1> QED BY <1>1 DEF Sent, Kept

(* Every handler but that of statistics. *)
LEMMA OutcomeKept ==
    ASSUME NEW w \in Worlds, NEW v, NEW c \in Conns, NEW m \in Answers, Outcome(w, v, c, m),
           m.t # "stats_reply"
    PROVE  Kept(w, v, c)
<1> DEFINE k == w.con[c]
           d == m.dpid
           r1 == [k EXCEPT !.dpid = d]
           r2 == [k EXCEPT !.dpid = d, !.ofnexus = "core", !.barrier = - c]
           r3 == [k EXCEPT !.barrier = 0, !.connect_time = TRUE]
           f == Msg("features_request", 0)
           e == Msg("flow_mod_delete", 0)
           g == Msg("barrier_request", - c)
<1>1. k \in Fields
      BY DEF Worlds
<1> HIDE DEF k
<1>2. /\ r1.state = k.state /\ r1.previous_stats = k.previous_stats
      /\ r2.state = k.state /\ r2.previous_stats = k.previous_stats
      /\ r3.state = k.state /\ r3.previous_stats = k.previous_stats
      BY <1>1 DEF Fields
<1>3. - c \in Int /\ 0 \in Int
      BY ConnNumber
<1>4. /\ f \in Demands /\ f.t # "stats_request" /\ e \in Demands /\ e.t # "stats_request"
      /\ g \in Demands /\ g.t # "stats_request"
      BY <1>3, MsgType DEF Requested
<1> HIDE DEF r1, r2, r3, f, e, g, d
<1>5. Pushed(w.toSwitch[c], Append(w.toSwitch[c], f))
      BY <1>4 DEF Pushed
<1>6. Pushed(w.toSwitch[c], Append(Append(w.toSwitch[c], e), g))
      BY <1>4 DEF Pushed
<1>7. CASE Quiet(w, v, c)
      BY <1>7, QuietKept
<1>8. CASE Sent(w, v, c, Append(w.toSwitch[c], Msg("features_request", 0)))
      BY <1>5, <1>8, SentKept DEF f
<1>9. CASE Finished(w, v, c)
      BY <1>2, <1>9 DEF Finished, Others, Kept, Pushed, k, r3
<1>10. CASE Again(w, v, c, m.dpid)
  <2>1. Known(w, v, c, r1) \/ \E z : Registered(w, v, c, r1, z)
        BY <1>10 DEF Again, r1, k, d
  <2> QED BY <1>2, <2>1, KnownKept DEF k
<1>11. CASE Refused(w, v, c, m.dpid)
  <2>1. PICK u \in Worlds : Known(w, u, c, r1) /\ Lost(u, v, c)
        BY <1>11 DEF Refused, r1, k, d
  <2>2. Kept(w, u, c) /\ u.toSwitch = w.toSwitch
        BY <1>2, <2>1, KnownKept DEF k
  <2>3. Kept(u, v, c)
        BY <2>1, QuietSteps, QuietKept
  <2> QED BY <2>2, <2>3, KeptTwice
<1>12. CASE Accepted(w, v, c, m.dpid)
  <2>1. PICK u \in Worlds :
          /\ Registered(w, u, c, r2, d)
          /\ v = u \/ Lost(u, v, c) \/ Sent(u, v, c, Append(Append(w.toSwitch[c], e), g))
        BY <1>12 DEF Accepted, r2, k, d, e, g
  <2>2. Kept(w, u, c) /\ u.toSwitch = w.toSwitch
        BY <1>2, <2>1, KnownKept DEF k
  <2>3. Kept(u, v, c)
    <3>1. CASE v = u \/ Lost(u, v, c)
          BY <3>1, QuietSteps, QuietKept
    <3>2. CASE Sent(u, v, c, Append(Append(w.toSwitch[c], e), g))
          BY <1>6, <2>2, <3>2, SentKept
    <3> QED BY <2>1, <3>1, <3>2
  <2> QED BY <2>2, <2>3, KeptTwice
<1> QED BY <1>7, <1>8, <1>9, <1>10, <1>11, <1>12 DEF Outcome

(* A message is read. *)
LEMMA ReadStats ==
    ASSUME HandInv, StatsInv, NEW c \in Conns, Read(c)
    PROVE  StatsInv'
<1> DEFINE m == Head(toCtl[c])
           T == toCtl[c]
<1>1. /\ World \in Worlds /\ toCtl \in [Conns -> Seq(Answers)] /\ con \in [Conns -> Fields]
      BY WorldFields DEF HandInv, Types, Worlds
<1>2. /\ con[c].state = "open" /\ T # <<>> /\ UNCHANGED <<peer, pending, flows, mixed, xid>>
      BY DEF Read
<1>3. /\ con[c] \in Fields /\ con[c].previous_stats \in Seq(Answers)
      /\ toSwitch[c] \in Seq(Demands) /\ pending[c] \in SUBSET Rests
      /\ T \in Seq(Answers) /\ xid \in Nat
      BY OwnTypes
<1>4. /\ m \in Answers /\ m = T[1]
      /\ m.t = "features_reply" => m.dpid \in Dpids
      /\ m.t = "barrier_reply" /\ con[c].barrier # 0 => m.xid = con[c].barrier
      BY <1>2, FirstMessage
<1>5. xid' \in Nat /\ xid <= xid' /\ xid' = xid /\ pending' = pending /\ mixed' = mixed
      BY <1>2, <1>3
<1>6. Tidy(con[c].previous_stats, toSwitch[c], pending[c], T, mixed[c], xid)
      /\ Given(delivered[c], mixed[c])
      BY <1>2 DEF StatsInv, Own
<1>7. ASSUME \A b \in Conns \ {c} :
               /\ con'[b].state = con[b].state
               /\ con'[b].previous_stats = con[b].previous_stats
               /\ toSwitch'[b] = toSwitch[b] /\ toCtl'[b] = toCtl[b]
               /\ delivered'[b] = delivered[b],
             Own(c)'
      PROVE  StatsInv'
  <2>1. \A b \in Conns \ {c} : Own(b)'
        BY <1>5, <1>7, OwnKept DEF StatsInv
  <2> QED BY <1>7, <2>1 DEF StatsInv
<1>8. CASE m.t = "garbage"
  <2>1. Becomes(close(World, c)) /\ toCtl' = [toCtl EXCEPT ![c] = <<>>]
        BY <1>8 DEF Read
  <2>2. /\ con' = [con EXCEPT ![c].state = "closed"]
        /\ toSwitch' = toSwitch /\ delivered' = delivered
        BY <2>1 DEF Becomes, close, World
  <2>3. con'[c].state = "closed" /\ \A b \in Conns \ {c} : con'[b] = con[b] /\ toCtl'[b] = toCtl[b]
        BY <1>1, <1>3, <2>1, <2>2 DEF Fields
  <2>4. Own(c)'
        BY <1>5, <1>6, <2>2, <2>3 DEF Own
  <2> QED BY <1>7, <2>2, <2>3, <2>4
<1>9. CASE m.t # "garbage"
  <2>1. PICK v \in Handled(World, c, m) : Becomes(v)
        BY <1>9 DEF Read
  <2>2. toCtl' = [toCtl EXCEPT ![c] = Tail(T)]
        BY <1>9 DEF Read
  <2>3. toCtl'[c] = Tail(T) /\ \A b \in Conns \ {c} : toCtl'[b] = toCtl[b]
        BY <1>1, <2>2
  <2>4. Outcome(World, v, c, m)
        BY <1>1, <1>2, <1>4, <2>1, HandledOutcome, WorldFields
  <2>5. con' = v.con /\ toSwitch' = v.toSwitch /\ delivered' = v.delivered
        BY <2>1 DEF Becomes
  <2> HIDE DEF m
  <2>6. CASE m.t # "stats_reply"
    <3>1. Kept(World, v, c)
          BY <1>1, <1>4, <2>4, <2>6, OutcomeKept
    <3>2. /\ \A b \in Conns : /\ con'[b].state = con[b].state
                              /\ con'[b].previous_stats = con[b].previous_stats
          /\ delivered' = delivered
          /\ \A b \in Conns \ {c} : toSwitch'[b] = toSwitch[b]
          /\ Pushed(toSwitch[c], toSwitch'[c])
          BY <2>5, <3>1, WorldFields DEF Kept
    <3>3. Tidy(con[c].previous_stats, toSwitch'[c], pending[c], T, mixed[c], xid)
          BY <1>3, <1>6, <3>2, TidyPushed
    <3>4. Tidy(con[c].previous_stats, toSwitch'[c], pending[c], Tail(T), mixed[c], xid)
          BY <1>2, <1>3, <1>4, <2>6, <3>3, TidySkip
    <3>5. Own(c)'
          BY <1>5, <1>6, <2>3, <3>2, <3>4 DEF Own
    <3> QED BY <1>7, <2>3, <3>2, <3>5
  <2>7. CASE m.t = "stats_reply"
    <3> DEFINE S == con[c].previous_stats
               S2 == v.con[c].previous_stats
    <3>1. Filed(World, v, c, m)
          BY <2>4, <2>7 DEF Outcome, Completes
    <3>2. Sorted(S, S2, delivered[c], v.delivered[c], m)
          BY <3>1, WorldFields DEF Filed, Sorted
    <3>3. /\ \A b \in Conns \ {c} : /\ v.con[b] = con[b] /\ v.toSwitch[b] = toSwitch[b]
                                    /\ v.delivered[b] = delivered[b]
          /\ v.toSwitch = toSwitch
      <4> DEFINE u == [World EXCEPT !.delivered = v.delivered]
      <4>1. u.con = con /\ u.toSwitch = toSwitch
            BY WorldFields DEF World
      <4>2. Known(u, v, c, [con[c] EXCEPT !.previous_stats = S2])
            BY <3>1, WorldFields DEF Filed
      <4>3. \A b \in Conns \ {c} : v.delivered[b] = delivered[b]
            BY <3>1, WorldFields DEF Filed
      <4> HIDE DEF u
      <4> QED BY <4>1, <4>2, <4>3 DEF Known, Others
    <3>4. Tidy(S2, toSwitch[c], pending[c], Tail(T), mixed[c], xid)
          BY <1>2, <1>3, <1>4, <1>6, <2>7, <3>2, SortedTidy
    <3>5. Given(v.delivered[c], mixed[c])
          BY <1>2, <1>3, <1>4, <1>6, <2>7, <3>2, SortedGiven
    <3>6. Own(c)'
          BY <1>5, <2>3, <2>5, <3>3, <3>4, <3>5 DEF Own
    <3> QED BY <1>7, <2>3, <2>5, <3>3, <3>6
  <2> QED BY <2>6, <2>7
<1> QED BY <1>8, <1>9

(* A connection is closed. *)
LEMMA ReadEndStats ==
    ASSUME HandInv, StatsInv, NEW c \in Conns, ReadEnd(c)
    PROVE  StatsInv'
<1>1. con \in [Conns -> Fields] /\ xid \in Nat
      BY WorldFields DEF HandInv, Types, Worlds
<1>2. /\ con' = [con EXCEPT ![c].state = "closed"]
      /\ UNCHANGED <<toSwitch, delivered, toCtl, pending, mixed, xid>>
      BY DEF ReadEnd, Becomes, close, World
<1>3. \A b \in Conns : /\ con'[b].state = "open" => con[b].state = "open"
                       /\ con'[b].previous_stats = con[b].previous_stats
      BY <1>1, <1>2 DEF Fields
<1>4. xid' \in Nat /\ xid <= xid'
      BY <1>1, <1>2
<1> QED BY <1>2, <1>3, <1>4, OwnKept DEF StatsInv

(* A component sends. *)
LEMMA ComponentStats ==
    ASSUME HandInv, StatsInv, NEW c \in Conns, NEW r \in Requests,
           xid' = xid + 1, NEW v \in send(World, c, [r EXCEPT !.xid = xid]), Becomes(v),
           UNCHANGED <<toCtl, peer, pending, flows, mixed>>
    PROVE  StatsInv'
<1> DEFINE m == [r EXCEPT !.xid = xid]
<1>1. /\ World \in Worlds /\ toSwitch \in [Conns -> Seq(Demands)]
      BY WorldFields DEF HandInv, Types, Worlds
<1>2. /\ con[c] \in Fields /\ con[c].previous_stats \in Seq(Answers)
      /\ toSwitch[c] \in Seq(Demands) /\ pending[c] \in SUBSET Rests
      /\ toCtl[c] \in Seq(Answers) /\ xid \in Nat
      BY OwnTypes
<1>3. m \in Demands /\ m.xid = xid
      BY <1>2, RequestType
<1> HIDE DEF m
<1>4. xid' \in Nat /\ xid <= xid'
      BY <1>2
<1>5. Quiet(World, v, c) \/ Sent(World, v, c, Append(toSwitch[c], m))
      BY <1>1, <1>3, SendOutcome, QuietSteps, WorldFields DEF m
<1>6. con' = v.con /\ toSwitch' = v.toSwitch /\ delivered' = v.delivered
      BY DEF Becomes
<1>7. CASE Quiet(World, v, c)
  <2>1. Kept(World, v, c) /\ v.toSwitch = toSwitch
        BY <1>1, <1>7, QuietKept, WorldFields
  <2>2. \A b \in Conns : /\ con'[b].state = con[b].state
                         /\ con'[b].previous_stats = con[b].previous_stats
        BY <1>6, <2>1, WorldFields DEF Kept
  <2>3. delivered' = delivered /\ toSwitch' = toSwitch
        BY <1>6, <2>1, WorldFields DEF Kept
  <2> QED BY <1>4, <2>2, <2>3, OwnKept DEF StatsInv
<1>8. CASE Sent(World, v, c, Append(toSwitch[c], m))
  <2>1. /\ con' = con /\ delivered' = delivered
        /\ toSwitch' = [toSwitch EXCEPT ![c] = Append(toSwitch[c], m)]
        BY <1>6, <1>8, WorldFields DEF Sent
  <2>2. toSwitch'[c] = Append(toSwitch[c], m)
        /\ \A b \in Conns \ {c} : toSwitch'[b] = toSwitch[b]
        BY <1>1, <2>1
  <2>3. \A b \in Conns \ {c} : Own(b)'
        BY <1>4, <2>1, <2>2, OwnKept DEF StatsInv
  <2>4. Own(c)'
    <3>1. con[c].state = "open" => Tidy(con[c].previous_stats, Append(toSwitch[c], m),
                                        pending[c], toCtl[c], mixed[c], xid + 1)
          BY <1>2, <1>3, TidyAsk DEF StatsInv, Own
    <3> QED BY <2>1, <2>2, <3>1 DEF StatsInv, Own
  <2> QED BY <2>3, <2>4 DEF StatsInv
<1> QED BY <1>5, <1>7, <1>8

(* A component sends, to a connection or by dpid. *)
LEMMA ComponentsStats ==
    ASSUME HandInv, StatsInv, NEW r \in Requests,
           (\E c \in Conns : ComponentSend(c, r)) \/ (\E d \in Dpids : sendToDPID(d, r))
    PROVE  StatsInv'
<1>1. nexus \in Tables
      BY WorldFields DEF HandInv, Types, Worlds
<1>2. ASSUME NEW c \in Conns, ComponentSend(c, r)
      PROVE  StatsInv'
      BY <1>2, ComponentStats DEF ComponentSend
<1>3. ASSUME NEW d \in Dpids, sendToDPID(d, r)
      PROVE  StatsInv'
  <2>1. nexus[d] \in Conns
        BY <1>1, <1>3, TableHas DEF sendToDPID
  <2> QED BY <1>3, <2>1, ComponentStats DEF sendToDPID
<1> QED BY <1>2, <1>3

(* The controller goes down. *)
LEMMA DownStats ==
    ASSUME HandInv, StatsInv, _handle_DownEvent
    PROVE  StatsInv'
<1> DEFINE all == Range(nexus)
           one(c) == disconnect(World, c)
<1>1. World \in Worlds /\ con \in [Conns -> Fields] /\ xid \in Nat
      BY WorldFields DEF HandInv, Types, Worlds
<1>2. /\ con' = [c \in Conns |-> IF c \in all THEN one(c).con[c] ELSE con[c]]
      /\ UNCHANGED <<toSwitch, delivered, toCtl, pending, mixed, xid>>
      BY DEF _handle_DownEvent
<1> HIDE DEF all
<1>3. \A c \in Conns : /\ one(c).con[c].state = con[c].state
                       /\ one(c).con[c].previous_stats = con[c].previous_stats
  <2>1. \A c \in Conns : Quiet(World, one(c), c)
        BY <1>1, DisconnectLoses, QuietSteps
  <2> HIDE DEF one
  <2> QED BY <1>1, <2>1, QuietKept, WorldFields DEF Kept
<1> HIDE DEF one
<1>4. \A c \in Conns : /\ con'[c].state = con[c].state
                       /\ con'[c].previous_stats = con[c].previous_stats
      BY <1>2, <1>3
<1>5. xid' \in Nat /\ xid <= xid'
      BY <1>1, <1>2
<1> QED BY <1>2, <1>4, <1>5, OwnKept DEF StatsInv

(* A switch takes a request. *)
LEMMA PeerStepStats ==
    ASSUME HandInv, StatsInv, NEW c \in Conns, PeerStep(c)
    PROVE  StatsInv'
<1> DEFINE m == Head(toSwitch[c])
           r == [xid |-> m.xid, type |-> m.type, part |-> 1]
           S == con[c].previous_stats
<1>1. /\ Types /\ toSwitch \in [Conns -> Seq(Demands)] /\ pending \in [Conns -> SUBSET Rests]
      BY WorldFields DEF HandInv, Types, Worlds
<1>2. /\ peer[c].up /\ toSwitch[c] # <<>>
      /\ \E a \in Replies(c, m) : toCtl' = [toCtl EXCEPT ![c] = toCtl[c] \o a]
      /\ toSwitch' = [toSwitch EXCEPT ![c] = Tail(toSwitch[c])]
      /\ pending' = IF m.t # "stats_request" THEN pending
                    ELSE [pending EXCEPT ![c] = pending[c] \union {r}]
      /\ UNCHANGED <<con, delivered, mixed, xid>>
      BY DEF PeerStep
<1>3. /\ S \in Seq(Answers) /\ toSwitch[c] \in Seq(Demands) /\ pending[c] \in SUBSET Rests
      /\ toCtl[c] \in Seq(Answers) /\ xid \in Nat
      BY OwnTypes
<1>4. m \in Demands /\ m = toSwitch[c][1]
      BY <1>2, <1>3, TailOf
<1>5. Answers1(c, m) /\ \A b \in Conns \ {c} : toCtl'[b] = toCtl[b]
      BY <1>1, <1>2, <1>4, RepliesOf
<1>6. toSwitch'[c] = Tail(toSwitch[c]) /\ \A b \in Conns \ {c} : toSwitch'[b] = toSwitch[b]
      BY <1>1, <1>2
<1>7. r \in Rests /\ r.xid = m.xid /\ r.part = 1
      BY <1>4 DEF Demands, Rests
<1> HIDE DEF m, r
<1>8. /\ \A b \in Conns \ {c} : pending'[b] = pending[b]
      /\ m.t # "stats_request" => pending'[c] = pending[c]
      /\ m.t = "stats_request" => pending'[c] = pending[c] \union {r}
      BY <1>1, <1>2
<1>9. xid' = xid /\ xid' \in Nat /\ xid <= xid'
      BY <1>2, <1>3
<1>10. \A b \in Conns \ {c} : Own(b)'
       BY <1>2, <1>5, <1>6, <1>8, <1>9, OwnKept DEF StatsInv
<1>11. ASSUME con[c].state = "open"
       PROVE  Tidy(S, Tail(toSwitch[c]), pending'[c], toCtl'[c], mixed[c], xid)
  <2>1. Tidy(S, toSwitch[c], pending[c], toCtl[c], mixed[c], xid)
        BY <1>11 DEF StatsInv, Own
  <2>2. Tidy(S, Tail(toSwitch[c]), pending'[c], toCtl[c], mixed[c], xid)
    <3>1. CASE m.t = "stats_request"
      <4>1. toSwitch[c][1].t = "stats_request" /\ r.xid = toSwitch[c][1].xid
            BY <1>4, <1>7, <3>1
      <4>2. Tidy(S, Tail(toSwitch[c]), pending[c] \union {r}, toCtl[c], mixed[c], xid)
            BY <1>2, <1>3, <1>7, <2>1, <4>1, TidyTake
      <4> QED BY <1>8, <3>1, <4>2
    <3>2. CASE m.t # "stats_request"
          BY <1>2, <1>3, <1>8, <2>1, <3>2, TidyPop
    <3> QED BY <3>1, <3>2
  <2>3. \/ toCtl'[c] = toCtl[c]
        \/ \E a \in Answers : a.t # "stats_reply" /\ toCtl'[c] = Append(toCtl[c], a)
        BY <1>5 DEF Answers1
  <2> QED BY <1>3, <2>2, <2>3, TidySays
<1>12. Own(c)'
       BY <1>2, <1>6, <1>9, <1>11 DEF StatsInv, Own
<1> QED BY <1>10, <1>12 DEF StatsInv

(* A switch sends a part of a stats reply. *)
LEMMA PeerStatsStats ==
    ASSUME HandInv, Marked, StatsInv, NEW c \in Conns, NEW p, PeerStats(c, p)
    PROVE  StatsInv'
<1> DEFINE a == [Answer("stats_reply", p.xid, NoDpid) EXCEPT
                   !.type = p.type, !.part = p.part, !.more = p.part < Parts]
           q == [p EXCEPT !.part = p.part + 1]
           O == (pending[c] \ {p}) \union (IF p.part < Parts THEN {q} ELSE {})
           N == mixed[c] \union {z.xid : z \in {z \in pending[c] : z # p /\ z.part > 1}}
           S == con[c].previous_stats
<1>1. /\ S \in Seq(Answers) /\ toSwitch[c] \in Seq(Demands) /\ pending[c] \in SUBSET Rests
      /\ toCtl[c] \in Seq(Answers) /\ xid \in Nat
      BY OwnTypes
<1>2. /\ p \in pending[c]
      /\ toCtl' = [toCtl EXCEPT ![c] = Append(toCtl[c], a)]
      /\ pending' = [pending EXCEPT ![c] = O]
      /\ mixed' = [mixed EXCEPT ![c] = N]
      /\ UNCHANGED <<con, toSwitch, delivered, xid>>
      BY DEF PeerStats, ctlVars
<1>3. p \in Rests /\ p.xid \in Int /\ NoDpid \in Names /\ p.part \in Nat /\ p.type \in StatsNames
      BY <1>1, <1>2 DEF Rests, Names
<1>4. a \in Answers /\ IsPart(a, p.xid) /\ a.part = p.part /\ a.type = p.type
      /\ (a.more <=> p.part < Parts)
  <2> DEFINE z == Answer("stats_reply", p.xid, NoDpid)
  <2>1. z \in Answers /\ z.t = "stats_reply" /\ z.xid = p.xid
        BY <1>3, AnswerType DEF Said
  <2>2. (p.part < Parts) \in BOOLEAN
        OBVIOUS
  <2> HIDE DEF z
  <2>3. ASSUME NEW h \in BOOLEAN
        PROVE  LET n == [z EXCEPT !.type = p.type, !.part = p.part, !.more = h]
               IN  n \in Answers /\ n.t = "stats_reply" /\ n.xid = p.xid /\ n.part = p.part
                   /\ n.type = p.type /\ n.more = h
        BY <1>3, <2>1 DEF Answers
  <2>4. a \in Answers /\ a.t = "stats_reply" /\ a.xid = p.xid /\ a.part = p.part
        /\ a.type = p.type /\ a.more = (p.part < Parts)
        BY <2>2, <2>3 DEF z
  <2> HIDE DEF a
  <2> QED BY <2>4 DEF IsPart
<1>5. q.xid = p.xid /\ q.part = p.part + 1 /\ q.type = p.type
      BY <1>3 DEF Rests
<1> HIDE DEF a, q
<1>6. /\ toCtl \in [Conns -> Seq(Answers)] /\ pending \in [Conns -> SUBSET Rests]
      /\ mixed = [b \in Conns |-> mixed[b]]
      BY DEF HandInv, Types, Marked
<1>7. /\ toCtl'[c] = Append(toCtl[c], a) /\ pending'[c] = O /\ mixed'[c] = N
      /\ \A b \in Conns \ {c} :
           toCtl'[b] = toCtl[b] /\ pending'[b] = pending[b] /\ mixed'[b] = mixed[b]
      BY <1>2, <1>6
<1>8. xid' = xid /\ xid' \in Nat /\ xid <= xid'
      BY <1>1, <1>2
<1>9. \A b \in Conns \ {c} : Own(b)'
      BY <1>2, <1>7, <1>8, OwnKept DEF StatsInv
<1>10. ASSUME con[c].state = "open"
       PROVE  Tidy(S, toSwitch[c], O, Append(toCtl[c], a), N, xid)
  <2>1. Tidy(S, toSwitch[c], pending[c], toCtl[c], mixed[c], xid)
        BY <1>10 DEF StatsInv, Own
  <2>2. \A r \in O : \/ r \in pending[c] \ {p}
                     \/ p.part < Parts /\ r = q
        OBVIOUS
  <2>3. \A r \in pending[c] \ {p} : r.xid # p.xid
        BY <1>2, <2>1 DEF Tidy, Unfinished
  <2> HIDE DEF O
  <2>4. \A r \in O : \/ r \in pending[c] \ {p}
                     \/ /\ p.part < Parts /\ r.xid = p.xid /\ r.part = p.part + 1
                        /\ r.type = p.type
        BY <1>5, <2>2
  <2>5. \A r, s \in O : r.xid = p.xid /\ s.xid = p.xid => r = s
        BY <2>2, <2>3
  <2>6. mixed[c] \subseteq N /\ \A r \in pending[c] \ {p} : r.part > 1 => r.xid \in N
        OBVIOUS
  <2> HIDE DEF N
  <2> QED BY <1>1, <1>2, <1>4, <2>1, <2>4, <2>5, <2>6, TidyPart
<1>11. Given(delivered[c], N)
  <2>1. Given(delivered[c], mixed[c]) /\ mixed[c] \subseteq N
        BY DEF StatsInv, Own
  <2> QED BY <2>1 DEF Given
<1> HIDE DEF N
<1>12. Own(c)'
       BY <1>2, <1>7, <1>8, <1>10, <1>11 DEF Own
<1> QED BY <1>9, <1>12 DEF StatsInv

(* A switch says something on its own. *)
LEMMA PeerAsyncStats ==
    ASSUME HandInv, StatsInv, NEW c \in Conns, NEW kind \in AsyncKinds, PeerAsync(c, kind)
    PROVE  StatsInv'
<1> DEFINE a == Answer(kind, 0, NoDpid)
           S == con[c].previous_stats
<1>1. /\ S \in Seq(Answers) /\ toSwitch[c] \in Seq(Demands) /\ pending[c] \in SUBSET Rests
      /\ toCtl[c] \in Seq(Answers) /\ xid \in Nat
      BY OwnTypes
<1>2. /\ toCtl' = [toCtl EXCEPT ![c] = Append(toCtl[c], a)] /\ xid' = xid + 1
      /\ UNCHANGED <<con, toSwitch, delivered, mixed, pending>>
      BY DEF PeerAsync, ctlVars
<1>3. a \in Answers /\ a.t # "stats_reply"
  <2>1. kind \in Said /\ kind # "stats_reply"
        BY ConnectionAssumption DEF Said, Unsolicited
  <2>2. NoDpid \in Names /\ 0 \in Int
        BY DEF Names
  <2> QED BY <2>1, <2>2, AnswerType
<1> HIDE DEF a
<1>4. toCtl \in [Conns -> Seq(Answers)]
      BY DEF HandInv, Types
<1>5. toCtl'[c] = Append(toCtl[c], a) /\ \A b \in Conns \ {c} : toCtl'[b] = toCtl[b]
      BY <1>2, <1>4
<1>6. xid' \in Nat /\ xid <= xid'
      BY <1>1, <1>2
<1>7. Append(toCtl[c], a) \in Seq(Answers)
      BY <1>1, <1>3, AppendOf
<1>8. \A b \in Conns \ {c} : Own(b)'
      BY <1>2, <1>5, <1>6, OwnKept DEF StatsInv
<1>9. ASSUME con[c].state = "open"
      PROVE  Tidy(S, toSwitch[c], pending[c], Append(toCtl[c], a), mixed[c], xid')
  <2>1. Tidy(S, toSwitch[c], pending[c], toCtl[c], mixed[c], xid)
        BY <1>9 DEF StatsInv, Own
  <2>2. Tidy(S, toSwitch[c], pending[c], Append(toCtl[c], a), mixed[c], xid)
        BY <1>1, <1>3, <2>1, TidySays
  <2> QED BY <1>1, <1>6, <1>7, <2>2, TidyLater
<1>10. Own(c)'
       BY <1>2, <1>5, <1>9 DEF StatsInv, Own
<1> QED BY <1>8, <1>10 DEF StatsInv

(* A switch hangs up. *)
LEMMA HangUpStats ==
    ASSUME HandInv, StatsInv, NEW c \in Conns, PeerHangsUp(c)
    PROVE  StatsInv'
<1>1. /\ toSwitch \in [Conns -> Seq(Demands)] /\ pending \in [Conns -> SUBSET Rests] /\ xid \in Nat
      BY WorldFields DEF HandInv, Types, Worlds
<1>2. /\ toSwitch' = [toSwitch EXCEPT ![c] = <<>>] /\ pending' = [pending EXCEPT ![c] = {}]
      /\ UNCHANGED <<con, delivered, mixed, toCtl, xid>>
      BY DEF PeerHangsUp
<1>3. /\ toSwitch'[c] = <<>> /\ pending'[c] = {}
      /\ \A b \in Conns \ {c} : toSwitch'[b] = toSwitch[b] /\ pending'[b] = pending[b]
      BY <1>1, <1>2
<1>4. xid' \in Nat /\ xid <= xid'
      BY <1>1, <1>2
<1>5. \A b \in Conns \ {c} : Own(b)'
      BY <1>2, <1>3, <1>4, OwnKept DEF StatsInv
<1>6. con[c].state = "open" =>
        Tidy(con[c].previous_stats, <<>>, {}, toCtl[c], mixed[c], xid)
      BY TidyGone DEF StatsInv, Own
<1>7. Own(c)'
      BY <1>2, <1>3, <1>6 DEF StatsInv, Own
<1> QED BY <1>5, <1>7 DEF StatsInv

(* A connection is accepted. *)
LEMMA AcceptStats ==
    ASSUME HandInv, StatsInv, NEW c \in Conns, NEW d \in Dpids, Accept(c, d)
    PROVE  StatsInv'
<1> DEFINE m == Answer("hello", 0, NoDpid)
<1>1. /\ con \in [Conns -> Fields] /\ toCtl \in [Conns -> Seq(Answers)] /\ xid \in Nat
      BY WorldFields DEF HandInv, Types, Worlds
<1>2. /\ con[c].state = "unused" /\ con' = [con EXCEPT ![c].state = "open"]
      /\ toCtl' = [toCtl EXCEPT ![c] = <<m>>]
      /\ UNCHANGED <<toSwitch, delivered, mixed, pending, xid>>
      BY DEF Accept
<1>3. con[c] = Unused /\ toSwitch[c] = <<>> /\ pending[c] = {}
      BY <1>2 DEF HandInv, Local, Ends
<1>4. m.t # "stats_reply"
      BY DEF Answer
<1> HIDE DEF m
<1>5. /\ toCtl'[c] = <<m>> /\ \A b \in Conns \ {c} : toCtl'[b] = toCtl[b] /\ con'[b] = con[b]
      /\ con'[c].previous_stats = <<>>
      BY <1>1, <1>2, <1>3 DEF Fields, Unused
<1>6. xid' \in Nat /\ xid <= xid'
      BY <1>1, <1>2
<1>7. \A b \in Conns \ {c} : Own(b)'
      BY <1>2, <1>5, <1>6, OwnKept DEF StatsInv
<1>8. Tidy(<<>>, <<>>, {}, <<m>>, mixed[c], xid)
      BY <1>4 DEF Tidy, Collected, Asked, Unfinished, Unread
<1>9. Own(c)'
      BY <1>2, <1>3, <1>5, <1>8 DEF StatsInv, Own
<1> QED BY <1>7, <1>9 DEF StatsInv

(* The record of interleaved replies has an entry for every connection. *)
LEMMA NextMarked == Marked /\ [Next]_vars => Marked'
<1> SUFFICES ASSUME Marked, [Next]_vars, ~ UNCHANGED mixed
             PROVE  Marked'
    BY DEF Marked
<1>0. PICK c \in Conns : \E p \in pending[c] : PeerStats(c, p)
      BY DEF Next, Step, vars, Accept, Read, ReadEnd, ComponentSend, sendToDPID,
             _handle_DownEvent, PeerStep, PeerHangsUp, PeerAsync
<1>1. PICK p \in pending[c] : PeerStats(c, p)
      BY <1>0
<1> DEFINE N == mixed[c] \union {z.xid : z \in {z \in pending[c] : z # p /\ z.part > 1}}
<1>2. mixed' = [mixed EXCEPT ![c] = N]
      BY <1>1 DEF PeerStats
<1> HIDE DEF N
<1> QED BY <1>2 DEF Marked

(* Every step keeps the invariant of the statistics. *)
LEMMA NextStats == HandInv /\ Marked /\ StatsInv /\ [Next]_vars => StatsInv'
<1> SUFFICES ASSUME HandInv, Marked, StatsInv, [Next]_vars
             PROVE  StatsInv'
    OBVIOUS
<1>1. CASE \E c \in Conns, d \in Dpids : Accept(c, d)
      BY <1>1, AcceptStats
<1>2. CASE \E c \in Conns : Read(c) \/ ReadEnd(c)
      BY <1>2, ReadStats, ReadEndStats
<1>3. CASE \E c \in Conns, r \in Requests : ComponentSend(c, r)
      BY <1>3, ComponentsStats
<1>4. CASE \E d \in Dpids, r \in Requests : sendToDPID(d, r)
      BY <1>4, ComponentsStats
<1>5. CASE _handle_DownEvent
      BY <1>5, DownStats
<1>6. CASE \E c \in Conns : PeerStep(c) \/ PeerHangsUp(c)
      BY <1>6, PeerStepStats, HangUpStats
<1>7. CASE \E c \in Conns : \E p \in pending[c] : PeerStats(c, p)
      BY <1>7, PeerStatsStats
<1>8. CASE \E c \in Conns, kind \in AsyncKinds : PeerAsync(c, kind)
      BY <1>8, PeerAsyncStats
<1>9. CASE UNCHANGED vars
  <2>1. UNCHANGED <<con, toSwitch, delivered, mixed, toCtl, pending, xid>>
        BY <1>9 DEF vars, ctlVars
  <2> QED BY <2>1 DEF StatsInv, Own
<1> QED BY <1>1, <1>2, <1>3, <1>4, <1>5, <1>6, <1>7, <1>8, <1>9 DEF Next, Step

(* What a stats handler gets are parts of one reply of the switch, in      *)
(* order and up to its last part, and all of them unless the switch sent a *)
(* part of another reply between them, for any number of parts and of      *)
(* replies.                                                                *)
THEOREM StatsSafety == Spec => []StatsOfOneReply
<1>1. Init => StatsInv
  <2> SUFFICES ASSUME Init, NEW c \in Conns
               PROVE  Own(c)
      BY DEF StatsInv
  <2>1. con[c].state # "open" /\ delivered[c] = {}
        BY DEF Init, Unused
  <2> QED BY <2>1 DEF Own, Given
<1>2. StatsInv => StatsOfOneReply
      BY DEF StatsInv, Own, Given, StatsOfOneReply, PartsOfOneReply, StatsWhole
<1>3. Init => Marked
      BY DEF Init, Marked
<1> QED BY <1>1, <1>2, <1>3, InitHand, NextHand, NextMarked, NextStats, PTL DEF Spec
================================================================================
