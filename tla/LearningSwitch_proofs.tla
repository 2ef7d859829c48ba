----------------------- MODULE LearningSwitch_proofs -----------------------
(* The controllers of the software switch and their roles, for any number of  *)
(* connections, ports, packets and flow modifications: RolesKept.             *)
EXTENDS LearningSwitch, FiniteSetTheorems, SequenceTheorems, TLAPS

Connected(c) == c \in ToSet(connections)

(* The tables have an entry for each connection. *)
TablesOK ==
    /\ connections \in Seq(Conns)
    /\ role = [c \in Conns |-> role[c]]
    /\ toSwitch = [c \in Conns |-> toSwitch[c]]
    /\ toController = [c \in Conns |-> toController[c]]

(* Only a connected controller is written to, writes or is master. *)
Reached(c) ==
    /\ toSwitch[c] # <<>> \/ toController[c] # <<>> => Connected(c)
    /\ role[c] = "master" => Connected(c)

OneMaster == \A c, d \in Conns : role[c] = "master" /\ role[d] = "master" => c = d

(* A connection is left in action only by a handler that raised. *)
ActionEnds == in_action # NoConn => in_action \in Conns /\ Connected(in_action) /\ raised

RoleInv == TablesOK /\ (\A c \in Conns : Reached(c)) /\ OneMaster /\ ActionEnds

(* The controller of c is sent nothing: its queue stays or loses its head. *)
NotSent(c) ==
    \/ toController'[c] = toController[c]
    \/ toController[c] # <<>> /\ toController'[c] = Tail(toController[c])

-----------------------------------------------------------------------------
(* Who is written to. *)

(* The positions of a controller in the list of connections. *)
LEMMA ListFacts ==
    ASSUME TablesOK
    PROVE  /\ \A k \in DOMAIN connections : connections[k] \in Conns /\ Connected(connections[k])
           /\ \A c : Connected(c) => c \in Conns
<1>1. /\ connections \in Seq(Conns) /\ DOMAIN connections = 1 .. Len(connections)
  BY DEF TablesOK
<1>2. \A c : Connected(c) <=> \E k \in DOMAIN connections : connections[k] = c
  BY DEF Connected, ToSet
<1> QED BY <1>1, <1>2

(* A message goes to the connection in action or, without one, to a          *)
(* connected controller that is no slave.                                    *)
LEMMA ReceiverFacts ==
    ASSUME TablesOK, NEW a, NEW i, NEW c \in Receiver(a, i)
    PROVE  IF a # NoConn THEN c = a ELSE Connected(c) /\ role[c] \in {"master", "other"}
<1>1. ASSUME NEW r, NEW n, NEW d \in At(WithRole(r), n) PROVE Connected(d) /\ role[d] = r
  <2>1. PICK k \in WithRole(r) : connections[k] = d
    BY <1>1 DEF At
  <2> QED BY <2>1, ListFacts DEF WithRole
<1>2. CASE a # NoConn
  BY <1>2 DEF Receiver
<1>3. CASE a = NoConn
  BY <1>1, <1>3 DEF Receiver
<1> QED BY <1>2, <1>3

(* What send() does to the queue of a controller. *)
LEMMA SendFacts ==
    ASSUME TablesOK, NEW a, NEW msgs, send(a, msgs)
    PROVE  /\ toController' = [c \in Conns |-> toController'[c]]
           /\ \A c \in Conns :
                 \/ toController'[c] = toController[c]
                 \/ /\ DOMAIN msgs # {}
                    /\ IF a # NoConn THEN c = a
                                     ELSE Connected(c) /\ role[c] \in {"master", "other"}
<1> DEFINE share(c) == {i \in DOMAIN msgs : c \in Receiver(a, i)}
<1>1. toController' = [c \in Conns |-> IF share(c) = {} THEN toController[c]
                                       ELSE toController[c] \o Picked(msgs, share(c))]
  BY DEF send
<1>2. ASSUME NEW c \in Conns, toController'[c] # toController[c]
      PROVE  /\ DOMAIN msgs # {}
             /\ IF a # NoConn THEN c = a ELSE Connected(c) /\ role[c] \in {"master", "other"}
  <2>1. share(c) # {}
    BY <1>1, <1>2
  <2>2. PICK i \in DOMAIN msgs : c \in Receiver(a, i)
    BY <2>1
  <2> QED BY <2>2, ReceiverFacts
<1> QED BY <1>1, <1>2

(* A slave's message is refused or has no answer. *)
LEMMA SlaveFacts ==
    ASSUME NEW c, NEW m, role[c] = "slave"
    PROVE  DOMAIN (IF check_rights(c, m) THEN Handle(m) ELSE Nothing(packet_buffer)).ins = {}
<1>1. DOMAIN Nothing(packet_buffer).ins = {}
  BY DEF Nothing
<1>2. ASSUME check_rights(c, m) PROVE Handle(m) = Nothing(packet_buffer)
  <2>1. m.type # "flow_mod" /\ m.type # "packet_out"
    BY <1>2 DEF check_rights
  <2> QED BY <2>1 DEF Handle
<1> QED BY <1>1, <1>2

-----------------------------------------------------------------------------
(* The steps.  Quiet steps leave the controllers alone. *)
Quiet == UNCHANGED <<connections, role, in_action, toSwitch, toController, raised>>

(* Connections are never forgotten. *)
LEMMA StillConnected ==
    ASSUME UNCHANGED connections PROVE \A c : Connected(c)' <=> Connected(c)
BY DEF Connected

(* A quiet step. *)
LEMMA QuietStep == ASSUME RoleInv, Quiet PROVE RoleInv' /\ SlavesSpared
<1>1. RoleInv'
  BY DEF RoleInv, Quiet, TablesOK, Reached, OneMaster, ActionEnds, Connected
<1>2. SlavesSpared
  BY DEF Quiet, SlavesSpared, IsSent
<1> QED BY <1>1, <1>2

(* A controller connects, as an equal. *)
LEMMA ConnectStep ==
    ASSUME RoleInv, NEW c \in Conns, add_connection(c)
    PROVE  RoleInv' /\ SlavesSpared
<1>1. /\ TablesOK /\ connections \in Seq(Conns) /\ connections' = Append(connections, c)
      /\ role' = [role EXCEPT ![c] = "other"]
      /\ UNCHANGED <<in_action, toSwitch, toController, raised>>
  BY DEF RoleInv, TablesOK, add_connection
<1>2. connections' \in Seq(Conns) /\ Len(connections') = Len(connections) + 1
  BY <1>1
<1>3. ASSUME NEW d, Connected(d) PROVE Connected(d)'
  <2>1. PICK k \in 1 .. Len(connections) : connections[k] = d
    BY <1>1, <1>3 DEF Connected, ToSet
  <2>2. k \in 1 .. Len(connections') /\ connections'[k] = d
    BY <1>1, <1>2, <2>1
  <2> QED BY <1>2, <2>2 DEF Connected, ToSet
<1>4. /\ role' = [d \in Conns |-> role'[d]]
      /\ role'[c] = "other"
      /\ \A d \in Conns : d # c => role'[d] = role[d]
  BY <1>1 DEF TablesOK
<1>5. TablesOK'
  BY <1>1, <1>2, <1>4 DEF TablesOK
<1>6. ASSUME NEW d \in Conns PROVE Reached(d)'
  BY <1>1, <1>3, <1>4 DEF RoleInv, Reached
<1>7. OneMaster'
  BY <1>4 DEF RoleInv, OneMaster
<1>8. ActionEnds'
  BY <1>1, <1>3 DEF RoleInv, ActionEnds
<1>9. SlavesSpared
  BY <1>1 DEF SlavesSpared, IsSent
<1> QED BY <1>5, <1>6, <1>7, <1>8, <1>9 DEF RoleInv

(* A controller that is connected sends, and may take a packet_in off its    *)
(* queue first.                                                              *)
LEMMA ControllerStep ==
    ASSUME RoleInv, NEW c \in Conns, Connected(c), NEW q,
           UNCHANGED <<connections, role, in_action, raised>>,
           toSwitch' = [toSwitch EXCEPT ![c] = q],
           \/ UNCHANGED toController
           \/ toController[c] # <<>> /\ toController' = [toController EXCEPT ![c] = Tail(@)]
    PROVE  RoleInv' /\ SlavesSpared
<1>1. TablesOK
  BY DEF RoleInv
<1>2. /\ toController' = [d \in Conns |-> toController'[d]]
      /\ toSwitch' = [d \in Conns |-> toSwitch'[d]]
  BY <1>1 DEF TablesOK
<1>3. \A d \in Conns : d # c => toController'[d] = toController[d] /\ toSwitch'[d] = toSwitch[d]
  BY <1>1 DEF TablesOK
<1>4. NotSent(c)
  BY <1>1 DEF TablesOK, NotSent
<1>5. TablesOK' /\ OneMaster' /\ ActionEnds'
  BY <1>1, <1>2 DEF RoleInv, TablesOK, OneMaster, ActionEnds, Connected
<1>6. ASSUME NEW d \in Conns PROVE Reached(d)'
  BY <1>3, StillConnected DEF RoleInv, Reached
<1>7. SlavesSpared
  BY <1>3, <1>4 DEF SlavesSpared, IsSent, NotSent
<1> QED BY <1>5, <1>6, <1>7 DEF RoleInv

(* The components of the controllers. *)
LEMMA ComponentStep ==
    ASSUME RoleInv, NEW c \in Conns,
           \/ _handle_PacketIn(c) \/ (\E expired \in BOOLEAN : _handle_PacketIn_l3(c, expired))
           \/ (\E fm \in AdminMods : SendMod(c, fm)) \/ (\E r : SendRole(c, r))
    PROVE  RoleInv' /\ SlavesSpared
<1>1. Reached(c)
  BY DEF RoleInv
<1>2. /\ Connected(c) /\ UNCHANGED <<connections, role, in_action, raised>>
      /\ \E q : toSwitch' = [toSwitch EXCEPT ![c] = q]
      /\ \/ UNCHANGED toController
         \/ toController[c] # <<>> /\ toController' = [toController EXCEPT ![c] = Tail(@)]
  <2>1. CASE _handle_PacketIn(c)
    BY <1>1, <2>1 DEF _handle_PacketIn, Reached
  <2>2. CASE \E expired \in BOOLEAN : _handle_PacketIn_l3(c, expired)
    BY <1>1, <2>2 DEF _handle_PacketIn_l3, Reached
  <2>3. CASE \E fm \in AdminMods : SendMod(c, fm)
    BY <2>3 DEF SendMod, Connected
  <2>4. CASE \E r : SendRole(c, r)
    BY <2>4 DEF SendRole, Connected
  <2> QED BY <2>1, <2>2, <2>3, <2>4
<1> QED BY <1>2, ControllerStep

(* A packet arrives: who is in action gets what is sent, which is nobody      *)
(* unless a handler raised.                                                   *)
LEMMA PacketStep ==
    ASSUME RoleInv, NEW p, NEW in_port, process_packet(p, in_port)
    PROVE  RoleInv' /\ SlavesSpared
<1>1. TablesOK /\ ActionEnds
  BY DEF RoleInv
<1>2. PICK s : Finish(s, in_action)
  BY DEF process_packet
<1>3. UNCHANGED <<connections, role, in_action, toSwitch>>
  BY DEF process_packet
<1>4. send(in_action, s.ins) /\ raised' = (raised \/ s.raised)
  BY <1>2 DEF Finish
<1>5. /\ toController' = [c \in Conns |-> toController'[c]]
      /\ \A c \in Conns :
            \/ toController'[c] = toController[c]
            \/ IF in_action # NoConn THEN c = in_action
                                     ELSE Connected(c) /\ role[c] \in {"master", "other"}
  BY <1>1, <1>4, SendFacts
<1>6. \A c \in Conns : toController'[c] # toController[c] => Connected(c)
  BY <1>1, <1>5 DEF ActionEnds
<1>7. TablesOK' /\ OneMaster'
  BY <1>1, <1>3, <1>5 DEF RoleInv, TablesOK, OneMaster
<1>8. ActionEnds'
  BY <1>1, <1>3, <1>4, StillConnected DEF ActionEnds
<1>9. ASSUME NEW c \in Conns PROVE Reached(c)'
  BY <1>3, <1>6, StillConnected DEF RoleInv, Reached
<1>10. SlavesSpared
  BY <1>1, <1>5 DEF SlavesSpared, IsSent, ActionEnds
<1> QED BY <1>7, <1>8, <1>9, <1>10 DEF RoleInv

(* set_role(): a new master degrades every connected controller. *)
LEMMA RoleFacts ==
    ASSUME RoleInv, NEW c \in Conns, Connected(c), NEW r
    PROVE  /\ \A d \in Conns : set_role(c, r)[d] = "master" => Connected(d)
           /\ \A d, e \in Conns :
                 set_role(c, r)[d] = "master" /\ set_role(c, r)[e] = "master" => d = e
<1>1. \A d \in Conns : set_role(c, r)[d] = IF d = c THEN r
                                           ELSE IF r = "master" /\ Connected(d) THEN "slave"
                                           ELSE role[d]
  BY DEF set_role, Connected
<1>2. /\ \A d \in Conns : role[d] = "master" => Connected(d)
      /\ \A d, e \in Conns : role[d] = "master" /\ role[e] = "master" => d = e
  BY DEF RoleInv, Reached, OneMaster
<1>3. CASE r = "master"
  BY <1>1, <1>2, <1>3
<1>4. CASE r # "master"
  BY <1>1, <1>2, <1>4
<1> QED BY <1>3, <1>4

(* The switch handles a message. *)
LEMMA ReceiveStep ==
    ASSUME RoleInv, NEW c \in Conns, Receive(c)
    PROVE  RoleInv' /\ SlavesSpared
<1> DEFINE m == Head(toSwitch[c])
           s == IF check_rights(c, m) THEN Handle(m) ELSE Nothing(packet_buffer)
<1>1. TablesOK /\ Connected(c) /\ c # NoConn
  BY SwitchAssumption DEF RoleInv, Reached, Receive
<1>2. /\ send(c, s.ins) /\ raised' = (raised \/ s.raised)
      /\ in_action' = IF s.raised THEN c ELSE NoConn
      /\ role' = IF m.type = "role_request" THEN set_role(c, m.role) ELSE role
      /\ toSwitch' = [toSwitch EXCEPT ![c] = Tail(@)]
      /\ UNCHANGED connections
  BY DEF Receive, Finish
<1>3. role[c] = "slave" => DOMAIN s.ins = {}
  BY SlaveFacts
<1> HIDE DEF s, m
<1>4. /\ toController' = [d \in Conns |-> toController'[d]]
      /\ \A d \in Conns : toController'[d] # toController[d] => d = c /\ role[c] # "slave"
  BY <1>1, <1>2, <1>3, SendFacts
<1>5. role' = [d \in Conns |-> role'[d]]
  BY <1>1, <1>2 DEF TablesOK, set_role
<1>6. /\ toSwitch' = [d \in Conns |-> toSwitch'[d]]
      /\ \A d \in Conns : d # c => toSwitch'[d] = toSwitch[d]
  BY <1>1, <1>2 DEF TablesOK
<1>7. TablesOK'
  BY <1>1, <1>2, <1>4, <1>5, <1>6 DEF TablesOK
<1>8. /\ \A d \in Conns : role'[d] = "master" => Connected(d)
      /\ \A d, e \in Conns : role'[d] = "master" /\ role'[e] = "master" => d = e
  <2>1. CASE m.type = "role_request"
    BY <1>1, <1>2, <2>1, RoleFacts
  <2>2. CASE m.type # "role_request"
    BY <1>2, <2>2 DEF RoleInv, Reached, OneMaster
  <2> QED BY <2>1, <2>2
<1>9. ASSUME NEW d \in Conns PROVE Reached(d)'
  BY <1>1, <1>2, <1>4, <1>6, <1>8, StillConnected DEF RoleInv, Reached
<1>10. ActionEnds'
  BY <1>1, <1>2, StillConnected DEF ActionEnds
<1>11. SlavesSpared
  BY <1>4 DEF SlavesSpared, IsSent
<1> QED BY <1>7, <1>8, <1>9, <1>10, <1>11 DEF RoleInv, OneMaster

(* At first nobody is connected. *)
LEMMA RoleInit == Init => RoleInv
<1> SUFFICES ASSUME Init PROVE RoleInv
  OBVIOUS
<1>1. TablesOK
  BY DEF Init, TablesOK
<1>2. (\A c \in Conns : Reached(c)) /\ OneMaster /\ ActionEnds
  BY DEF Init, Reached, OneMaster, ActionEnds
<1> QED BY <1>1, <1>2 DEF RoleInv

(* Every step keeps the roles and spares the slaves. *)
LEMMA RoleStep == ASSUME RoleInv, Next PROVE RoleInv' /\ SlavesSpared
<1>1. ASSUME \/ \E q \in Ports : take_port_down(q) \/ bring_port_up(q)
             \/ \E gone \in SUBSET DOMAIN table : Expire(gone)
             \/ Warm
      PROVE  Quiet
  BY <1>1 DEF take_port_down, bring_port_up, Expire, Warm, Quiet
<1>2. CASE Quiet
  BY <1>2, QuietStep
<1>3. CASE \E a \in Arrivals : process_packet(a.pkt, a.in_port)
  BY <1>3, PacketStep
<1>4. ASSUME NEW c \in Conns,
             \/ add_connection(c) \/ Receive(c) \/ _handle_PacketIn(c)
             \/ \E expired \in BOOLEAN : _handle_PacketIn_l3(c, expired)
             \/ \E fm \in AdminMods : SendMod(c, fm)
             \/ \E r \in {"master", "other", "slave"} : SendRole(c, r)
      PROVE  RoleInv' /\ SlavesSpared
  BY <1>4, ConnectStep, ReceiveStep, ComponentStep
<1> QED BY <1>1, <1>2, <1>3, <1>4 DEF Next

(* One master is one element at most. *)
LEMMA MasterFacts == ASSUME OneMaster PROVE AtMostOneMaster
<1> DEFINE S == {c \in Conns : role[c] = "master"}
<1>1. \A c, d \in S : c = d
  BY DEF OneMaster
<1> HIDE DEF S
<1>2. S = {} \/ \E c : S = {c}
  <2>1. ASSUME NEW c \in S PROVE S = {c}
    BY <1>1
  <2> QED BY <2>1
<1>3. Cardinality(S) = 0 \/ Cardinality(S) = 1
  BY <1>2, FS_EmptySet, FS_Singleton
<1>4. Cardinality(S) <= 1
  BY <1>3
<1> QED BY <1>4 DEF AtMostOneMaster, S

(* However controllers connect, ask for roles, modify flows and release      *)
(* packets, at most one of them is master, and no packet_in goes to a slave  *)
(* unless some handler has raised and left its connection in action.         *)
THEOREM RolesSafety == Spec => RolesKept
<1>1. ASSUME RoleInv, [Next]_vars
      PROVE  RoleInv' /\ [AtMostOneMaster' /\ SlavesSpared]_vars
  <2>1. CASE Next
    <3>1. RoleInv' /\ SlavesSpared
      BY <1>1, <2>1, RoleStep
    <3>2. OneMaster' => AtMostOneMaster'
      BY MasterFacts, PTL
    <3> QED BY <3>1, <3>2 DEF RoleInv
  <2>2. CASE UNCHANGED vars
    BY <1>1, <2>2, QuietStep DEF Quiet, vars
  <2> QED BY <1>1, <2>1, <2>2
<1> QED BY <1>1, RoleInit, PTL DEF Spec, RolesKept

=============================================================================
