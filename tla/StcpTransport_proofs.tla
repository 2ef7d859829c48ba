----------------------- MODULE StcpTransport_proofs -----------------------
(* Proofs about StcpTransport, for every window, packet size, amount of data, *)
(* discipline of the applications and set of ends that may be killed: types,  *)
(* the byte streams of a connection (StreamIntact), closing                   *)
(* (ClosingLosesNothing) and the window (WindowRespected), whatever an        *)
(* uninitialised th_ack holds; for applications that take turns and no killed *)
(* process also ExchangesClean.                                               *)
(*                                                                            *)
(* StreamIntact is not inductive.  control_loop adds the payload of DATA      *)
(* packets only, so the other packets must carry none (Wire); and             *)
(* transport_init drops the packets it waits for without looking at them, so  *)
(* none of those may be a data packet (Opening).                              *)
EXTENDS StcpTransport, TLAPS

-----------------------------------------------------------------------------
(* Types. *)


(* The peer of an end is the other end. *)
LEMMA PeerFacts == \A e \in Ends : Peer(e) \in Ends /\ Peer(e) # e /\ Peer(Peer(e)) = e
BY DEF Ends, Peer

(* An action that leaves a group of variables alone keeps its type. *)
LEMMA TypeFrame ==
    /\ CtxTypeOK /\ UNCHANGED ctxVars => CtxTypeOK'
    /\ EventTypeOK /\ UNCHANGED event => EventTypeOK'
    /\ NetworkTypeOK /\ UNCHANGED network => NetworkTypeOK'
    /\ WriteTypeOK /\ UNCHANGED writeVars => WriteTypeOK'
    /\ ReadTypeOK /\ UNCHANGED readVars => ReadTypeOK'
    /\ AppTypeOK /\ UNCHANGED appVars => AppTypeOK'
<1>1. CtxTypeOK /\ UNCHANGED ctxVars => CtxTypeOK'
  BY DEF CtxTypeOK, ctxVars
<1>2. EventTypeOK /\ UNCHANGED event => EventTypeOK'
  BY DEF EventTypeOK
<1>3. NetworkTypeOK /\ UNCHANGED network => NetworkTypeOK'
  BY DEF NetworkTypeOK
<1>4. WriteTypeOK /\ UNCHANGED writeVars => WriteTypeOK'
  BY DEF WriteTypeOK, writeVars
<1>5. ReadTypeOK /\ UNCHANGED readVars => ReadTypeOK'
  BY DEF ReadTypeOK, readVars
<1>6. AppTypeOK /\ UNCHANGED appVars => AppTypeOK'
  BY DEF AppTypeOK, appVars
<1> QED BY <1>1, <1>2, <1>3, <1>4, <1>5, <1>6

(* A packet that is built is a packet. *)
LEMMA TypePkt ==
    ASSUME WriteTypeOK, NEW e \in Ends, NEW f \in Flags, NEW s \in Int, NEW a \in Int,
           NEW n \in Nat
    PROVE  Pkt(e, f, s, a, n) \in Packet
BY DEF WriteTypeOK, Pkt, Packet

(* Sending keeps the network well typed. *)
LEMMA TypeSend ==
    ASSUME NetworkTypeOK, NEW e \in Ends, NEW p \in Packet
    PROVE  NetworkSend(e, p) \in [Ends -> Seq(Packet)]
BY PeerFacts DEF NetworkTypeOK, NetworkSend

(* So does receiving. *)
LEMMA TypeRecv ==
    ASSUME NetworkTypeOK, NEW e \in Ends, network[e] # <<>>
    PROVE  /\ NetworkRecv(e) \in [Ends -> Seq(Packet)]
           /\ Head(network[e]) \in Packet
           /\ \A p \in Packet : NetworkRecvSend(e, p) \in [Ends -> Seq(Packet)]
<1>1. Tail(network[e]) \in Seq(Packet) /\ Head(network[e]) \in Packet
  BY DEF NetworkTypeOK
<1>2. NetworkRecv(e) \in [Ends -> Seq(Packet)]
  BY <1>1 DEF NetworkTypeOK, NetworkRecv
<1>3. ASSUME NEW p \in Packet
      PROVE  NetworkRecvSend(e, p) \in [Ends -> Seq(Packet)]
  <2>1. network \in [Ends -> Seq(Packet)] /\ Peer(e) \in Ends
    BY PeerFacts DEF NetworkTypeOK
  <2>2. Append(network[Peer(e)], p) \in Seq(Packet)
    BY <2>1
  <2> QED BY <1>1, <2>1, <2>2 DEF NetworkRecvSend
<1> QED BY <1>1, <1>2, <1>3

(* The initial values are of their types. *)
LEMMA TypeInit == Init => TypeOK
<1> SUFFICES ASSUME Init PROVE TypeOK
  OBVIOUS
<1>1. CtxTypeOK
  BY ConstantsAssumption DEF Init, CtxTypeOK, States, ANY_EVENT
<1>2. EventTypeOK /\ NetworkTypeOK /\ AppTypeOK
  BY DEF Init, EventTypeOK, NetworkTypeOK, AppTypeOK, Ends
<1>3. WriteTypeOK /\ ReadTypeOK
  BY DEF Init, WriteTypeOK, ReadTypeOK
<1> QED BY <1>1, <1>2, <1>3 DEF TypeOK

(* The four packets of the handshake. *)
LEMMA TypeHandshake == TypeOK /\ Handshake => TypeOK'
<1> SUFFICES ASSUME TypeOK, Handshake PROVE TypeOK'
  OBVIOUS
<1> USE DEF TypeOK
<1>0. "active" \in Ends /\ "passive" \in Ends
  BY DEF Ends
<1>1. CASE SendSyn
  <2> DEFINE p == Pkt("active", "SYN", isn["active"], 0, 0)
  <2>1. p \in Packet
    BY <1>0, TypePkt DEF CtxTypeOK, Flags
  <2>2. NetworkTypeOK'
    BY <1>0, <1>1, <2>1, TypeSend DEF SendSyn, NetworkTypeOK
  <2>3. CtxTypeOK'
    BY <1>0, <1>1 DEF SendSyn, CtxTypeOK, States
  <2> QED BY <1>1, <2>2, <2>3, TypeFrame DEF SendSyn
<1>2. CASE RecvSynSendSynAck
  <2> DEFINE p == Pkt("passive", "SYN_ACK", isn["passive"], Head(network["passive"]).seq + 1, 0)
  <2>1. Head(network["passive"]).seq \in Int
    BY <1>0, <1>2, TypeRecv DEF RecvSynSendSynAck, Packet
  <2>2. p \in Packet
    BY <1>0, <2>1, TypePkt DEF CtxTypeOK, Flags
  <2>3. NetworkTypeOK'
    BY <1>0, <1>2, <2>2, TypeRecv DEF RecvSynSendSynAck, NetworkTypeOK
  <2>4. CtxTypeOK'
    BY <1>0, <1>2 DEF RecvSynSendSynAck, CtxTypeOK, States
  <2> QED BY <1>2, <2>3, <2>4, TypeFrame DEF RecvSynSendSynAck
<1>3. CASE RecvSynAckSendAck
  <2> DEFINE p == Pkt("active", "ACK", isn["active"], Head(network["active"]).seq + 1, 0)
  <2>1. Head(network["active"]).seq \in Int
    BY <1>0, <1>3, TypeRecv DEF RecvSynAckSendAck, Packet
  <2>2. p \in Packet
    BY <1>0, <2>1, TypePkt DEF CtxTypeOK, Flags
  <2>3. NetworkTypeOK'
    BY <1>0, <1>3, <2>2, TypeRecv DEF RecvSynAckSendAck, NetworkTypeOK
  <2>4. CtxTypeOK' /\ AppTypeOK'
    BY <1>0, <1>3 DEF RecvSynAckSendAck, Establish, CtxTypeOK, AppTypeOK, States
  <2> QED BY <1>3, <2>3, <2>4, TypeFrame DEF RecvSynAckSendAck
<1>4. CASE RecvHandshakeAck
  <2>1. NetworkTypeOK'
    BY <1>0, <1>4, TypeRecv DEF RecvHandshakeAck, NetworkTypeOK
  <2>2. CtxTypeOK' /\ AppTypeOK'
    BY <1>0, <1>4 DEF RecvHandshakeAck, Establish, CtxTypeOK, AppTypeOK, States
  <2> QED BY <1>4, <2>1, <2>2, TypeFrame DEF RecvHandshakeAck
<1> QED BY <1>1, <1>2, <1>3, <1>4 DEF Handshake

(* The application's calls; Kill stops the process. *)
LEMMA TypeApp ==
    ASSUME TypeOK, NEW e \in Ends,
           AppCalls(e) \/ AppReads(e) \/ MyCloseReturns(e) \/ Kill(e)
    PROVE  TypeOK'
<1> USE DEF TypeOK
<1>0. Pkt(e, "ERROR", 0, 0, 0) \in Packet
  BY TypePkt DEF Flags
<1>1. ASSUME NEW n \in WriteSizes, MyWrite(e, n)
      PROVE  TypeOK'
  <2>1. WriteTypeOK'
    BY <1>1, ConstantsAssumption DEF MyWrite, WriteTypeOK
  <2> QED BY <1>1, <2>1, TypeFrame DEF MyWrite
<1>2. CASE MyClose(e)
  <2>1. AppTypeOK'
    BY <1>2 DEF MyClose, AppTypeOK
  <2> QED BY <1>2, <2>1, TypeFrame DEF MyClose
<1>3. CASE PassTurn(e)
  <2>1. AppTypeOK'
    BY <1>3, PeerFacts DEF PassTurn, AppTypeOK
  <2> QED BY <1>3, <2>1, TypeFrame DEF PassTurn
<1>4. ASSUME NEW n \in 1 .. (rcvd[e] - read[e]), MyRead(e, n)
      PROVE  TypeOK'
  <2>1. ReadTypeOK'
    BY <1>4 DEF MyRead, ReadTypeOK
  <2> QED BY <1>4, <2>1, TypeFrame DEF MyRead
<1>5. CASE MyReadEof(e)
  <2>1. ReadTypeOK'
    BY <1>5 DEF MyReadEof, ReadTypeOK
  <2> QED BY <1>5, <2>1, TypeFrame DEF MyReadEof
<1>6. CASE MyCloseReturns(e)
  <2>1. AppTypeOK'
    BY <1>6 DEF MyCloseReturns, AppTypeOK
  <2>2. NetworkTypeOK'
    BY <1>0, <1>6, TypeSend DEF MyCloseReturns, NetworkTypeOK
  <2> QED BY <1>6, <2>1, <2>2, TypeFrame DEF MyCloseReturns
<1>7. CASE Kill(e)
  <2>1. AppTypeOK' /\ CtxTypeOK'
    BY <1>7 DEF Kill, Fault, AppTypeOK, CtxTypeOK, States
  <2>2. NetworkTypeOK'
    BY <1>0, <1>7, TypeSend DEF Kill, NetworkTypeOK
  <2> QED BY <1>7, <2>1, <2>2, TypeFrame DEF Kill, Fault
<1> QED BY <1>1, <1>2, <1>3, <1>4, <1>5, <1>6, <1>7 DEF AppCalls, AppReads

(* The packets control_loop receives. *)
LEMMA TypeReceive ==
    ASSUME TypeOK, NEW e \in Ends,
           \/ RecvData(e)
           \/ RecvAck(e)
           \/ \E junk \in Junk : RecvFirstFin(e, junk) \/ RecvLastFin(e, junk)
           \/ DropFin(e)
           \/ RecvError(e)
    PROVE  TypeOK'
<1> USE DEF TypeOK
<1>1. EventTypeOK' /\ network[e] # <<>>
  BY DEF RecvData, RecvAck, RecvFirstFin, RecvLastFin, DropFin, RecvError,
         Handle, HeadIs, EventTypeOK
<1> DEFINE h == Head(network[e])
<1>2. h.seq \in Int /\ h.ack \in Int /\ h.len \in Nat
  BY <1>1, TypeRecv DEF Packet
<1>3. isn[e] \in Int /\ left[e] \in Int /\ send_wind[e] \in Int
  BY DEF CtxTypeOK
<1>4. CASE RecvData(e)
  <2> DEFINE a == h.seq + h.len
  <2>0. a \in Int /\ "ACK" \in Flags
    BY <1>2 DEF Flags
  <2>1. Pkt(e, "ACK", isn[e], a, 0) \in Packet
    <3> HIDE DEF a
    <3> QED BY <1>3, <2>0, TypePkt
  <2>2. NetworkTypeOK'
    BY <1>1, <1>4, <2>1, TypeRecv DEF RecvData, NetworkTypeOK
  <2>3. CtxTypeOK'
    BY <1>4 DEF RecvData, CtxTypeOK
  <2>4. ReadTypeOK'
    BY <1>2, <1>4 DEF RecvData, ReadTypeOK
  <2> QED BY <1>1, <1>4, <2>2, <2>3, <2>4, TypeFrame DEF RecvData
<1>5. CASE RecvAck(e)
  <2>1. NetworkTypeOK'
    BY <1>1, <1>5, TypeRecv DEF RecvAck, NetworkTypeOK
  <2>2. AfterAck(state[e]) \in States
    BY DEF AfterAck, CtxTypeOK, States
  <2>3. Reopened(e, h.ack) \in Int
    BY <1>2, <1>3 DEF Reopened
  <2>4. CtxTypeOK'
    BY <1>2, <1>5, <2>2, <2>3 DEF RecvAck, CtxTypeOK
  <2> QED BY <1>1, <1>5, <2>1, <2>4, TypeFrame DEF RecvAck
<1>6. ASSUME NEW junk \in Junk, RecvFirstFin(e, junk) \/ RecvLastFin(e, junk)
      PROVE  TypeOK'
  <2>1. Pkt(e, "ACK", left[e], junk, 0) \in Packet
    BY <1>3, TypePkt, ConstantsAssumption DEF Flags
  <2>2. NetworkTypeOK'
    BY <1>1, <1>6, <2>1, TypeRecv DEF RecvFirstFin, RecvLastFin, NetworkTypeOK
  <2>3. CtxTypeOK'
    BY <1>6 DEF RecvFirstFin, RecvLastFin, CtxTypeOK, States
  <2>4. ReadTypeOK'
    BY <1>6 DEF RecvFirstFin, RecvLastFin, ReadTypeOK, readVars
  <2> QED BY <1>1, <1>6, <2>2, <2>3, <2>4, TypeFrame DEF RecvFirstFin, RecvLastFin
<1>7. CASE DropFin(e)
  <2>1. NetworkTypeOK'
    BY <1>1, <1>7, TypeRecv DEF DropFin, NetworkTypeOK
  <2> QED BY <1>1, <1>7, <2>1, TypeFrame DEF DropFin
<1>8. CASE RecvError(e)
  <2>1. Pkt(e, "ERROR", 0, 0, 0) \in Packet
    BY TypePkt DEF Flags
  <2>2. NetworkTypeOK'
    BY <1>1, <1>8, <2>1, TypeRecv DEF RecvError, NetworkTypeOK
  <2>3. CtxTypeOK' /\ AppTypeOK'
    BY <1>8 DEF RecvError, Fault, CtxTypeOK, AppTypeOK, States
  <2> QED BY <1>1, <1>8, <2>2, <2>3, TypeFrame DEF RecvError, Fault
<1> QED BY <1>4, <1>5, <1>6, <1>7, <1>8

(* The amount stcp_app_recv returns and what is left of the queue. *)
LEMMA SegmentFacts ==
    ASSUME TypeOK, NEW e \in Ends, NEW m \in app_recv_queue[e], send_wind[e] >= 0
    PROVE  LET n == MIN(MIN(send_wind[e], MSS), m - taken[e]) IN
           /\ n \in Nat
           /\ n <= m - taken[e]
           /\ n <= send_wind[e]
           /\ m - taken[e] \in Nat
           /\ m <= written[e]
<1>1. /\ m \in Nat /\ taken[e] \in Nat /\ written[e] \in Nat
      /\ taken[e] + 1 <= m /\ m <= written[e]
  BY DEF TypeOK, WriteTypeOK
<1>2. send_wind[e] \in Nat /\ MSS \in Nat
  BY ConstantsAssumption DEF TypeOK, CtxTypeOK
<1> QED BY <1>1, <1>2 DEF MIN

(* The packets control_loop sends for the application, the wait and the exit. *)
LEMMA TypeSending ==
    ASSUME TypeOK, NEW e \in Ends,
           \/ WaitForEvent(e)
           \/ \E m \in app_recv_queue[e] : SendAppData(e, m)
           \/ SendNegativeWindow(e)
           \/ SendFin(e)
           \/ TransportExit(e)
    PROVE  TypeOK'
<1> USE DEF TypeOK
<1>0. isn[e] \in Int /\ left[e] \in Int /\ send_wind[e] \in Int
  BY DEF CtxTypeOK
<1>1. CASE WaitForEvent(e)
  <2>1. EventTypeOK' /\ AppTypeOK'
    BY <1>1 DEF WaitForEvent, Ready, EventTypeOK, AppTypeOK
  <2> QED BY <1>1, <2>1, TypeFrame DEF WaitForEvent
<1>2. ASSUME NEW m \in app_recv_queue[e], SendAppData(e, m)
      PROVE  TypeOK'
  <2> DEFINE n == MIN(MIN(send_wind[e], MSS), m - taken[e])
  <2>1. EventTypeOK'
    BY <1>2 DEF SendAppData, Handle, EventTypeOK
  <2>2. n \in Nat /\ n <= m - taken[e] /\ m <= written[e] /\ m \in Nat
    BY <1>2, SegmentFacts DEF SendAppData, WriteTypeOK
  <2>3. CASE n = 0
    BY <1>2, <2>1, <2>3, TypeFrame DEF SendAppData, ctxVars, writeVars
  <2>4. CASE n # 0
    <3> HIDE DEF n
    <3>1. Pkt(e, "DATA", left[e], 0, n) \in Packet
      <4>1. "DATA" \in Flags /\ 0 \in Int
        BY DEF Flags
      <4> HIDE DEF TypeOK
      <4> QED BY <1>0, <2>2, <4>1, TypePkt DEF TypeOK
    <3>2. /\ network' = NetworkSend(e, Pkt(e, "DATA", left[e], 0, n))
          /\ taken' = [taken EXCEPT ![e] = @ + n]
          /\ app_recv_queue' = [app_recv_queue EXCEPT ![e] = {k \in @ : k > taken[e] + n}]
          /\ left' = [left EXCEPT ![e] = @ + n]
          /\ send_wind' = [send_wind EXCEPT ![e] = @ - n]
          /\ event_chosen' = [event_chosen EXCEPT
                ![e] = IF send_wind[e] = n THEN {"NETWORK_DATA"} ELSE @]
          /\ UNCHANGED <<state, isn, written, readVars, appVars>>
      BY <1>2, <2>4 DEF SendAppData, n
    <3>3. NetworkTypeOK'
      BY <3>1, <3>2, TypeSend DEF NetworkTypeOK
    <3>4. CtxTypeOK'
      BY <2>2, <3>2 DEF CtxTypeOK, ANY_EVENT
    <3>5. WriteTypeOK'
      BY <2>2, <3>2 DEF WriteTypeOK
    <3> QED BY <2>1, <3>2, <3>3, <3>4, <3>5, TypeFrame
  <2> QED BY <2>3, <2>4
<1>3. CASE SendNegativeWindow(e)
  <2>1. Pkt(e, "ERROR", 0, 0, 0) \in Packet
    BY TypePkt DEF Flags
  <2>2. NetworkTypeOK'
    BY <1>3, <2>1, TypeSend DEF SendNegativeWindow, NetworkTypeOK
  <2>3. CtxTypeOK' /\ AppTypeOK' /\ EventTypeOK'
    BY <1>3 DEF SendNegativeWindow, Handle, Fault, CtxTypeOK, AppTypeOK, EventTypeOK, States
  <2> QED BY <1>3, <2>2, <2>3, TypeFrame DEF SendNegativeWindow, Fault
<1>4. CASE SendFin(e)
  <2>1. Pkt(e, "FIN", left[e], 0, 0) \in Packet
    BY <1>0, TypePkt DEF Flags
  <2>2. NetworkTypeOK'
    BY <1>4, <2>1, TypeSend DEF SendFin, NetworkTypeOK
  <2>3. CtxTypeOK' /\ EventTypeOK'
    BY <1>4 DEF SendFin, Handle, CtxTypeOK, EventTypeOK, States
  <2> QED BY <1>4, <2>2, <2>3, TypeFrame DEF SendFin
<1>5. CASE TransportExit(e)
  <2>1. CtxTypeOK' /\ ReadTypeOK'
    BY <1>5 DEF TransportExit, CtxTypeOK, ReadTypeOK, States
  <2> QED BY <1>5, <2>1, TypeFrame DEF TransportExit
<1> QED BY <1>1, <1>2, <1>3, <1>4, <1>5

(* Every step keeps the types. *)
LEMMA TypeStep == TypeOK /\ [Next]_vars => TypeOK'
<1>1. TypeOK /\ Next => TypeOK'
  BY TypeHandshake, TypeApp, TypeReceive, TypeSending DEF Next, ControlLoop
<1>2. TypeOK /\ UNCHANGED vars => TypeOK'
  BY TypeFrame DEF TypeOK, vars
<1> QED BY <1>1, <1>2

(* Type correctness: no step of either transport thread, application or the  *)
(* environment takes a variable out of its range, and the counters of each   *)
(* byte stream stay in order.                                                *)
THEOREM TypeCorrect == Spec => []TypeOK
BY TypeInit, TypeStep, PTL DEF Spec

-----------------------------------------------------------------------------
(* The byte streams. *)


(* The packets of q continue each other from byte r to byte t. *)
Chain(q, r, t) ==
    IF q = <<>>
      THEN r = t
      ELSE /\ q[1].off = r
           /\ q[Len(q)].off + q[Len(q)].len = t
           /\ \A i \in 1 .. (Len(q) - 1) : q[i].off + q[i].len = q[i+1].off

(* Only data packets have a payload. *)
Wire(q) == \A i \in 1 .. Len(q) : q[i].flags # "DATA" => q[i].len = 0

NoData(q) == \A i \in 1 .. Len(q) : q[i].flags # "DATA"

NoDataFirst(q) == q # <<>> /\ q[1].flags # "DATA"

Flow(d) == Chain(network[d], rcvd[d], taken[Peer(d)]) /\ Wire(network[d])

Flows == \A d \in Ends : Flow(d)

(* Until the server has the SYN, the client has sent no data and has been    *)
(* sent nothing.                                                             *)
BeforeSyn ==
    state["passive"] = "CLOSED" =>
        /\ state["active"] \in {"CLOSED", "SYN_SENT", "KILLED"}
        /\ network["active"] = <<>>
        /\ NoData(network["passive"])

(* What ends the server's wait for the ACK, and the client's for the         *)
(* SYN-ACK, carries no data.                                                 *)
BeforeAck ==
    state["passive"] = "SYN_RCVD" =>
        \/ NoDataFirst(network["passive"])
        \/ network["passive"] = <<>> /\ state["active"] \notin InControlLoop

BeforeSynAck ==
    state["active"] \in {"CLOSED", "SYN_SENT"} =>
        \/ NoDataFirst(network["active"])
        \/ network["active"] = <<>> /\ state["passive"] \notin InControlLoop \cup {"SYN_RCVD"}

Opening == BeforeSyn /\ BeforeAck /\ BeforeSynAck

StreamInv == Flows /\ Opening

-----------------------------------------------------------------------------
(* Appending to a queue and removing its head. *)

(* A queue is empty when its length is zero. *)
LEMMA EmptyFacts == \A q \in Seq(Packet) : q = <<>> <=> Len(q) = 0
OBVIOUS

(* A queue of packets with one more. *)
LEMMA AppendFacts ==
    ASSUME NEW q \in Seq(Packet), NEW p \in Packet
    PROVE  LET s == Append(q, p) IN
           /\ s \in Seq(Packet) /\ s # <<>>
           /\ Len(q) \in Nat /\ Len(s) = Len(q) + 1
           /\ s[Len(q) + 1] = p
           /\ \A i \in 1 .. Len(q) : s[i] = q[i]
           /\ q = <<>> <=> Len(q) = 0
OBVIOUS

(* A queue of packets without its first. *)
LEMMA TailFacts ==
    ASSUME NEW q \in Seq(Packet), q # <<>>
    PROVE  LET s == Tail(q) IN
           /\ s \in Seq(Packet)
           /\ Len(q) \in Nat \ {0} /\ Len(s) = Len(q) - 1
           /\ Head(q) = q[1]
           /\ \A i \in 1 .. Len(s) : s[i] = q[i + 1]
           /\ s = <<>> <=> Len(s) = 0
<1>1. Tail(q) \in Seq(Packet)
  OBVIOUS
<1>2. Tail(q) = <<>> <=> Len(Tail(q)) = 0
  BY <1>1, EmptyFacts
<1>3. \A i \in 1 .. Len(Tail(q)) : Tail(q)[i] = q[i + 1]
  OBVIOUS
<1>4. Len(q) \in Nat \ {0} /\ Len(Tail(q)) = Len(q) - 1 /\ Head(q) = q[1]
  OBVIOUS
<1> QED BY <1>1, <1>2, <1>3, <1>4

(* A packet that starts where the last one ends continues the chain. *)
LEMMA ChainAppend ==
    ASSUME NEW q \in Seq(Packet), NEW p \in Packet, NEW r \in Nat, NEW t \in Nat,
           Chain(q, r, t), p.off = t
    PROVE  Chain(Append(q, p), r, t + p.len)
<1> DEFINE s == Append(q, p)
<1>1. /\ s # <<>>
      /\ Len(q) \in Nat /\ Len(s) = Len(q) + 1
      /\ s[Len(q) + 1] = p
      /\ \A i \in 1 .. Len(q) : s[i] = q[i]
      /\ q = <<>> <=> Len(q) = 0
  BY AppendFacts
<1>2. p.off \in Nat /\ p.len \in Nat
  BY DEF Packet
<1> HIDE DEF s
<1>3. CASE q = <<>>
  BY <1>1, <1>2, <1>3 DEF Chain
<1>4. CASE q # <<>>
  <2>1. s[1] = q[1] /\ s[1].off = r
    BY <1>1, <1>4 DEF Chain
  <2>2. s[Len(s)].off + s[Len(s)].len = t + p.len
    BY <1>1, <1>2
  <2>3. ASSUME NEW i \in 1 .. (Len(s) - 1)
        PROVE  s[i].off + s[i].len = s[i+1].off
    <3>1. CASE i = Len(q)
      BY <1>1, <1>4, <3>1 DEF Chain
    <3>2. CASE i # Len(q)
      <4>1. i \in 1 .. (Len(q) - 1) /\ i + 1 \in 1 .. Len(q)
        BY <1>1, <3>2
      <4> QED BY <1>1, <1>4, <4>1 DEF Chain
    <3> QED BY <3>1, <3>2
  <2> QED BY <1>1, <2>1, <2>2, <2>3 DEF Chain
<1> QED BY <1>3, <1>4 DEF s

(* Taking the first packet moves the beginning of the chain. *)
LEMMA ChainTail ==
    ASSUME NEW q \in Seq(Packet), NEW r \in Nat, NEW t \in Nat, q # <<>>, Chain(q, r, t)
    PROVE  Chain(Tail(q), r + Head(q).len, t)
<1> DEFINE s == Tail(q)
           h == Head(q)
<1> SUFFICES Chain(s, r + h.len, t)
  OBVIOUS
<1>1. /\ Len(q) \in Nat \ {0} /\ Len(s) = Len(q) - 1
      /\ h = q[1]
      /\ \A i \in 1 .. Len(s) : s[i] = q[i + 1]
      /\ s = <<>> <=> Len(s) = 0
  BY TailFacts
<1>2. h.off = r /\ h.len \in Nat
  <2>1. q[1] \in Packet
    BY <1>1
  <2> QED BY <1>1, <2>1 DEF Chain, Packet
<1> HIDE DEF s, h
<1>3. CASE s = <<>>
  <2>1. Len(q) = 1
    BY <1>1, <1>3
  <2>2. q[1].off + q[1].len = t
    BY <2>1 DEF Chain
  <2> QED BY <1>1, <1>2, <1>3, <2>2 DEF Chain
<1>4. CASE s # <<>>
  <2>1. 1 \in 1 .. (Len(q) - 1) /\ 1 \in 1 .. Len(s) /\ Len(s) \in 1 .. Len(s)
    BY <1>1, <1>4
  <2>2. s[1] = q[2] /\ s[Len(s)] = q[Len(q)]
    BY <1>1, <2>1
  <2>3. s[1].off = r + h.len
    BY <1>1, <1>2, <2>1, <2>2 DEF Chain
  <2>4. s[Len(s)].off + s[Len(s)].len = t
    BY <2>2 DEF Chain
  <2>5. ASSUME NEW i \in 1 .. (Len(s) - 1)
        PROVE  s[i].off + s[i].len = s[i+1].off
    <3>1. /\ i \in 1 .. Len(s) /\ i + 1 \in 1 .. Len(s) /\ i + 1 \in 1 .. (Len(q) - 1)
      BY <1>1
    <3>2. s[i] = q[i+1] /\ s[i+1] = q[(i+1)+1]
      BY <1>1, <3>1
    <3> QED BY <3>1, <3>2 DEF Chain
  <2> QED BY <1>4, <2>3, <2>4, <2>5 DEF Chain
<1> QED BY <1>3, <1>4

(* Only data packets have a length. *)
LEMMA WireFacts ==
    ASSUME NEW q \in Seq(Packet), Wire(q)
    PROVE  /\ \A p \in Packet : (p.flags # "DATA" => p.len = 0) => Wire(Append(q, p))
           /\ q # <<>> => Wire(Tail(q)) /\ (q[1].flags # "DATA" => Head(q).len = 0)
<1>1. ASSUME NEW p \in Packet, p.flags # "DATA" => p.len = 0
      PROVE  Wire(Append(q, p))
  BY <1>1, AppendFacts DEF Wire
<1>2. ASSUME q # <<>>
      PROVE  Wire(Tail(q)) /\ (q[1].flags # "DATA" => Head(q).len = 0)
  BY <1>2, TailFacts DEF Wire
<1> QED BY <1>1, <1>2

(* Where no data can be first, or none at all. *)
LEMMA NoDataFacts ==
    ASSUME NEW q \in Seq(Packet), NEW p \in Packet
    PROVE  /\ NoDataFirst(q) => NoDataFirst(Append(q, p))
           /\ q = <<>> /\ p.flags # "DATA" => NoDataFirst(Append(q, p))
           /\ NoData(q) /\ p.flags # "DATA" => NoData(Append(q, p))
           /\ NoData(q) /\ q # <<>> => NoDataFirst(q) /\ NoData(Tail(q))
<1>1. /\ NoDataFirst(q) => NoDataFirst(Append(q, p))
      /\ q = <<>> /\ p.flags # "DATA" => NoDataFirst(Append(q, p))
      /\ NoData(q) /\ p.flags # "DATA" => NoData(Append(q, p))
  BY AppendFacts DEF NoDataFirst, NoData
<1>2. NoData(q) /\ q # <<>> => NoDataFirst(q) /\ NoData(Tail(q))
  BY TailFacts DEF NoDataFirst, NoData
<1> QED BY <1>1, <1>2

-----------------------------------------------------------------------------
(* What sending and receiving do to a direction of the connection. *)

(* There are two ends. *)
LEMMA OtherEnd == ASSUME NEW e \in Ends PROVE \A d \in Ends : d = e \/ d = Peer(e)
BY DEF Ends, Peer

(* The types of the variables of one direction. *)
LEMMA FlowTypes ==
    ASSUME TypeOK, NEW d \in Ends
    PROVE  network[d] \in Seq(Packet) /\ rcvd[d] \in Nat /\ taken[Peer(d)] \in Nat
BY PeerFacts DEF TypeOK, NetworkTypeOK, ReadTypeOK, WriteTypeOK

(* A direction that is not touched stays intact. *)
LEMMA FlowIdle ==
    ASSUME NEW d \in Ends, Flow(d), network'[d] = network[d], rcvd'[d] = rcvd[d],
           taken'[Peer(d)] = taken[Peer(d)]
    PROVE  Flow(d)'
BY DEF Flow

(* A direction stays intact when the receiver takes its first packet. *)
LEMMA FlowTail ==
    ASSUME TypeOK, NEW d \in Ends, Flow(d), network[d] # <<>>,
           network'[d] = Tail(network[d]),
           rcvd'[d] = rcvd[d] + Head(network[d]).len,
           taken'[Peer(d)] = taken[Peer(d)]
    PROVE  Flow(d)'
<1>1. Chain(Tail(network[d]), rcvd[d] + Head(network[d]).len, taken[Peer(d)])
  BY FlowTypes, ChainTail DEF Flow
<1>2. Wire(Tail(network[d]))
  BY FlowTypes, WireFacts DEF Flow
<1> QED BY <1>1, <1>2 DEF Flow

(* A direction stays intact when the sender adds what it has just taken. *)
LEMMA FlowAppend ==
    ASSUME TypeOK, NEW d \in Ends, Flow(d), NEW p \in Packet,
           p.flags # "DATA" => p.len = 0,
           p.off = taken[Peer(d)],
           network'[d] = Append(network[d], p),
           rcvd'[d] = rcvd[d],
           taken'[Peer(d)] = taken[Peer(d)] + p.len
    PROVE  Flow(d)'
<1>1. Chain(Append(network[d], p), rcvd[d], taken[Peer(d)] + p.len)
  BY FlowTypes, ChainAppend DEF Flow
<1>2. Wire(Append(network[d], p))
  BY FlowTypes, WireFacts DEF Flow
<1> QED BY <1>1, <1>2 DEF Flow

(* A packet that is sent with the next n bytes of the stream. *)
LEMMA SendEffect ==
    ASSUME TypeOK, Flows, NEW e \in Ends,
           NEW f \in Flags, NEW s \in Int, NEW a \in Int, NEW n \in Nat,
           f # "DATA" => n = 0,
           network' = NetworkSend(e, Pkt(e, f, s, a, n)),
           rcvd' = rcvd,
           taken'[e] = taken[e] + n,
           taken'[Peer(e)] = taken[Peer(e)]
    PROVE  Flows'
<1> DEFINE p == Pkt(e, f, s, a, n)
<1>1. p \in Packet /\ p.flags = f /\ p.off = taken[e] /\ p.len = n
  <2>1. p \in Packet
    BY TypePkt DEF TypeOK
  <2> QED BY <2>1 DEF Pkt
<1> HIDE DEF p
<1>2. /\ Peer(e) \in Ends /\ Peer(e) # e /\ Peer(Peer(e)) = e
      /\ network \in [Ends -> Seq(Packet)]
  BY PeerFacts DEF TypeOK, NetworkTypeOK
<1>3. network'[e] = network[e] /\ network'[Peer(e)] = Append(network[Peer(e)], p)
  BY <1>2 DEF NetworkSend, p
<1>4. Flow(e)'
  BY <1>2, <1>3, FlowIdle DEF Flows
<1>5. Flow(Peer(e))'
  BY <1>1, <1>2, <1>3, FlowAppend DEF Flows
<1> QED BY <1>4, <1>5, OtherEnd DEF Flows

(* A packet that is received, its payload passed on. *)
LEMMA RecvEffect ==
    ASSUME TypeOK, Flows, NEW e \in Ends, network[e] # <<>>,
           network' = NetworkRecv(e),
           rcvd'[e] = rcvd[e] + Head(network[e]).len,
           rcvd'[Peer(e)] = rcvd[Peer(e)],
           taken' = taken
    PROVE  Flows'
<1>1. /\ Peer(e) \in Ends /\ Peer(e) # e /\ Peer(Peer(e)) = e
      /\ network \in [Ends -> Seq(Packet)]
  BY PeerFacts DEF TypeOK, NetworkTypeOK
<1>2. network'[e] = Tail(network[e]) /\ network'[Peer(e)] = network[Peer(e)]
  BY <1>1 DEF NetworkRecv
<1>3. Flow(e)'
  BY <1>2, FlowTail DEF Flows
<1>4. Flow(Peer(e))'
  BY <1>1, <1>2, FlowIdle DEF Flows
<1> QED BY <1>3, <1>4, OtherEnd DEF Flows

(* The same with an answer that carries no data. *)
LEMMA RecvSendEffect ==
    ASSUME TypeOK, Flows, NEW e \in Ends, network[e] # <<>>,
           NEW f \in Flags, NEW s \in Int, NEW a \in Int,
           network' = NetworkRecvSend(e, Pkt(e, f, s, a, 0)),
           rcvd'[e] = rcvd[e] + Head(network[e]).len,
           rcvd'[Peer(e)] = rcvd[Peer(e)],
           taken' = taken
    PROVE  Flows'
<1> DEFINE p == Pkt(e, f, s, a, 0)
<1>1. p \in Packet /\ p.off = taken[e] /\ p.len = 0
  <2>1. p \in Packet
    BY TypePkt DEF TypeOK
  <2> QED BY <2>1 DEF Pkt
<1> HIDE DEF p
<1>2. /\ Peer(e) \in Ends /\ Peer(e) # e /\ Peer(Peer(e)) = e
      /\ network \in [Ends -> Seq(Packet)] /\ taken[e] \in Nat
  BY PeerFacts DEF TypeOK, NetworkTypeOK, WriteTypeOK
<1>3. network'[e] = Tail(network[e]) /\ network'[Peer(e)] = Append(network[Peer(e)], p)
  BY <1>2 DEF NetworkRecvSend, p
<1>4. Flow(e)'
  BY <1>2, <1>3, FlowTail DEF Flows
<1>5. Flow(Peer(e))'
  BY <1>1, <1>2, <1>3, FlowAppend DEF Flows
<1> QED BY <1>4, <1>5, OtherEnd DEF Flows

(* A received packet that is not DATA leaves the receiver's stream alone. *)
LEMMA HeadWithoutData ==
    ASSUME TypeOK, Flows, NEW e \in Ends, NoDataFirst(network[e])
    PROVE  /\ network[e] # <<>>
           /\ rcvd[e] = rcvd[e] + Head(network[e]).len
<1>1. network[e] # <<>> /\ Head(network[e]).len = 0
  BY FlowTypes, WireFacts DEF Flows, Flow, NoDataFirst
<1> QED BY <1>1, FlowTypes

-----------------------------------------------------------------------------
(* The opening of the connection. *)

(* A step of an end that is past its handshake. *)
LEMMA OpeningLoop ==
    ASSUME TypeOK, Opening, NEW e \in Ends, state[e] \in InControlLoop, NEW s,
           s \notin {"CLOSED", "SYN_SENT", "SYN_RCVD"},
           state' = [state EXCEPT ![e] = s],
           \/ network'[Peer(e)] = network[Peer(e)]
           \/ \E p \in Packet : network'[Peer(e)] = Append(network[Peer(e)], p)
    PROVE  Opening'
<1>1. /\ Peer(e) \in Ends /\ state \in [Ends -> States]
      /\ state'[e] = s /\ state'[Peer(e)] = state[Peer(e)]
  BY PeerFacts DEF TypeOK, CtxTypeOK
<1>2. NoDataFirst(network[Peer(e)]) => NoDataFirst(network[Peer(e)])'
  BY <1>1, NoDataFacts, FlowTypes
<1>3. CASE e = "active"
  <2>1. Peer(e) = "passive"
    BY <1>3 DEF Peer
  <2>2. state["passive"] # "CLOSED"
    BY <1>3 DEF Opening, BeforeSyn, InControlLoop
  <2>3. state["passive"] = "SYN_RCVD" => NoDataFirst(network["passive"])
    BY <1>3 DEF Opening, BeforeAck
  <2> QED BY <1>1, <1>2, <1>3, <2>1, <2>2, <2>3 DEF Opening, BeforeSyn, BeforeAck, BeforeSynAck
<1>4. CASE e = "passive"
  <2>1. Peer(e) = "active"
    BY <1>4 DEF Peer
  <2>2. state["active"] \in {"CLOSED", "SYN_SENT"} => NoDataFirst(network["active"])
    BY <1>4 DEF Opening, BeforeSynAck
  <2> QED BY <1>1, <1>2, <1>4, <2>1, <2>2 DEF Opening, BeforeSyn, BeforeAck, BeforeSynAck
<1> QED BY <1>3, <1>4 DEF Ends

(* The end of a process: its TCP connection closes, which the peer receives  *)
(* as a packet without data.                                                 *)
LEMMA OpeningStop ==
    ASSUME TypeOK, Opening, NEW e \in Ends, NEW s, s \in {"EXITED", "KILLED"},
           s = "EXITED" => state[e] = "EXITED",
           state' = [state EXCEPT ![e] = s],
           network' = NetworkSend(e, Pkt(e, "ERROR", 0, 0, 0))
    PROVE  Opening'
<1> DEFINE p == Pkt(e, "ERROR", 0, 0, 0)
<1>0. p \in Packet /\ p.flags # "DATA"
  <2>1. p \in Packet
    BY TypePkt DEF TypeOK, Flags
  <2> QED BY <2>1 DEF Pkt
<1> HIDE DEF p
<1>1. /\ Peer(e) \in Ends /\ Peer(e) # e /\ state \in [Ends -> States]
      /\ state'[e] = s /\ state'[Peer(e)] = state[Peer(e)]
      /\ network \in [Ends -> Seq(Packet)]
  BY PeerFacts DEF TypeOK, CtxTypeOK, NetworkTypeOK
<1>2. network'[e] = network[e] /\ network'[Peer(e)] = Append(network[Peer(e)], p)
  BY <1>1 DEF NetworkSend, p
<1>3. /\ NoDataFirst(network[Peer(e)]) \/ network[Peer(e)] = <<>>
            => NoDataFirst(network[Peer(e)])'
      /\ NoData(network[Peer(e)]) => NoData(network[Peer(e)])'
  <2>1. network[Peer(e)] \in Seq(Packet)
    BY <1>1
  <2> QED BY <1>0, <1>2, <2>1, NoDataFacts
<1>4. CASE e = "active"
  <2>1. Peer(e) = "passive"
    BY <1>4 DEF Peer
  <2>2. BeforeSyn'
    BY <1>1, <1>2, <1>3, <1>4, <2>1 DEF Opening, BeforeSyn
  <2>3. BeforeAck'
    BY <1>1, <1>3, <1>4, <2>1 DEF Opening, BeforeAck
  <2> QED BY <1>1, <1>4, <2>2, <2>3 DEF Opening, BeforeSynAck
<1>5. CASE e = "passive"
  <2>1. Peer(e) = "active"
    BY <1>5 DEF Peer
  <2>2. BeforeSynAck'
    BY <1>1, <1>3, <1>5, <2>1 DEF Opening, BeforeSynAck
  <2> QED BY <1>1, <1>5, <2>2 DEF Opening, BeforeSyn, BeforeAck
<1> QED BY <1>4, <1>5 DEF Ends

-----------------------------------------------------------------------------
(* The actions. *)

(* The invariant holds of the empty network. *)
LEMMA StreamInit == Init => StreamInv
<1> SUFFICES ASSUME Init PROVE StreamInv
  OBVIOUS
<1>1. ASSUME NEW d \in Ends PROVE Flow(d)
  <2>1. network[d] = <<>> /\ rcvd[d] = 0 /\ taken[Peer(d)] = 0
    BY PeerFacts DEF Init
  <2> QED BY <2>1 DEF Flow, Chain, Wire
<1>2. Opening
  <2>1. /\ network["active"] = <<>> /\ network["passive"] = <<>>
        /\ state["active"] = "CLOSED" /\ state["passive"] = "CLOSED"
    BY DEF Init, Ends
  <2> QED BY <2>1 DEF Opening, BeforeSyn, BeforeAck, BeforeSynAck, NoData, InControlLoop
<1> QED BY <1>1, <1>2 DEF StreamInv, Flows

(* Steps that touch neither the network nor the counters keep the invariant. *)
LEMMA StreamFrame ==
    StreamInv /\ UNCHANGED <<state, network, rcvd, taken>> => StreamInv'
BY DEF StreamInv, Flows, Flow, Opening, BeforeSyn, BeforeAck, BeforeSynAck

(* The four packets of the handshake. *)
LEMMA StreamHandshake == TypeOK /\ StreamInv /\ Handshake => StreamInv'
<1> SUFFICES ASSUME TypeOK, Flows, Opening, Handshake PROVE Flows' /\ Opening'
  BY DEF StreamInv
<1>0. /\ "active" \in Ends /\ "passive" \in Ends
      /\ Peer("active") = "passive" /\ Peer("passive") = "active"
      /\ network \in [Ends -> Seq(Packet)]
      /\ network["active"] \in Seq(Packet) /\ network["passive"] \in Seq(Packet)
      /\ state \in [Ends -> States] /\ taken \in [Ends -> Nat]
      /\ rcvd["active"] \in Nat /\ rcvd["passive"] \in Nat
      /\ isn["active"] \in Int /\ isn["passive"] \in Int
  BY DEF Ends, Peer, TypeOK, NetworkTypeOK, CtxTypeOK, WriteTypeOK, ReadTypeOK
<1>f. "SYN" \in Flags /\ "SYN_ACK" \in Flags /\ "ACK" \in Flags
  BY DEF Flags
<1>1. CASE SendSyn
  <2> DEFINE p == Pkt("active", "SYN", isn["active"], 0, 0)
  <2>1. p \in Packet /\ p.flags # "DATA"
    <3>1. p \in Packet
      BY <1>0, <1>f, TypePkt DEF TypeOK
    <3> QED BY <3>1 DEF Pkt
  <2>2. Flows'
    BY <1>0, <1>1, <1>f, SendEffect DEF SendSyn, writeVars, readVars
  <2> HIDE DEF p
  <2>3. /\ network'["active"] = network["active"]
        /\ network'["passive"] = Append(network["passive"], p)
        /\ state["active"] = "CLOSED" /\ state'["active"] = "SYN_SENT"
        /\ state'["passive"] = state["passive"]
    BY <1>0, <1>1 DEF SendSyn, NetworkSend, p
  <2>4. /\ NoData(network["passive"]) => NoData(network["passive"])'
        /\ NoDataFirst(network["passive"])
             \/ network["passive"] = <<>> => NoDataFirst(network["passive"])'
    BY <1>0, <2>1, <2>3, NoDataFacts
  <2>5. Opening'
    BY <2>3, <2>4 DEF Opening, BeforeSyn, BeforeAck, BeforeSynAck
  <2> QED BY <2>2, <2>5
<1>2. CASE RecvSynSendSynAck
  <2> DEFINE a == Head(network["passive"]).seq + 1
             p == Pkt("passive", "SYN_ACK", isn["passive"], a, 0)
  <2>0. a \in Int /\ network["passive"] # <<>> /\ state["passive"] = "CLOSED"
    <3>1. network["passive"] # <<>> /\ state["passive"] = "CLOSED"
      BY <1>2 DEF RecvSynSendSynAck
    <3>2. Head(network["passive"]) \in Packet
      BY <1>0, <3>1, TypeRecv DEF TypeOK
    <3> QED BY <3>1, <3>2 DEF Packet
  <2>1. /\ network' = NetworkRecvSend("passive", p)
        /\ rcvd' = rcvd /\ taken' = taken
        /\ state' = [state EXCEPT !["passive"] = "SYN_RCVD"]
    BY <1>2 DEF RecvSynSendSynAck, writeVars, readVars
  <2> HIDE DEF a
  <2>2. NoDataFirst(network["passive"]) /\ NoData(Tail(network["passive"]))
    <3>1. NoData(network["passive"])
      BY <2>0 DEF Opening, BeforeSyn
    <3>2. PICK x \in Packet : TRUE
      BY <1>0, <2>0
    <3> QED BY <1>0, <2>0, <3>1, <3>2, NoDataFacts
  <2>3. rcvd["passive"] = rcvd["passive"] + Head(network["passive"]).len
    BY <1>0, <2>2, HeadWithoutData
  <2>4. Flows'
    <3>1. /\ rcvd'["passive"] = rcvd["passive"] + Head(network["passive"]).len
          /\ rcvd'["active"] = rcvd["active"]
      BY <2>1, <2>3
    <3> QED BY <1>0, <1>f, <2>0, <2>1, <3>1, RecvSendEffect
  <2>5. p \in Packet /\ p.flags # "DATA"
    <3>1. p \in Packet
      BY <1>0, <1>f, <2>0, TypePkt DEF TypeOK
    <3> QED BY <3>1 DEF Pkt
  <2> HIDE DEF p
  <2>6. /\ network'["active"] = Append(network["active"], p)
        /\ network'["passive"] = Tail(network["passive"])
        /\ state'["passive"] = "SYN_RCVD" /\ state'["active"] = state["active"]
    BY <1>0, <2>1 DEF NetworkRecvSend
  <2>7. NoDataFirst(network["active"])'
    BY <1>0, <2>0, <2>5, <2>6, NoDataFacts DEF Opening, BeforeSyn
  <2>8. BeforeAck'
    <3>1. state["active"] \in {"CLOSED", "SYN_SENT", "KILLED"}
      BY <2>0 DEF Opening, BeforeSyn
    <3>2. Tail(network["passive"]) # <<>> => NoDataFirst(Tail(network["passive"]))
      <4>1. Tail(network["passive"]) \in Seq(Packet)
        BY <1>0, <2>0, TailFacts
      <4> QED BY <2>2, <2>5, <4>1, NoDataFacts
    <3> QED BY <2>6, <3>1, <3>2 DEF BeforeAck, InControlLoop
  <2> QED BY <2>4, <2>6, <2>7, <2>8 DEF Opening, BeforeSyn, BeforeSynAck
<1>3. CASE RecvSynAckSendAck
  <2> DEFINE a == Head(network["active"]).seq + 1
             p == Pkt("active", "ACK", isn["active"], a, 0)
  <2>0. a \in Int /\ network["active"] # <<>> /\ state["active"] = "SYN_SENT"
    <3>1. network["active"] # <<>> /\ state["active"] = "SYN_SENT"
      BY <1>3 DEF RecvSynAckSendAck
    <3>2. Head(network["active"]) \in Packet
      BY <1>0, <3>1, TypeRecv DEF TypeOK
    <3> QED BY <3>1, <3>2 DEF Packet
  <2>1. /\ network' = NetworkRecvSend("active", p)
        /\ rcvd' = rcvd /\ taken' = taken
        /\ state' = [state EXCEPT !["active"] = "ESTABLISHED"]
    BY <1>3 DEF RecvSynAckSendAck, Establish, writeVars, readVars
  <2> HIDE DEF a
  <2>2. NoDataFirst(network["active"])
    BY <2>0 DEF Opening, BeforeSynAck
  <2>3. /\ rcvd'["active"] = rcvd["active"] + Head(network["active"]).len
        /\ rcvd'["passive"] = rcvd["passive"]
    BY <1>0, <2>1, <2>2, HeadWithoutData
  <2>4. Flows'
    BY <1>0, <1>f, <2>0, <2>1, <2>3, RecvSendEffect
  <2>5. p \in Packet /\ p.flags # "DATA"
    <3>1. p \in Packet
      BY <1>0, <1>f, <2>0, TypePkt DEF TypeOK
    <3> QED BY <3>1 DEF Pkt
  <2> HIDE DEF p
  <2>6. /\ network'["passive"] = Append(network["passive"], p)
        /\ state'["active"] = "ESTABLISHED" /\ state'["passive"] = state["passive"]
    BY <1>0, <2>1 DEF NetworkRecvSend
  <2>7. state["passive"] # "CLOSED"
    BY <2>0 DEF Opening, BeforeSyn
  <2>8. state["passive"] = "SYN_RCVD" => NoDataFirst(network["passive"])'
    BY <1>0, <2>5, <2>6, NoDataFacts DEF Opening, BeforeAck
  <2> QED BY <2>4, <2>6, <2>7, <2>8 DEF Opening, BeforeSyn, BeforeAck, BeforeSynAck
<1>4. CASE RecvHandshakeAck
  <2>1. /\ network["passive"] # <<>> /\ state["passive"] = "SYN_RCVD"
        /\ network' = NetworkRecv("passive")
        /\ rcvd' = rcvd /\ taken' = taken
        /\ state' = [state EXCEPT !["passive"] = "ESTABLISHED"]
    BY <1>4 DEF RecvHandshakeAck, Establish, writeVars, readVars
  <2>2. NoDataFirst(network["passive"])
    BY <2>1 DEF Opening, BeforeAck
  <2>3. /\ rcvd'["passive"] = rcvd["passive"] + Head(network["passive"]).len
        /\ rcvd'["active"] = rcvd["active"]
    BY <1>0, <2>1, <2>2, HeadWithoutData
  <2>4. Flows'
    BY <1>0, <2>1, <2>3, RecvEffect
  <2>5. /\ network'["active"] = network["active"]
        /\ state'["passive"] = "ESTABLISHED" /\ state'["active"] = state["active"]
    BY <1>0, <2>1 DEF NetworkRecv
  <2>6. state["active"] \in {"CLOSED", "SYN_SENT"} => NoDataFirst(network["active"])'
    BY <2>1, <2>5 DEF Opening, BeforeSynAck
  <2> QED BY <2>4, <2>5, <2>6 DEF Opening, BeforeSyn, BeforeAck, BeforeSynAck
<1> QED BY <1>1, <1>2, <1>3, <1>4 DEF Handshake

(* The application's calls; Kill stops the process. *)
LEMMA StreamApp ==
    ASSUME TypeOK, StreamInv, NEW e \in Ends,
           AppCalls(e) \/ AppReads(e) \/ MyCloseReturns(e) \/ Kill(e)
    PROVE  StreamInv'
<1>1. CASE AppCalls(e) \/ AppReads(e)
  <2>1. UNCHANGED <<state, network, rcvd, taken>>
    BY <1>1 DEF AppCalls, AppReads, MyWrite, MyClose, PassTurn, MyRead, MyReadEof,
                ctxVars, writeVars, readVars
  <2> QED BY <2>1, StreamFrame
<1>2. CASE MyCloseReturns(e) \/ Kill(e)
  <2>1. /\ network' = NetworkSend(e, Pkt(e, "ERROR", 0, 0, 0))
        /\ rcvd' = rcvd /\ taken' = taken
    BY <1>2 DEF MyCloseReturns, Kill, Fault, writeVars, readVars
  <2>2. Flows'
    <3>1. taken'[e] = taken[e] + 0 /\ taken'[Peer(e)] = taken[Peer(e)]
      BY <2>1 DEF TypeOK, WriteTypeOK
    <3>2. "ERROR" \in Flags /\ 0 \in Int /\ 0 \in Nat
      BY DEF Flags
    <3> QED BY <2>1, <3>1, <3>2, SendEffect DEF StreamInv
  <2>3. Opening'
    <3>1. CASE MyCloseReturns(e)
      <4>1. state[e] = "EXITED" /\ state' = [state EXCEPT ![e] = "EXITED"]
        BY <3>1 DEF MyCloseReturns, ctxVars, TypeOK, CtxTypeOK
      <4> QED BY <2>1, <4>1, OpeningStop DEF StreamInv
    <3>2. CASE Kill(e)
      <4>1. state' = [state EXCEPT ![e] = "KILLED"]
        BY <3>2 DEF Kill, Fault
      <4> QED BY <2>1, <4>1, OpeningStop DEF StreamInv
    <3> QED BY <1>2, <3>1, <3>2
  <2> QED BY <2>2, <2>3 DEF StreamInv
<1> QED BY <1>1, <1>2

(* The packets control_loop receives. *)
LEMMA StreamReceive ==
    ASSUME TypeOK, StreamInv, NEW e \in Ends,
           \/ RecvData(e)
           \/ RecvAck(e)
           \/ \E junk \in Junk : RecvFirstFin(e, junk) \/ RecvLastFin(e, junk)
           \/ DropFin(e)
           \/ RecvError(e)
    PROVE  StreamInv'
<1>0. Flows /\ Opening
  BY DEF StreamInv
<1>1. state[e] \in InControlLoop /\ network[e] # <<>>
  BY DEF RecvData, RecvAck, RecvFirstFin, RecvLastFin, DropFin, RecvError, Handle, HeadIs
<1>2. /\ Peer(e) \in Ends /\ Peer(e) # e
      /\ network \in [Ends -> Seq(Packet)] /\ state \in [Ends -> States]
      /\ isn[e] \in Int /\ left[e] \in Int
      /\ rcvd \in [Ends -> Nat]
  BY PeerFacts DEF TypeOK, NetworkTypeOK, CtxTypeOK, ReadTypeOK
<1> DEFINE h == Head(network[e])
<1>3. h \in Packet /\ h = network[e][1]
  BY <1>1, <1>2
<1>4. h.seq \in Int /\ h.len \in Nat
  BY <1>3 DEF Packet
<1>5. h.flags # "DATA" => rcvd[e] = rcvd[e] + h.len
  BY <1>0, <1>1, <1>3, HeadWithoutData DEF NoDataFirst
<1>6. "ACK" \in Flags /\ "ERROR" \in Flags /\ 0 \in Int
  BY DEF Flags
<1> HIDE DEF h
(* An answer f without data, and a new state past the handshake. *)
<1>7. ASSUME NEW f \in Flags, NEW s \in Int, NEW a \in Int, NEW st,
             network' = NetworkRecvSend(e, Pkt(e, f, s, a, 0)),
             state' = [state EXCEPT ![e] = st],
             st \notin {"CLOSED", "SYN_SENT", "SYN_RCVD"},
             rcvd'[e] = rcvd[e] + h.len, rcvd'[Peer(e)] = rcvd[Peer(e)],
             taken' = taken
      PROVE  StreamInv'
  <2>1. Flows'
    BY <1>0, <1>1, <1>7, RecvSendEffect DEF h
  <2>2. network'[Peer(e)] = Append(network[Peer(e)], Pkt(e, f, s, a, 0))
    BY <1>2, <1>7 DEF NetworkRecvSend
  <2>3. Pkt(e, f, s, a, 0) \in Packet
    BY <1>7, TypePkt DEF TypeOK
  <2>4. Opening'
    BY <1>0, <1>1, <1>7, <2>2, <2>3, OpeningLoop
  <2> QED BY <2>1, <2>4 DEF StreamInv
(* No answer. *)
<1>8. ASSUME NEW st,
             network' = NetworkRecv(e),
             state' = [state EXCEPT ![e] = st],
             st \notin {"CLOSED", "SYN_SENT", "SYN_RCVD"},
             h.flags # "DATA", rcvd' = rcvd, taken' = taken
      PROVE  StreamInv'
  <2>1. Flows'
    <3>1. rcvd'[e] = rcvd[e] + Head(network[e]).len /\ rcvd'[Peer(e)] = rcvd[Peer(e)]
      BY <1>5, <1>8 DEF h
    <3> QED BY <1>0, <1>1, <1>8, <3>1, RecvEffect
  <2>2. network'[Peer(e)] = network[Peer(e)]
    BY <1>2, <1>8 DEF NetworkRecv
  <2>3. Opening'
    BY <1>0, <1>1, <1>8, <2>2, OpeningLoop
  <2> QED BY <2>1, <2>3 DEF StreamInv
<1>9. state[e] \notin {"CLOSED", "SYN_SENT", "SYN_RCVD"} /\ state = [state EXCEPT ![e] = state[e]]
  BY <1>1, <1>2 DEF InControlLoop
<1>10. CASE RecvData(e)
  <2> DEFINE a == h.seq + h.len
  <2>1. a \in Int
    BY <1>4
  <2>2. /\ network' = NetworkRecvSend(e, Pkt(e, "ACK", isn[e], a, 0))
        /\ state' = state /\ taken' = taken
        /\ rcvd' = [rcvd EXCEPT ![e] = @ + h.len]
    BY <1>10 DEF RecvData, writeVars, h
  <2> HIDE DEF a
  <2>3. rcvd'[e] = rcvd[e] + h.len /\ rcvd'[Peer(e)] = rcvd[Peer(e)]
    BY <1>2, <2>2
  <2> QED BY <1>2, <1>6, <1>7, <1>9, <2>1, <2>2, <2>3
<1>11. CASE RecvAck(e)
  <2>1. /\ network' = NetworkRecv(e) /\ rcvd' = rcvd /\ taken' = taken
        /\ state' = [state EXCEPT ![e] = AfterAck(state[e])]
        /\ h.flags # "DATA"
    BY <1>11 DEF RecvAck, HeadIs, writeVars, readVars, h
  <2>2. AfterAck(state[e]) \notin {"CLOSED", "SYN_SENT", "SYN_RCVD"}
    BY <1>9 DEF AfterAck
  <2> QED BY <1>8, <2>1, <2>2
<1>12. ASSUME NEW junk \in Junk, RecvFirstFin(e, junk) \/ RecvLastFin(e, junk)
       PROVE  StreamInv'
  <2>1. /\ network' = NetworkRecvSend(e, Pkt(e, "ACK", left[e], junk, 0))
        /\ rcvd' = rcvd /\ taken' = taken
        /\ \/ state' = [state EXCEPT ![e] = "CLOSE_WAIT"]
           \/ state' = [state EXCEPT ![e] = "DONE"]
        /\ h.flags # "DATA"
    BY <1>12 DEF RecvFirstFin, RecvLastFin, HeadIs, writeVars, readVars, h
  <2>2. junk \in Int
    BY ConstantsAssumption
  <2>3. rcvd'[e] = rcvd[e] + h.len /\ rcvd'[Peer(e)] = rcvd[Peer(e)]
    BY <1>5, <2>1
  <2>4. CASE state' = [state EXCEPT ![e] = "CLOSE_WAIT"]
    BY <1>2, <1>6, <1>7, <2>1, <2>2, <2>3, <2>4
  <2>5. CASE state' = [state EXCEPT ![e] = "DONE"]
    BY <1>2, <1>6, <1>7, <2>1, <2>2, <2>3, <2>5
  <2> QED BY <2>1, <2>4, <2>5
<1>13. CASE DropFin(e)
  <2>1. /\ network' = NetworkRecv(e) /\ rcvd' = rcvd /\ taken' = taken
        /\ state' = state /\ h.flags # "DATA"
    BY <1>13 DEF DropFin, HeadIs, ctxVars, writeVars, readVars, h
  <2> QED BY <1>8, <1>9, <2>1
<1>14. CASE RecvError(e)
  <2>1. /\ network' = NetworkRecvSend(e, Pkt(e, "ERROR", 0, 0, 0))
        /\ rcvd' = rcvd /\ taken' = taken
        /\ state' = [state EXCEPT ![e] = "CRASHED"] /\ h.flags # "DATA"
    BY <1>14 DEF RecvError, Fault, HeadIs, writeVars, readVars, h
  <2>2. rcvd'[e] = rcvd[e] + h.len /\ rcvd'[Peer(e)] = rcvd[Peer(e)]
    BY <1>5, <2>1
  <2> QED BY <1>6, <1>7, <2>1, <2>2
<1> QED BY <1>10, <1>11, <1>12, <1>13, <1>14

(* The packets control_loop sends for the application, the wait and the exit. *)
LEMMA StreamSending ==
    ASSUME TypeOK, StreamInv, NEW e \in Ends,
           \/ WaitForEvent(e)
           \/ \E m \in app_recv_queue[e] : SendAppData(e, m)
           \/ SendNegativeWindow(e)
           \/ SendFin(e)
           \/ TransportExit(e)
    PROVE  StreamInv'
<1>0. Flows /\ Opening
  BY DEF StreamInv
<1>1. /\ Peer(e) \in Ends /\ Peer(e) # e
      /\ network \in [Ends -> Seq(Packet)] /\ state \in [Ends -> States]
      /\ left[e] \in Int /\ taken \in [Ends -> Nat]
  BY PeerFacts DEF TypeOK, NetworkTypeOK, CtxTypeOK, WriteTypeOK
<1>2. "DATA" \in Flags /\ "FIN" \in Flags /\ "ERROR" \in Flags /\ 0 \in Int /\ 0 \in Nat
  BY DEF Flags
(* A packet with the next n bytes, and a new state past the handshake. *)
<1>3. ASSUME NEW f \in Flags, NEW s \in Int, NEW n \in Nat, NEW st,
             f # "DATA" => n = 0,
             state[e] \in InControlLoop,
             st \notin {"CLOSED", "SYN_SENT", "SYN_RCVD"},
             network' = NetworkSend(e, Pkt(e, f, s, 0, n)),
             state' = [state EXCEPT ![e] = st],
             rcvd' = rcvd, taken'[e] = taken[e] + n, taken'[Peer(e)] = taken[Peer(e)]
      PROVE  StreamInv'
  <2>1. Flows'
    BY <1>0, <1>2, <1>3, SendEffect
  <2>2. network'[Peer(e)] = Append(network[Peer(e)], Pkt(e, f, s, 0, n))
    BY <1>1, <1>3 DEF NetworkSend
  <2>3. Pkt(e, f, s, 0, n) \in Packet
    BY <1>2, <1>3, TypePkt DEF TypeOK
  <2>4. Opening'
    BY <1>0, <1>3, <2>2, <2>3, OpeningLoop
  <2> QED BY <2>1, <2>4 DEF StreamInv
<1>4. CASE WaitForEvent(e)
  BY <1>4, StreamFrame DEF WaitForEvent, ctxVars, writeVars, readVars
<1>5. ASSUME NEW m \in app_recv_queue[e], SendAppData(e, m)
      PROVE  StreamInv'
  <2> DEFINE n == MIN(MIN(send_wind[e], MSS), m - taken[e])
  <2>1. n \in Nat
    BY <1>5, SegmentFacts DEF SendAppData
  <2>2. state[e] \in InControlLoop /\ state' = state /\ rcvd' = rcvd
    BY <1>5 DEF SendAppData, Handle, readVars
  <2>3. CASE n = 0
    BY <1>5, <2>2, <2>3, StreamFrame DEF SendAppData
  <2>4. CASE n # 0
    <3>1. /\ network' = NetworkSend(e, Pkt(e, "DATA", left[e], 0, n))
          /\ taken' = [taken EXCEPT ![e] = @ + n]
      BY <1>5, <2>4 DEF SendAppData
    <3> HIDE DEF n
    <3>2. taken'[e] = taken[e] + n /\ taken'[Peer(e)] = taken[Peer(e)]
      BY <1>1, <3>1
    <3>3. /\ state[e] \notin {"CLOSED", "SYN_SENT", "SYN_RCVD"}
          /\ state' = [state EXCEPT ![e] = state[e]]
      BY <1>1, <2>2 DEF InControlLoop
    <3> QED BY <1>1, <1>2, <1>3, <2>1, <2>2, <3>1, <3>2, <3>3
  <2> QED BY <2>3, <2>4
<1>6. CASE SendNegativeWindow(e)
  <2>1. /\ state[e] \in InControlLoop
        /\ network' = NetworkSend(e, Pkt(e, "ERROR", 0, 0, 0))
        /\ state' = [state EXCEPT ![e] = "CRASHED"] /\ rcvd' = rcvd /\ taken' = taken
    BY <1>6 DEF SendNegativeWindow, Handle, Fault, writeVars, readVars
  <2>2. taken'[e] = taken[e] + 0 /\ taken'[Peer(e)] = taken[Peer(e)]
    BY <1>1, <2>1
  <2> QED BY <1>2, <1>3, <2>1, <2>2
<1>7. CASE SendFin(e)
  <2> DEFINE st == IF state[e] = "CLOSE_WAIT" THEN "LAST_ACK" ELSE "FIN_WAIT"
  <2>1. /\ state[e] \in InControlLoop
        /\ network' = NetworkSend(e, Pkt(e, "FIN", left[e], 0, 0))
        /\ state' = [state EXCEPT ![e] = st] /\ rcvd' = rcvd /\ taken' = taken
    BY <1>7 DEF SendFin, Handle, writeVars, readVars
  <2>2. taken'[e] = taken[e] + 0 /\ taken'[Peer(e)] = taken[Peer(e)]
    BY <1>1, <2>1
  <2>3. st \notin {"CLOSED", "SYN_SENT", "SYN_RCVD"}
    OBVIOUS
  <2> HIDE DEF st
  <2> QED BY <1>1, <1>2, <1>3, <2>1, <2>2, <2>3
<1>8. CASE TransportExit(e)
  <2>1. /\ state[e] = "DONE" /\ state' = [state EXCEPT ![e] = "EXITED"]
        /\ network' = network /\ rcvd' = rcvd /\ taken' = taken
    BY <1>8 DEF TransportExit, writeVars
  <2>2. Flows'
    BY <1>0, <2>1 DEF Flows, Flow
  <2>3. Opening'
    <3>1. state'[e] = "EXITED" /\ \A d \in Ends : d # e => state'[d] = state[d]
      BY <1>1, <2>1
    <3> QED BY <1>0, <2>1, <3>1 DEF Opening, BeforeSyn, BeforeAck, BeforeSynAck,
                                    InControlLoop, Ends
  <2> QED BY <2>2, <2>3 DEF StreamInv
<1> QED BY <1>4, <1>5, <1>6, <1>7, <1>8

(* The invariant is inductive. *)
LEMMA StreamStep == TypeOK /\ StreamInv /\ [Next]_vars => StreamInv'
<1>1. TypeOK /\ StreamInv /\ Next => StreamInv'
  BY StreamHandshake, StreamApp, StreamReceive, StreamSending DEF Next, ControlLoop
<1>2. StreamInv /\ UNCHANGED vars => StreamInv'
  BY StreamFrame DEF vars, ctxVars, writeVars, readVars
<1> QED BY <1>1, <1>2

(* No byte an application wrote is lost, repeated or reordered between       *)
(* stcp_app_recv at one end and stcp_app_send at the other, whatever the     *)
(* applications do, how the writes are cut into packets and who is killed.   *)
THEOREM StreamSafety == Spec => []StreamIntact
<1>1. StreamInv => StreamIntact
  <2> SUFFICES ASSUME StreamInv, NEW e \in Ends
               PROVE  Chain(network[Peer(e)], rcvd[Peer(e)], taken[e])
    BY DEF StreamIntact, Chain
  <2> QED BY PeerFacts DEF StreamInv, Flows, Flow
<1> QED BY TypeCorrect, StreamInit, StreamStep, <1>1, PTL DEF Spec

-----------------------------------------------------------------------------
(* Closing, the window and exchanges. *)

Early == {"CLOSED", "SYN_SENT", "SYN_RCVD"}

(* A FIN was sent. *)
FinSent == {"FIN_WAIT", "FIN_SENT_ACK_RECIEVED", "LAST_ACK", "DONE", "EXITED"}

(* A FIN was received. *)
FinReceived == {"CLOSE_WAIT", "LAST_ACK", "DONE", "EXITED"}

HasClosed(e) == app[e] \in {"closing", "closed"}

(* The application of e uses its mysocket only between the handshake and its *)
(* myclose.                                                                  *)
AppInOrder(e) ==
    /\ state[e] \in Early => app[e] = "blocked" /\ written[e] = 0 /\ send_wind[e] = SWS
    /\ close_requested[e] => HasClosed(e)

(* Written bytes are queued until stcp_app_recv has taken them all. *)
AllQueued(e) == taken[e] < written[e] => written[e] \in app_recv_queue[e]

(* The transport acts on a close only when it has taken all data, and the    *)
(* application writes none afterwards.                                       *)
AllTaken(e) ==
    "APP_CLOSE_REQUESTED" \in event[e] \/ state[e] \in FinSent =>
        HasClosed(e) /\ taken[e] = written[e]

(* No packet in the direction of d lies beyond what its sender has taken; a  *)
(* FIN follows all data.                                                     *)
PacketsBounded(d) ==
    \A i \in 1 .. Len(network[d]) :
        LET p == network[d][i] IN
        /\ p.off + p.len <= taken[Peer(d)]
        /\ p.flags = "FIN" => HasClosed(Peer(d)) /\ p.off = written[Peer(d)]

(* A received FIN, or the end of the transport, ends the stream. *)
StreamEnded(e) ==
    eof_queued[e] \/ state[e] \in FinReceived =>
        HasClosed(Peer(e)) /\ rcvd[e] = written[Peer(e)]

CloseInvOf(e) ==
    AppInOrder(e) /\ AllQueued(e) /\ AllTaken(e) /\ PacketsBounded(e) /\ StreamEnded(e)

CloseInv == \A e \in Ends : CloseInvOf(e)

-----------------------------------------------------------------------------
(* Every step is a step of one end, which changes nothing of its peer's. *)

Opens(e) ==
    \/ e = "active" /\ (SendSyn \/ RecvSynAckSendAck)
    \/ e = "passive" /\ (RecvSynSendSynAck \/ RecvHandshakeAck)

Uses(e) == AppCalls(e) \/ AppReads(e)

Stops(e) == MyCloseReturns(e) \/ Kill(e)

Step(e) == Opens(e) \/ ControlLoop(e) \/ Uses(e) \/ Stops(e)

(* Every step is a step of one end. *)
LEMMA NextIsStep == Next => \E e \in Ends : Step(e)
BY DEF Next, Handshake, Step, Opens, Uses, Stops, Ends

Untouched(d) ==
    /\ state'[d] = state[d] /\ isn'[d] = isn[d] /\ left'[d] = left[d]
    /\ send_wind'[d] = send_wind[d] /\ event'[d] = event[d]
    /\ app_recv_queue'[d] = app_recv_queue[d] /\ written'[d] = written[d]
    /\ taken'[d] = taken[d] /\ rcvd'[d] = rcvd[d] /\ eof_queued'[d] = eof_queued[d]
    /\ close_requested'[d] = close_requested[d] /\ app'[d] = app[d]

(* A step of one end leaves the variables of the other end alone. *)
LEMMA StepLocal ==
    ASSUME TypeOK, NEW e \in Ends, Step(e)
    PROVE  Untouched(Peer(e))
<1> DEFINE d == Peer(e)
<1>1. d \in Ends /\ d # e
  BY PeerFacts
<1>2. /\ DOMAIN state = Ends /\ DOMAIN isn = Ends /\ DOMAIN left = Ends
      /\ DOMAIN send_wind = Ends /\ DOMAIN event = Ends
      /\ DOMAIN app_recv_queue = Ends /\ DOMAIN written = Ends /\ DOMAIN taken = Ends
      /\ DOMAIN rcvd = Ends /\ DOMAIN eof_queued = Ends
      /\ DOMAIN close_requested = Ends /\ DOMAIN app = Ends
  BY DEF TypeOK, CtxTypeOK, EventTypeOK, WriteTypeOK, ReadTypeOK, AppTypeOK
<1> HIDE DEF d
<1> USE DEF Untouched
<1>3. CASE Opens(e)
  BY <1>1, <1>2, <1>3 DEF Opens, SendSyn, RecvSynAckSendAck, RecvSynSendSynAck,
     RecvHandshakeAck, Establish, writeVars, readVars, appVars, d
<1>4. CASE Uses(e)
  BY <1>1, <1>2, <1>4 DEF Uses, AppCalls, AppReads, MyWrite, MyClose, PassTurn, MyRead,
     MyReadEof, ctxVars, writeVars, readVars, appVars, d
<1>5. CASE Stops(e)
  BY <1>1, <1>2, <1>5 DEF Stops, MyCloseReturns, Kill, Fault, ctxVars, writeVars,
     readVars, d
<1>6. CASE ControlLoop(e)
  <2>1. CASE WaitForEvent(e) \/ TransportExit(e)
    BY <1>1, <1>2, <2>1 DEF WaitForEvent, TransportExit, ctxVars, writeVars, readVars,
       appVars, d
  <2>2. CASE RecvData(e) \/ RecvAck(e) \/ DropFin(e) \/ RecvError(e)
    BY <1>1, <1>2, <2>2 DEF RecvData, RecvAck, DropFin, RecvError, Handle, Fault, ctxVars,
       writeVars, readVars, appVars, d
  <2>3. ASSUME NEW junk \in Junk, RecvFirstFin(e, junk) \/ RecvLastFin(e, junk)
        PROVE  Untouched(d)
    BY <1>1, <1>2, <2>3 DEF RecvFirstFin, RecvLastFin, Handle, writeVars, readVars,
       appVars, d
  <2>4. ASSUME NEW m \in app_recv_queue[e], SendAppData(e, m)
        PROVE  Untouched(d)
    BY <1>1, <1>2, <2>4 DEF SendAppData, Handle, readVars, appVars, d
  <2>5. CASE SendNegativeWindow(e) \/ SendFin(e)
    BY <1>1, <1>2, <2>5 DEF SendNegativeWindow, SendFin, Handle, Fault, writeVars,
       readVars, appVars, d
  <2> QED BY <1>6, <2>1, <2>2, <2>3, <2>4, <2>5 DEF ControlLoop, d
<1> QED BY <1>3, <1>4, <1>5, <1>6 DEF Step, d

(* What each kind of packet is sent by, and where it lies in the stream. *)
Cause(e, f) ==
    /\ f = "FIN" => SendFin(e)
    /\ f = "DATA" => \E m \in app_recv_queue[e] : SendAppData(e, m)
    /\ f = "ACK" =>
           \/ RecvData(e) \/ \E junk \in Junk : RecvFirstFin(e, junk) \/ RecvLastFin(e, junk)
           \/ e = "active" /\ RecvSynAckSendAck

Sent(e, p) ==
    /\ network'[Peer(e)] = Append(network[Peer(e)], p)
    /\ p.off = taken[e] /\ p.off + p.len = taken'[e]
    /\ Cause(e, p.flags)

(* A step takes at most the first packet and sends at most one. *)
LEMMA StepNetwork ==
    ASSUME TypeOK, NEW e \in Ends, Step(e)
    PROVE  /\ \/ network'[e] = network[e]
              \/ network[e] # <<>> /\ network'[e] = Tail(network[e])
           /\ \/ network'[Peer(e)] = network[Peer(e)] /\ taken'[e] = taken[e]
              \/ \E p \in Packet : Sent(e, p)
<1> DEFINE d == Peer(e)
<1>1. d \in Ends /\ d # e /\ DOMAIN network = Ends
  BY PeerFacts DEF TypeOK, NetworkTypeOK
<1>2. isn[e] \in Int /\ left[e] \in Int /\ taken[e] \in Nat /\ taken \in [Ends -> Nat]
  BY DEF TypeOK, CtxTypeOK, WriteTypeOK
(* An answer, with or without taking the head of the own queue. *)
<1>3. ASSUME NEW p \in Packet, network' = NetworkSend(e, p) \/ network' = NetworkRecvSend(e, p)
      PROVE  /\ network'[d] = Append(network[d], p)
             /\ network'[e] = network[e] \/ network'[e] = Tail(network[e])
  BY <1>1, <1>3 DEF NetworkSend, NetworkRecvSend
<1>4. ASSUME network' = NetworkRecv(e)
      PROVE  network'[d] = network[d] /\ network'[e] = Tail(network[e])
  BY <1>1, <1>4 DEF NetworkRecv
(* A packet without payload. *)
<1>5. ASSUME NEW f \in Flags, NEW q \in Int, NEW a \in Int, taken' = taken,
             Cause(e, f),
             network'[d] = Append(network[d], Pkt(e, f, q, a, 0))
      PROVE  \E p \in Packet : Sent(e, p)
  <2> DEFINE p == Pkt(e, f, q, a, 0)
  <2>1. p \in Packet
    BY <1>5, TypePkt DEF TypeOK
  <2>2. p.flags = f /\ p.off = taken[e] /\ p.off + p.len = taken'[e]
    BY <1>2, <1>5 DEF Pkt
  <2> HIDE DEF p
  <2>3. network'[d] = Append(network[d], p)
    BY <1>5 DEF p
  <2> QED BY <1>5, <2>1, <2>2, <2>3 DEF Sent
<1>6. /\ "SYN" \in Flags /\ "SYN_ACK" \in Flags /\ "ACK" \in Flags /\ "FIN" \in Flags
      /\ "ERROR" \in Flags /\ "DATA" \in Flags /\ 0 \in Int /\ 0 \in Nat
  BY DEF Flags
<1>7. /\ network[e] # <<>> => Head(network[e]).seq \in Int /\ Head(network[e]).len \in Nat
      /\ network[e] # <<>> => Head(network[e]).seq + 1 \in Int
      /\ network[e] # <<>> => Head(network[e]).seq + Head(network[e]).len \in Int
  <2>1. ASSUME network[e] # <<>> PROVE Head(network[e]) \in Packet
    BY <2>1, TypeRecv DEF TypeOK
  <2>2. ASSUME network[e] # <<>>
        PROVE Head(network[e]).seq \in Int /\ Head(network[e]).len \in Nat
    BY <2>1, <2>2 DEF Packet
  <2> QED BY <2>2
<1>8. CASE Opens(e)
  <2>1. CASE e = "active" /\ SendSyn
    <3> DEFINE p == Pkt(e, "SYN", isn[e], 0, 0)
    <3>1. network' = NetworkSend(e, p) /\ taken' = taken
      BY <2>1 DEF SendSyn, writeVars
    <3>2. p \in Packet
      BY <1>2, <1>6, TypePkt DEF TypeOK
    <3>3. network'[e] = network[e] /\ network'[d] = Append(network[d], p)
      BY <1>1, <3>1 DEF NetworkSend
    <3>4. Cause(e, "SYN")
      BY DEF Cause
    <3> QED BY <1>2, <1>5, <1>6, <3>1, <3>3, <3>4
  <2>2. CASE e = "active" /\ RecvSynAckSendAck
    <3> DEFINE b == Head(network[e]).seq + 1
               p == Pkt(e, "ACK", isn[e], b, 0)
    <3>1. network' = NetworkRecvSend(e, p) /\ taken' = taken /\ network[e] # <<>>
      BY <2>2 DEF RecvSynAckSendAck, writeVars
    <3>2. b \in Int
      BY <1>7, <3>1
    <3>3. network'[e] = Tail(network[e]) /\ network'[d] = Append(network[d], p)
      BY <1>1, <3>1 DEF NetworkRecvSend
    <3> HIDE DEF b
    <3>4. Cause(e, "ACK")
      BY <2>2 DEF Cause
    <3> QED BY <1>2, <1>5, <1>6, <3>1, <3>2, <3>3, <3>4
  <2>3. CASE e = "passive" /\ RecvSynSendSynAck
    <3> DEFINE b == Head(network[e]).seq + 1
               p == Pkt(e, "SYN_ACK", isn[e], b, 0)
    <3>1. network' = NetworkRecvSend(e, p) /\ taken' = taken /\ network[e] # <<>>
      BY <2>3 DEF RecvSynSendSynAck, writeVars
    <3>2. b \in Int
      BY <1>7, <3>1
    <3>3. network'[e] = Tail(network[e]) /\ network'[d] = Append(network[d], p)
      BY <1>1, <3>1 DEF NetworkRecvSend
    <3> HIDE DEF b
    <3>4. Cause(e, "SYN_ACK")
      BY DEF Cause
    <3> QED BY <1>2, <1>5, <1>6, <3>1, <3>2, <3>3, <3>4
  <2>4. CASE e = "passive" /\ RecvHandshakeAck
    <3>1. network' = NetworkRecv(e) /\ taken' = taken /\ network[e] # <<>>
      BY <2>4 DEF RecvHandshakeAck, writeVars
    <3> QED BY <1>4, <3>1
  <2> QED BY <1>8, <2>1, <2>2, <2>3, <2>4 DEF Opens
<1>9. CASE Uses(e)
  BY <1>9 DEF Uses, AppCalls, AppReads, MyWrite, MyClose, PassTurn, MyRead,
     MyReadEof, writeVars
<1>10. CASE Stops(e) \/ SendNegativeWindow(e) \/ RecvError(e)
  <2> DEFINE p == Pkt(e, "ERROR", 0, 0, 0)
  <2>1. p \in Packet
    BY <1>6, TypePkt DEF TypeOK
  <2>2. /\ network' = NetworkSend(e, p) \/ (network[e] # <<>> /\ network' = NetworkRecvSend(e, p))
        /\ taken' = taken
    BY <1>10 DEF Stops, MyCloseReturns, Kill, SendNegativeWindow, RecvError, HeadIs, Fault,
       writeVars
  <2>3. /\ network'[e] = network[e] \/ (network[e] # <<>> /\ network'[e] = Tail(network[e]))
        /\ network'[d] = Append(network[d], p)
    BY <1>1, <2>2 DEF NetworkSend, NetworkRecvSend
  <2>4. Cause(e, "ERROR")
    BY DEF Cause
  <2> QED BY <1>5, <1>6, <2>2, <2>3, <2>4
<1>11. CASE WaitForEvent(e) \/ TransportExit(e)
  BY <1>11 DEF WaitForEvent, TransportExit, writeVars
<1>12. CASE RecvData(e)
  <2> DEFINE b == Head(network[e]).seq + Head(network[e]).len
             p == Pkt(e, "ACK", isn[e], b, 0)
  <2>1. network' = NetworkRecvSend(e, p) /\ taken' = taken /\ network[e] # <<>>
    BY <1>12 DEF RecvData, HeadIs, writeVars
  <2>2. b \in Int
    BY <1>7, <2>1
  <2>3. network'[e] = Tail(network[e]) /\ network'[d] = Append(network[d], p)
    BY <1>1, <2>1 DEF NetworkRecvSend
  <2> HIDE DEF b
  <2>4. Cause(e, "ACK")
    BY <1>12 DEF Cause
  <2> QED BY <1>2, <1>5, <1>6, <2>1, <2>2, <2>3, <2>4
<1>13. CASE RecvAck(e) \/ DropFin(e)
  <2>1. network' = NetworkRecv(e) /\ taken' = taken /\ network[e] # <<>>
    BY <1>13 DEF RecvAck, DropFin, HeadIs, writeVars
  <2> QED BY <1>4, <2>1
<1>14. ASSUME NEW junk \in Junk, RecvFirstFin(e, junk) \/ RecvLastFin(e, junk)
       PROVE  /\ network[e] # <<>> /\ network'[e] = Tail(network[e])
              /\ \E p \in Packet : Sent(e, p)
  <2> DEFINE p == Pkt(e, "ACK", left[e], junk, 0)
  <2>1. network' = NetworkRecvSend(e, p) /\ taken' = taken /\ network[e] # <<>>
    BY <1>14 DEF RecvFirstFin, RecvLastFin, HeadIs, writeVars
  <2>2. junk \in Int
    BY ConstantsAssumption
  <2>3. network'[e] = Tail(network[e]) /\ network'[d] = Append(network[d], p)
    BY <1>1, <2>1 DEF NetworkRecvSend
  <2>4. Cause(e, "ACK")
    BY <1>14 DEF Cause
  <2> QED BY <1>2, <1>5, <1>6, <2>1, <2>2, <2>3, <2>4
<1>15. ASSUME NEW m \in app_recv_queue[e], SendAppData(e, m)
       PROVE  /\ network'[e] = network[e]
              /\ \/ network'[d] = network[d] /\ taken'[e] = taken[e]
                 \/ \E p \in Packet : Sent(e, p)
  <2> DEFINE n == MIN(MIN(send_wind[e], MSS), m - taken[e])
             p == Pkt(e, "DATA", left[e], 0, n)
  <2>1. CASE n = 0
    BY <1>15, <2>1 DEF SendAppData
  <2>2. CASE n # 0
    <3>1. network' = NetworkSend(e, p) /\ taken' = [taken EXCEPT ![e] = @ + n]
      BY <1>15, <2>2 DEF SendAppData
    <3>2. n \in Nat
      BY <1>15, SegmentFacts DEF SendAppData
    <3>3. network'[e] = network[e] /\ network'[d] = Append(network[d], p)
      BY <1>1, <3>1 DEF NetworkSend
    <3> HIDE DEF n
    <3>4. taken'[e] = taken[e] + n
      BY <1>2, <3>1
    <3>5. p \in Packet
      BY <1>2, <1>6, <3>2, TypePkt DEF TypeOK
    <3>6. p.flags = "DATA" /\ p.off = taken[e] /\ p.off + p.len = taken'[e]
      BY <1>2, <3>2, <3>4 DEF Pkt
    <3> HIDE DEF p
    <3>7. Cause(e, "DATA")
      BY <1>15 DEF Cause
    <3> QED BY <3>3, <3>5, <3>6, <3>7 DEF Sent
  <2> QED BY <2>1, <2>2
<1>16. CASE SendFin(e)
  <2> DEFINE p == Pkt(e, "FIN", left[e], 0, 0)
  <2>1. network' = NetworkSend(e, p) /\ taken' = taken
    BY <1>16 DEF SendFin, writeVars
  <2>2. network'[e] = network[e] /\ network'[d] = Append(network[d], p)
    BY <1>1, <2>1 DEF NetworkSend
  <2>3. Cause(e, "FIN")
    BY <1>16 DEF Cause
  <2> QED BY <1>2, <1>5, <1>6, <2>1, <2>2, <2>3
<1> QED BY <1>8, <1>9, <1>10, <1>11, <1>12, <1>13, <1>14, <1>15, <1>16
        DEF Step, ControlLoop

-----------------------------------------------------------------------------
(* Closing. *)

(* The types of the variables of one end. *)
LEMMA EndTypes ==
    ASSUME TypeOK, NEW e \in Ends
    PROVE  /\ network[e] \in Seq(Packet) /\ Len(network[e]) \in Nat
           /\ written[e] \in Nat /\ taken[e] \in Nat /\ rcvd[e] \in Nat
           /\ taken[e] <= written[e]
           /\ app_recv_queue[e] \subseteq (taken[e] + 1) .. written[e]
           /\ isn[e] \in Int /\ left[e] \in Int /\ send_wind[e] \in Int
BY DEF TypeOK, NetworkTypeOK, WriteTypeOK, ReadTypeOK, CtxTypeOK

(* A step of e in terms of the variables that are about closing. *)
LEMMA StepEarly ==
    ASSUME TypeOK, NEW e \in Ends, Opens(e)
    PROVE  /\ state[e] \in Early /\ state'[e] \in Early \cup {"ESTABLISHED"}
           /\ state'[e] \in Early => app' = app
           /\ state'[e] = "ESTABLISHED" => app'[e] = "open"
           /\ UNCHANGED <<written, taken, app_recv_queue, close_requested, event,
                          send_wind, eof_queued, rcvd>>
<1>1. DOMAIN state = Ends /\ DOMAIN app = Ends
  BY DEF TypeOK, CtxTypeOK, AppTypeOK
<1> QED BY <1>1 DEF Opens, SendSyn, RecvSynAckSendAck, RecvSynSendSynAck,
     RecvHandshakeAck, Establish, writeVars, readVars, appVars, Early

(* myclose is final: afterwards the application does not write. *)
LEMMA ClosedStays ==
    ASSUME TypeOK, NEW e \in Ends, Step(e), AppInOrder(e), HasClosed(e)
    PROVE  HasClosed(e)' /\ written'[e] = written[e]
<1>1. DOMAIN app = Ends /\ DOMAIN written = Ends
  BY DEF TypeOK, AppTypeOK, WriteTypeOK
<1>2. CASE Opens(e)
  BY <1>2, StepEarly DEF AppInOrder, HasClosed
<1>3. CASE Uses(e)
  BY <1>1, <1>3 DEF HasClosed, Uses, AppCalls, AppReads, MyWrite, MyClose, PassTurn, MyRead,
     MyReadEof, appVars, writeVars
<1>4. CASE Stops(e)
  BY <1>1, <1>4 DEF HasClosed, Stops, MyCloseReturns, Kill, Fault, writeVars
<1>5. CASE ControlLoop(e)
  BY <1>1, <1>5 DEF HasClosed, ControlLoop, WaitForEvent, TransportExit, RecvData, RecvAck,
     RecvFirstFin, RecvLastFin, DropFin, RecvError, SendAppData, SendNegativeWindow, SendFin,
     Fault, writeVars, appVars
<1> QED BY <1>2, <1>3, <1>4, <1>5 DEF Step

(* Without data in the queue, stcp_app_recv takes nothing. *)
LEMMA TakenStays ==
    ASSUME TypeOK, NEW e \in Ends, Step(e), taken[e] = written[e]
    PROVE  taken'[e] = taken[e]
<1>1. app_recv_queue[e] = {}
  BY EndTypes
<1>2. CASE Opens(e)
  BY <1>2, StepEarly
<1>3. CASE Uses(e) \/ Stops(e)
  BY <1>3 DEF Uses, AppCalls, AppReads, MyWrite, MyClose, PassTurn, MyRead,
     MyReadEof, Stops, MyCloseReturns, Kill, Fault, writeVars
<1>4. CASE ControlLoop(e)
  BY <1>1, <1>4 DEF ControlLoop, WaitForEvent, TransportExit, RecvData, RecvAck,
     RecvFirstFin, RecvLastFin, DropFin, RecvError, SendNegativeWindow, SendFin,
     Fault, writeVars
<1> QED BY <1>2, <1>3, <1>4 DEF Step

(* The application keeps to its order of calls. *)
LEMMA AppInOrderStep ==
    ASSUME TypeOK, NEW e \in Ends, Step(e), AppInOrder(e)
    PROVE  AppInOrder(e)'
<1>1. DOMAIN app = Ends /\ DOMAIN written = Ends /\ DOMAIN close_requested = Ends
      /\ DOMAIN state = Ends /\ DOMAIN send_wind = Ends
  BY DEF TypeOK, AppTypeOK, WriteTypeOK, CtxTypeOK
<1>2. HasClosed(e) => HasClosed(e)'
  BY ClosedStays
<1>3. CASE Opens(e)
  BY <1>2, <1>3, StepEarly DEF AppInOrder
<1>4. CASE Uses(e)
  BY <1>1, <1>2, <1>4 DEF AppInOrder, HasClosed, Uses, AppCalls, AppReads, MyWrite, MyClose,
     PassTurn, MyRead, MyReadEof, appVars, writeVars, ctxVars
<1>5. CASE Stops(e)
  BY <1>1, <1>2, <1>5 DEF AppInOrder, Early, HasClosed, Stops, MyCloseReturns, Kill, Fault,
     writeVars, ctxVars
<1>6. CASE ControlLoop(e)
  <2>1. state[e] \in InControlLoop \cup {"DONE"} /\ state'[e] \notin Early
    BY <1>1, <1>6 DEF ControlLoop, WaitForEvent, TransportExit, RecvData, RecvAck, AfterAck,
       RecvFirstFin, RecvLastFin, DropFin, RecvError, SendAppData, SendNegativeWindow,
       SendFin, Fault, Handle, ctxVars, Early, InControlLoop
  <2>2. close_requested'[e] => close_requested[e]
    BY <1>1, <1>6 DEF ControlLoop, WaitForEvent, TransportExit, RecvData, RecvAck,
       RecvFirstFin, RecvLastFin, DropFin, RecvError, SendAppData, SendNegativeWindow,
       SendFin, Fault, appVars
  <2> QED BY <1>2, <2>1, <2>2 DEF AppInOrder
<1> QED BY <1>3, <1>4, <1>5, <1>6 DEF Step

(* Bytes that were written and not taken stay queued. *)
LEMMA AllQueuedStep ==
    ASSUME TypeOK, NEW e \in Ends, Step(e), AllQueued(e)
    PROVE  AllQueued(e)'
<1>1. /\ written \in [Ends -> Nat] /\ taken \in [Ends -> Nat]
      /\ app_recv_queue \in [Ends -> SUBSET Nat]
  BY DEF TypeOK, WriteTypeOK
<1>2. ASSUME UNCHANGED writeVars
      PROVE  AllQueued(e)'
  BY <1>2 DEF AllQueued, writeVars
<1>3. CASE Opens(e)
  BY <1>2, <1>3, StepEarly DEF writeVars
<1>4. ASSUME NEW n \in WriteSizes, MyWrite(e, n)
      PROVE  AllQueued(e)'
  BY <1>1, <1>4 DEF MyWrite, AllQueued
<1>5. CASE MyClose(e) \/ PassTurn(e) \/ AppReads(e) \/ Stops(e)
  BY <1>2, <1>5 DEF AppReads, MyClose, PassTurn, MyRead, MyReadEof, Stops, MyCloseReturns,
     Kill, Fault
<1>6. ASSUME NEW m \in app_recv_queue[e], SendAppData(e, m)
      PROVE  AllQueued(e)'
  <2> DEFINE n == MIN(MIN(send_wind[e], MSS), m - taken[e])
  <2>1. CASE n = 0
    BY <1>2, <1>6, <2>1 DEF SendAppData, writeVars
  <2>2. CASE n # 0
    <3>1. /\ taken' = [taken EXCEPT ![e] = @ + n] /\ written' = written
          /\ app_recv_queue' = [app_recv_queue EXCEPT ![e] = {k \in @ : k > taken[e] + n}]
      BY <1>6, <2>2 DEF SendAppData
    <3>2. n \in Nat
      BY <1>6, SegmentFacts DEF SendAppData
    <3> HIDE DEF n
    <3> QED BY <1>1, <3>1, <3>2 DEF AllQueued
  <2> QED BY <2>1, <2>2
<1>7. ASSUME ControlLoop(e), \A m \in app_recv_queue[e] : ~ SendAppData(e, m)
      PROVE  AllQueued(e)'
  BY <1>2, <1>7 DEF ControlLoop, WaitForEvent, TransportExit, RecvData, RecvAck,
     RecvFirstFin, RecvLastFin, DropFin, RecvError, SendNegativeWindow, SendFin, Fault
<1> QED BY <1>3, <1>4, <1>5, <1>6, <1>7 DEF Step, Uses, AppCalls

(* The close is reported to control_loop, and the FIN sent, after all data. *)
LEMMA AllTakenStep ==
    ASSUME TypeOK, NEW e \in Ends, Step(e), AppInOrder(e), AllQueued(e), AllTaken(e)
    PROVE  AllTaken(e)'
<1> DEFINE Closing == "APP_CLOSE_REQUESTED" \in event[e] \/ state[e] \in FinSent
<1>1. DOMAIN event = Ends /\ DOMAIN state = Ends
  BY DEF TypeOK, EventTypeOK, CtxTypeOK
<1>2. ASSUME HasClosed(e), taken[e] = written[e]
      PROVE  AllTaken(e)'
  BY <1>2, ClosedStays, TakenStays DEF AllTaken
<1>3. ASSUME Closing
      PROVE  AllTaken(e)'
  BY <1>2, <1>3 DEF AllTaken
<1>4. ASSUME event'[e] \subseteq event[e], state'[e] \in FinSent => state[e] \in FinSent
      PROVE  AllTaken(e)'
  BY <1>3, <1>4 DEF AllTaken
<1>5. CASE Opens(e)
  BY <1>4, <1>5, StepEarly DEF Early, FinSent
<1>6. CASE Uses(e)
  BY <1>4, <1>6 DEF Uses, AppCalls, AppReads, MyWrite, MyClose, PassTurn, MyRead,
     MyReadEof, ctxVars
<1>7. CASE Stops(e)
  BY <1>1, <1>4, <1>7 DEF Stops, MyCloseReturns, Kill, Fault, ctxVars, FinSent
<1>8. CASE WaitForEvent(e)
  <2>1. CASE "APP_CLOSE_REQUESTED" \in Ready(e)
    <3>1. close_requested[e] /\ app_recv_queue[e] = {}
      BY <2>1 DEF Ready
    <3>2. taken[e] = written[e]
      BY <3>1, EndTypes DEF AllQueued
    <3> QED BY <1>2, <3>1, <3>2 DEF AppInOrder
  <2>2. CASE "APP_CLOSE_REQUESTED" \notin Ready(e)
    <3>1. event'[e] = Ready(e) /\ state' = state
      BY <1>1, <1>8 DEF WaitForEvent, ctxVars
    <3> QED BY <1>3, <2>2, <3>1 DEF AllTaken
  <2> QED BY <2>1, <2>2
<1>9. CASE SendFin(e)
  BY <1>3, <1>9 DEF SendFin, Handle
<1>10. CASE TransportExit(e)
  BY <1>3, <1>10 DEF TransportExit, FinSent
<1>11. CASE RecvAck(e)
  BY <1>1, <1>4, <1>11 DEF RecvAck, Handle, AfterAck, FinSent
<1>12. ASSUME NEW junk \in Junk, RecvFirstFin(e, junk) \/ RecvLastFin(e, junk)
       PROVE  AllTaken(e)'
  BY <1>1, <1>4, <1>12 DEF RecvFirstFin, RecvLastFin, Handle, FinSent
<1>13. CASE RecvData(e) \/ DropFin(e) \/ RecvError(e) \/ SendNegativeWindow(e)
            \/ \E m \in app_recv_queue[e] : SendAppData(e, m)
  BY <1>1, <1>4, <1>13 DEF RecvData, DropFin, RecvError, SendNegativeWindow, SendAppData,
     Handle, Fault, ctxVars, FinSent
<1> QED BY <1>5, <1>6, <1>7, <1>8, <1>9, <1>10, <1>11, <1>12, <1>13 DEF Step, ControlLoop

(* What stcp_app_recv has taken stays taken. *)
LEMMA TakenGrows ==
    ASSUME TypeOK, NEW e \in Ends, Step(e)
    PROVE  taken[e] <= taken'[e]
<1>1. taken[e] \in Nat
  BY EndTypes
<1>2. CASE taken'[e] = taken[e]
  BY <1>1, <1>2
<1>3. ASSUME NEW p \in Packet, Sent(e, p)
      PROVE  taken[e] <= taken'[e]
  BY <1>1, <1>3 DEF Sent, Packet
<1> QED BY <1>2, <1>3, StepNetwork

(* The direction towards the end that takes the step: a head may go. *)
LEMMA BoundedIn ==
    ASSUME TypeOK, NEW e \in Ends, Step(e), PacketsBounded(e)
    PROVE  PacketsBounded(e)'
<1>1. /\ taken'[Peer(e)] = taken[Peer(e)] /\ written'[Peer(e)] = written[Peer(e)]
      /\ app'[Peer(e)] = app[Peer(e)]
  BY StepLocal DEF Untouched
<1>2. CASE network'[e] = network[e]
  BY <1>1, <1>2 DEF PacketsBounded, HasClosed
<1>3. CASE network[e] # <<>> /\ network'[e] = Tail(network[e])
  <2>1. network[e] \in Seq(Packet)
    BY EndTypes
  <2> DEFINE q == network[e]
             s == Tail(q)
  <2>2. /\ Len(q) \in Nat /\ Len(s) = Len(q) - 1
        /\ \A i \in 1 .. Len(s) : s[i] = q[i + 1]
    BY <1>3, <2>1, TailFacts
  <2>3. \A i \in 1 .. Len(s) : i + 1 \in 1 .. Len(q)
    BY <2>2
  <2>4. network'[e] = s
    BY <1>3
  <2> HIDE DEF s
  <2> QED BY <1>1, <2>2, <2>3, <2>4 DEF PacketsBounded, HasClosed
<1> QED BY <1>2, <1>3, StepNetwork

(* The direction away from it: a packet may be added. *)
LEMMA BoundedOut ==
    ASSUME TypeOK, NEW e \in Ends, Step(e), AppInOrder(e), AllTaken(e),
           PacketsBounded(Peer(e))
    PROVE  PacketsBounded(Peer(e))'
<1> DEFINE d == Peer(e)
<1>1. d \in Ends /\ Peer(d) = e
  BY PeerFacts
<1>2. /\ network[d] \in Seq(Packet) /\ Len(network[d]) \in Nat
      /\ taken[e] \in Nat /\ taken[e] <= taken'[e]
  BY <1>1, EndTypes, TakenGrows
<1>3. HasClosed(e) => HasClosed(e)' /\ written'[e] = written[e]
  BY ClosedStays
<1>t. taken'[e] \in Int
  <2>1. CASE taken'[e] = taken[e]
    BY <1>2, <2>1
  <2>2. ASSUME NEW p \in Packet, Sent(e, p)
        PROVE  taken'[e] \in Int
    BY <2>2 DEF Sent, Packet
  <2> QED BY <2>1, <2>2, StepNetwork
<1> HIDE DEF d
<1>4. ASSUME NEW i \in 1 .. Len(network[d])
      PROVE  /\ network[d][i].off + network[d][i].len <= taken'[e]
             /\ network[d][i].flags = "FIN" =>
                    HasClosed(e)' /\ network[d][i].off = written'[e]
  <2>1. network[d][i] \in Packet
    BY <1>2
  <2>2. network[d][i].off \in Nat /\ network[d][i].len \in Nat
    BY <2>1 DEF Packet
  <2>3. /\ network[d][i].off + network[d][i].len <= taken[e]
        /\ network[d][i].flags = "FIN" => HasClosed(e) /\ network[d][i].off = written[e]
    BY <1>1 DEF PacketsBounded, d
  <2>4. network[d][i].off + network[d][i].len <= taken'[e]
    BY <1>2, <1>t, <2>2, <2>3
  <2> QED BY <1>3, <2>3, <2>4
<1>5. CASE network'[d] = network[d]
  BY <1>1, <1>4, <1>5 DEF PacketsBounded, d
<1>6. ASSUME NEW p \in Packet, Sent(e, p)
      PROVE  PacketsBounded(d)'
  <2> DEFINE s == Append(network[d], p)
  <2>1. network'[d] = s /\ p.off = taken[e] /\ p.off + p.len = taken'[e]
    BY <1>6 DEF Sent, d
  <2>2. /\ Len(s) = Len(network[d]) + 1 /\ s[Len(network[d]) + 1] = p
        /\ \A i \in 1 .. Len(network[d]) : s[i] = network[d][i]
    BY <1>2, AppendFacts
  <2>3. p.off + p.len <= taken'[e]
    BY <1>t, <2>1
  <2>4. p.flags = "FIN" => HasClosed(e)' /\ p.off = written'[e]
    <3>1. SUFFICES ASSUME p.flags = "FIN"
                   PROVE  HasClosed(e) /\ taken[e] = written[e]
      BY <1>3, <2>1
    <3>2. SendFin(e)
      BY <1>6, <3>1 DEF Sent, Cause
    <3> QED BY <3>2 DEF SendFin, AllTaken
  <2>5. \A i \in 1 .. Len(s) : i \in 1 .. Len(network[d]) \/ i = Len(network[d]) + 1
    BY <1>2, <2>2
  <2> HIDE DEF s
  <2>6. ASSUME NEW i \in 1 .. Len(s)
        PROVE  /\ s[i].off + s[i].len <= taken'[e]
               /\ s[i].flags = "FIN" => HasClosed(e)' /\ s[i].off = written'[e]
    BY <1>4, <2>2, <2>3, <2>4, <2>5
  <2> QED BY <1>1, <2>1, <2>6 DEF PacketsBounded, d
<1>7. network'[d] = network[d] \/ \E p \in Packet : Sent(e, p)
  BY StepNetwork DEF d
<1> QED BY <1>5, <1>6, <1>7 DEF d

(* What the packets on their way to e leave to be received. *)
LEMMA RcvdLimit ==
    ASSUME TypeOK, NEW e \in Ends, Flow(e), PacketsBounded(e)
    PROVE  /\ rcvd[e] <= taken[Peer(e)]
           /\ network[e] # <<>> =>
                  /\ rcvd[e] + Head(network[e]).len <= taken[Peer(e)]
                  /\ Head(network[e]).off = rcvd[e]
<1>1. /\ network[e] \in Seq(Packet) /\ rcvd[e] \in Nat /\ taken[Peer(e)] \in Nat
  BY FlowTypes
<1>2. CASE network[e] = <<>>
  BY <1>1, <1>2 DEF Flow, Chain
<1>3. CASE network[e] # <<>>
  <2>1. Head(network[e]) = network[e][1] /\ 1 \in 1 .. Len(network[e])
    BY <1>1, <1>3
  <2>2. network[e][1] \in Packet
    BY <1>1, <2>1
  <2>3. network[e][1].off = rcvd[e]
    BY <1>3 DEF Flow, Chain
  <2>4. network[e][1].off + network[e][1].len <= taken[Peer(e)]
    BY <2>1 DEF PacketsBounded
  <2>5. network[e][1].off \in Nat /\ network[e][1].len \in Nat
    BY <2>2 DEF Packet
  <2> QED BY <1>1, <2>1, <2>3, <2>4, <2>5
<1> QED BY <1>2, <1>3

(* Only a data packet moves rcvd. *)
LEMMA RcvdStep ==
    ASSUME TypeOK, NEW e \in Ends, Step(e)
    PROVE  \/ rcvd'[e] = rcvd[e]
           \/ RecvData(e) /\ network[e] # <<>> /\ rcvd'[e] = rcvd[e] + Head(network[e]).len
<1>1. DOMAIN rcvd = Ends
  BY DEF TypeOK, ReadTypeOK
<1>2. CASE Opens(e)
  BY <1>2, StepEarly
<1>3. CASE Uses(e) \/ Stops(e)
  BY <1>3 DEF Uses, AppCalls, AppReads, MyWrite, MyClose, PassTurn, MyRead,
     MyReadEof, Stops, MyCloseReturns, Kill, Fault, readVars
<1>4. CASE ControlLoop(e)
  BY <1>1, <1>4 DEF ControlLoop, WaitForEvent, TransportExit, RecvData, RecvAck,
     RecvFirstFin, RecvLastFin, DropFin, RecvError, SendAppData, SendNegativeWindow,
     SendFin, Fault, readVars, HeadIs
<1> QED BY <1>2, <1>3, <1>4 DEF Step

(* The end of the stream towards e, once reached, stays. *)
LEMMA StreamEndedStep ==
    ASSUME TypeOK, StreamInv, NEW e \in Ends, Step(e), PacketsBounded(e), StreamEnded(e)
    PROVE  StreamEnded(e)'
<1> DEFINE d == Peer(e)
<1>1. d \in Ends /\ Flow(e)
  BY PeerFacts DEF StreamInv, Flows
<1>2. app'[d] = app[d] /\ written'[d] = written[d]
  BY StepLocal DEF Untouched
<1>3. ASSUME HasClosed(d), rcvd[e] = written[d]
      PROVE  StreamEnded(e)'
  <2>1. rcvd[e] \in Nat /\ taken[d] \in Nat /\ written[d] \in Nat /\ taken[d] <= written[d]
    BY <1>1, EndTypes
  <2>2. rcvd'[e] = rcvd[e]
    <3>1. CASE network[e] # <<>> /\ rcvd'[e] = rcvd[e] + Head(network[e]).len
      <4>1. Head(network[e]).len \in Nat
        BY <3>1, TypeRecv DEF TypeOK, Packet
      <4>2. rcvd[e] + Head(network[e]).len <= taken[d]
        BY <1>1, <3>1, RcvdLimit
      <4> HIDE DEF d
      <4> QED BY <1>3, <2>1, <3>1, <4>1, <4>2
    <3> QED BY <3>1, RcvdStep
  <2> QED BY <1>2, <1>3, <2>2 DEF StreamEnded, HasClosed
<1>4. ASSUME eof_queued'[e] => eof_queued[e] \/ state[e] \in FinReceived,
             state'[e] \in FinReceived => eof_queued[e] \/ state[e] \in FinReceived
      PROVE  StreamEnded(e)'
  BY <1>3, <1>4 DEF StreamEnded
<1>5. ASSUME network[e] # <<>>, Head(network[e]).flags = "FIN"
      PROVE  StreamEnded(e)'
  <2>1. Head(network[e]) = network[e][1] /\ 1 \in 1 .. Len(network[e])
    BY <1>5, EndTypes
  <2>2. HasClosed(d) /\ Head(network[e]).off = written[d]
    BY <1>5, <2>1 DEF PacketsBounded
  <2>3. Head(network[e]).off = rcvd[e]
    BY <1>1, <1>5, RcvdLimit
  <2> QED BY <1>3, <2>2, <2>3
<1>6. DOMAIN state = Ends /\ DOMAIN eof_queued = Ends
  BY DEF TypeOK, CtxTypeOK, ReadTypeOK
<1>7. CASE Opens(e)
  BY <1>4, <1>7, StepEarly DEF Early, FinReceived
<1>8. CASE Uses(e) \/ Stops(e)
  BY <1>4, <1>6, <1>8 DEF Uses, AppCalls, AppReads, MyWrite, MyClose, PassTurn, MyRead,
     MyReadEof, Stops, MyCloseReturns, Kill, Fault, ctxVars, readVars, FinReceived
<1>9. ASSUME NEW junk \in Junk, RecvFirstFin(e, junk) \/ RecvLastFin(e, junk)
      PROVE  StreamEnded(e)'
  BY <1>5, <1>9 DEF RecvFirstFin, RecvLastFin, HeadIs
<1>10. CASE TransportExit(e)
  BY <1>4, <1>6, <1>10 DEF TransportExit, FinReceived
<1>11. CASE RecvAck(e)
  BY <1>4, <1>6, <1>11 DEF RecvAck, AfterAck, readVars, FinReceived
<1>12. CASE SendFin(e)
  BY <1>4, <1>6, <1>12 DEF SendFin, readVars, FinReceived
<1>13. CASE WaitForEvent(e) \/ RecvData(e) \/ DropFin(e) \/ RecvError(e)
            \/ SendNegativeWindow(e) \/ \E m \in app_recv_queue[e] : SendAppData(e, m)
  BY <1>4, <1>6, <1>13 DEF WaitForEvent, RecvData, DropFin, RecvError, SendNegativeWindow,
     SendAppData, Fault, ctxVars, readVars, FinReceived
<1> QED BY <1>7, <1>8, <1>9, <1>10, <1>11, <1>12, <1>13 DEF Step, ControlLoop

(* One step keeps the invariant of both ends. *)
LEMMA CloseStep == TypeOK /\ StreamInv /\ CloseInv /\ [Next]_vars => CloseInv'
<1> SUFFICES ASSUME TypeOK, StreamInv, CloseInv, [Next]_vars
             PROVE  CloseInv'
  OBVIOUS
<1>1. ASSUME NEW e \in Ends, Step(e)
      PROVE  CloseInv'
  <2> DEFINE d == Peer(e)
  <2>1. d \in Ends /\ Peer(d) = e /\ CloseInvOf(e) /\ CloseInvOf(d)
    BY PeerFacts DEF CloseInv
  <2>2. Untouched(d)
    BY <1>1, StepLocal
  <2>3. AppInOrder(e)' /\ AllQueued(e)' /\ AllTaken(e)' /\ PacketsBounded(e)' /\ StreamEnded(e)'
    BY <1>1, <2>1, AppInOrderStep, AllQueuedStep, AllTakenStep, BoundedIn, StreamEndedStep
       DEF CloseInvOf
  <2>4. AppInOrder(d)' /\ AllQueued(d)' /\ AllTaken(d)'
    BY <2>1, <2>2 DEF CloseInvOf, Untouched, AppInOrder, AllQueued, AllTaken, HasClosed
  <2>5. PacketsBounded(d)'
    BY <1>1, <2>1, BoundedOut DEF CloseInvOf
  <2>6. StreamEnded(d)'
    <3>1. HasClosed(e) => HasClosed(e)' /\ written'[e] = written[e]
      BY <1>1, <2>1, ClosedStays DEF CloseInvOf
    <3> QED BY <2>1, <2>2, <3>1 DEF CloseInvOf, Untouched, StreamEnded
  <2>7. CloseInvOf(e)' /\ CloseInvOf(d)'
    BY <2>3, <2>4, <2>5, <2>6 DEF CloseInvOf
  <2>8. \A c \in Ends : c = e \/ c = d
    BY OtherEnd
  <2> QED BY <2>7, <2>8 DEF CloseInv
<1>2. CASE UNCHANGED vars
  BY <1>2 DEF CloseInv, CloseInvOf, AppInOrder, AllQueued, AllTaken, PacketsBounded,
     StreamEnded, HasClosed, vars, ctxVars, writeVars, readVars, appVars
<1> QED BY <1>1, <1>2, NextIsStep

(* The invariant holds before the handshake. *)
LEMMA CloseInit == Init => CloseInv
BY DEF Init, CloseInv, CloseInvOf, AppInOrder, AllQueued, AllTaken, PacketsBounded,
   StreamEnded, HasClosed, Early, FinSent, FinReceived

(* The end of a stream is reported by myread, and the end of a transport     *)
(* reached, only after all bytes of both applications, for every use of the  *)
(* mysockets and every junk in the acknowledgement of a FIN.                 *)
THEOREM ClosingSafety == Spec => []ClosingLosesNothing
<1>1. TypeOK /\ CloseInv => ClosingLosesNothing
  <2> SUFFICES ASSUME TypeOK, CloseInv, NEW e \in Ends
               PROVE  /\ eof_queued[e] =>
                          /\ rcvd[e] = written[Peer(e)]
                          /\ app[Peer(e)] \in {"closing", "closed"}
                      /\ state[e] \in {"DONE", "EXITED"} =>
                          /\ taken[e] = written[e]
                          /\ rcvd[e] = written[Peer(e)]
                          /\ app[e] # "open"
                          /\ app[Peer(e)] \in {"closing", "closed"}
    BY DEF ClosingLosesNothing, EofMeansAll, DoneMeansBothClosed
  <2> QED BY DEF CloseInv, CloseInvOf, StreamEnded, AllTaken, HasClosed, FinSent, FinReceived
<1> QED BY TypeCorrect, StreamInit, StreamStep, TypeInit, TypeStep, CloseInit, CloseStep,
           <1>1, PTL DEF Spec

-----------------------------------------------------------------------------
(* The window.  control_loop keeps three counters that the two directions of *)
(* a connection share: isn is overwritten by th_ack and incremented by       *)
(* received data, and left is set back to it.  WindowInv bounds what every   *)
(* packet on its way can still make of send_wind.                            *)

CanSend == {"ESTABLISHED", "CLOSE_WAIT"}

(* Bytes of e that the peer has not taken from the network. *)
InFlight(e) == taken[e] - rcvd[Peer(e)]

(* An acknowledgement with th_ack = a would leave send_wind[e] + a - isn[e]. *)
AcksBounded(e) ==
    \A i \in 1 .. Len(network[e]) : network[e][i].flags = "ACK" =>
        send_wind[e] + network[e][i].ack - isn[e] + InFlight(e) <= SWS

(* The same for the acknowledgement that a data packet will be answered with. *)
DataBounded(e) ==
    \A i \in 1 .. Len(network[Peer(e)]) : LET p == network[Peer(e)][i] IN
        p.flags = "DATA" =>
            send_wind[e] + p.seq - isn[e] + (taken[e] - p.off) <= SWS

CountersBounded(e) ==
    /\ send_wind[e] + InFlight(e) <= SWS
    /\ send_wind[e] + left[e] - isn[e] <= SWS

FlightBounded(e) ==
    /\ InFlight(e) <= SWS
    /\ state[e] \in CanSend => AcksBounded(e) /\ DataBounded(e) /\ CountersBounded(e)

Without(q, F) == \A i \in 1 .. Len(q) : q[i].flags \notin F

(* Only an end that can send no more has sent a FIN, which is answered with  *)
(* an uninitialised th_ack; and before the handshake is over an end has sent *)
(* nothing that is acknowledged.                                             *)
FinsLast(e) ==
    /\ state[e] \in CanSend => Without(network[Peer(e)], {"FIN"})
    /\ state[e] \in Early => Without(network[Peer(e)], {"FIN", "DATA"})

(* transport_init takes the ACK of the handshake away: no acknowledgement is *)
(* there when control_loop starts.                                           *)
NothingBefore ==
    state["active"] = "CLOSED" =>
        network["passive"] = <<>> /\ state["passive"] # "SYN_RCVD"

AcksOfActive ==
    state["active"] \in {"CLOSED", "SYN_SENT"} =>
        /\ Without(network["active"], {"ACK"})
        /\ Without(network["passive"], {"ACK"})
        /\ state["passive"] \notin CanSend
        /\ state["passive"] = "CLOSED" => Len(network["passive"]) <= 1
        /\ state["passive"] = "SYN_RCVD" => network["passive"] = <<>>

AcksOfPassive ==
    /\ state["passive"] = "CLOSED" =>
           network["active"] = <<>> /\ Without(network["passive"], {"ACK"})
    /\ state["passive"] = "SYN_RCVD" =>
           \A i \in 2 .. Len(network["passive"]) : network["passive"][i].flags # "ACK"

HandshakeAcks == NothingBefore /\ AcksOfActive /\ AcksOfPassive

WindowInv == (\A e \in Ends : FlightBounded(e) /\ FinsLast(e)) /\ HandshakeAcks

(* How a step of e changes its place in the protocol. *)
LEMMA StepState ==
    ASSUME TypeOK, NEW e \in Ends, Step(e)
    PROVE  /\ Uses(e) => state' = state /\ network' = network
           /\ state'[e] = "CLOSED" => Uses(e)
           /\ state'[e] = "SYN_SENT" => Uses(e) \/ (e = "active" /\ SendSyn)
           /\ state'[e] = "SYN_RCVD" => Uses(e) \/ (e = "passive" /\ RecvSynSendSynAck)
           /\ state'[e] \in CanSend => Opens(e) \/ state[e] \in CanSend
<1>1. DOMAIN state = Ends
  BY DEF TypeOK, CtxTypeOK
<1>2. Uses(e) => state' = state /\ network' = network
  BY DEF Uses, AppCalls, AppReads, MyWrite, MyClose, PassTurn, MyRead, MyReadEof, ctxVars
<1>3. CASE Opens(e)
  BY <1>1, <1>2, <1>3 DEF Opens, SendSyn, RecvSynAckSendAck, RecvSynSendSynAck,
     RecvHandshakeAck, Establish, CanSend
<1>4. CASE Uses(e)
  BY <1>2, <1>4
<1>5. CASE Stops(e)
  BY <1>1, <1>2, <1>5 DEF Stops, MyCloseReturns, Kill, Fault, ctxVars, CanSend
<1>6. CASE ControlLoop(e)
  BY <1>1, <1>2, <1>6 DEF ControlLoop, WaitForEvent, TransportExit, RecvData, RecvAck,
     AfterAck, RecvFirstFin, RecvLastFin, DropFin, RecvError, SendAppData,
     SendNegativeWindow, SendFin, Fault, Handle, ctxVars, InControlLoop, CanSend
<1> QED BY <1>3, <1>4, <1>5, <1>6 DEF Step

(* The packets towards e after its step were there before; of the packets    *)
(* towards its peer only the last one can be new.                            *)
LEMMA PacketsIn ==
    ASSUME TypeOK, NEW e \in Ends, Step(e), NEW i \in 1 .. Len(network'[e])
    PROVE  \E j \in 1 .. Len(network[e]) : j >= i /\ network'[e][i] = network[e][j]
<1>1. network[e] \in Seq(Packet) /\ Len(network[e]) \in Nat
  BY EndTypes
<1>2. CASE network'[e] = network[e]
  BY <1>1, <1>2
<1>3. CASE network[e] # <<>> /\ network'[e] = Tail(network[e])
  <2> DEFINE s == Tail(network[e])
  <2>1. /\ Len(s) = Len(network[e]) - 1
        /\ \A k \in 1 .. Len(s) : s[k] = network[e][k + 1]
    BY <1>1, <1>3, TailFacts
  <2>2. i \in 1 .. Len(s) /\ network'[e] = s
    BY <1>3
  <2> HIDE DEF s
  <2>3. i + 1 \in 1 .. Len(network[e]) /\ i + 1 >= i /\ network'[e][i] = network[e][i + 1]
    BY <1>1, <2>1, <2>2
  <2> QED BY <2>3
<1> QED BY <1>2, <1>3, StepNetwork

(* Of the packets towards the peer only the last one can be new. *)
LEMMA PacketsOut ==
    ASSUME TypeOK, NEW e \in Ends, Step(e), NEW i \in 1 .. Len(network'[Peer(e)])
    PROVE  \/ i \in 1 .. Len(network[Peer(e)]) /\ network'[Peer(e)][i] = network[Peer(e)][i]
           \/ /\ i = Len(network[Peer(e)]) + 1
              /\ network'[Peer(e)][i] \in Packet /\ Sent(e, network'[Peer(e)][i])
<1> DEFINE d == Peer(e)
<1>1. d \in Ends /\ network[d] \in Seq(Packet) /\ Len(network[d]) \in Nat
  BY PeerFacts, EndTypes
<1> SUFFICES \/ i \in 1 .. Len(network[d]) /\ network'[d][i] = network[d][i]
             \/ /\ i = Len(network[d]) + 1
                /\ network'[d][i] \in Packet /\ Sent(e, network'[d][i])
  OBVIOUS
<1>2. CASE network'[d] = network[d]
  BY <1>2
<1>3. ASSUME NEW p \in Packet, Sent(e, p)
      PROVE  \/ i \in 1 .. Len(network[d]) /\ network'[d][i] = network[d][i]
             \/ i = Len(network[d]) + 1 /\ network'[d][i] = p
  <2> DEFINE s == Append(network[d], p)
  <2>1. network'[d] = s
    BY <1>3 DEF Sent
  <2>2. /\ Len(s) = Len(network[d]) + 1 /\ s[Len(network[d]) + 1] = p
        /\ \A k \in 1 .. Len(network[d]) : s[k] = network[d][k]
    BY <1>1, AppendFacts
  <2>3. i \in 1 .. Len(s)
    BY <2>1
  <2> HIDE DEF s, d
  <2>4. i \in 1 .. Len(network[d]) \/ i = Len(network[d]) + 1
    BY <1>1, <2>2, <2>3
  <2> QED BY <2>1, <2>2, <2>4
<1>4. network'[d] = network[d] \/ \E p \in Packet : Sent(e, p)
  BY StepNetwork
<1> HIDE DEF d
<1> QED BY <1>2, <1>3, <1>4

(* A packet of the given kind is new only after the step that sends it. *)
LEMMA WithoutIn ==
    ASSUME TypeOK, NEW e \in Ends, Step(e), NEW F, Without(network[e], F)
    PROVE  Without(network[e], F)'
BY PacketsIn DEF Without

(* Kinds of packets that a step does not send stay away. *)
LEMMA WithoutOut ==
    ASSUME TypeOK, NEW e \in Ends, Step(e), NEW F, Without(network[Peer(e)], F),
           \A f \in F : ~ Cause(e, f)
    PROVE  Without(network[Peer(e)], F)'
BY PacketsOut DEF Without, Sent

(* Neither FIN nor DATA is sent by an end that stays where it may send, or   *)
(* stays in its handshake.                                                   *)
LEMMA FinsLastStep ==
    ASSUME TypeOK, NEW e \in Ends, Step(e), FinsLast(e), FinsLast(Peer(e))
    PROVE  FinsLast(e)' /\ FinsLast(Peer(e))'
<1> DEFINE d == Peer(e)
<1>1. d \in Ends /\ Peer(d) = e /\ state'[d] = state[d]
  BY PeerFacts, StepLocal DEF Untouched
<1>2. FinsLast(d)'
  BY <1>1, WithoutIn DEF FinsLast
<1>3. DOMAIN state = Ends
  BY DEF TypeOK, CtxTypeOK
<1>4. state'[e] \in CanSend => Without(network[d], {"FIN"})'
  <2> SUFFICES ASSUME state'[e] \in CanSend
               PROVE  Without(network[d], {"FIN"})'
    OBVIOUS
  <2>1. Without(network[d], {"FIN"})
    <3>1. CASE Opens(e)
      BY <3>1, StepEarly DEF FinsLast, Without
    <3>2. CASE state[e] \in CanSend
      BY <3>2 DEF FinsLast
    <3> QED BY <3>1, <3>2, StepState
  <2>2. ~ Cause(e, "FIN")
    BY <1>3 DEF Cause, SendFin, CanSend
  <2> QED BY <2>1, <2>2, WithoutOut
<1>5. state'[e] \in Early => Without(network[d], {"FIN", "DATA"})'
  <2> SUFFICES ASSUME state'[e] \in Early
               PROVE  Without(network[d], {"FIN", "DATA"})'
    OBVIOUS
  <2>1. state[e] \in Early
    BY StepState, StepEarly DEF Early, Opens
  <2>2. ~ Cause(e, "FIN") /\ ~ Cause(e, "DATA")
    BY <2>1 DEF Cause, SendFin, SendAppData, Handle, Early, InControlLoop
  <2> QED BY <2>1, <2>2, WithoutOut DEF FinsLast
<1> QED BY <1>2, <1>4, <1>5 DEF FinsLast

(* An acknowledgement is sent by the active end's handshake or by            *)
(* control_loop for a DATA or FIN that was there.                            *)
LEMMA AckCause ==
    ASSUME TypeOK, NEW e \in Ends, Cause(e, "ACK")
    PROVE  /\ network[e] # <<>>
           /\ \/ state[e] \in InControlLoop /\ ~ Without(network[e], {"FIN", "DATA"})
              \/ e = "active" /\ RecvSynAckSendAck
<1>1. CASE e = "active" /\ RecvSynAckSendAck
  BY <1>1 DEF RecvSynAckSendAck
<1>2. ASSUME state[e] \in InControlLoop, HeadIs(e, "DATA") \/ HeadIs(e, "FIN")
      PROVE  network[e] # <<>> /\ ~ Without(network[e], {"FIN", "DATA"})
  <2>1. network[e] # <<>> /\ Head(network[e]).flags \in {"FIN", "DATA"}
    BY <1>2 DEF HeadIs
  <2>2. Head(network[e]) = network[e][1] /\ 1 \in 1 .. Len(network[e])
    BY <2>1, EndTypes
  <2> QED BY <2>1, <2>2 DEF Without
<1>3. CASE RecvData(e)
  BY <1>2, <1>3 DEF RecvData, Handle
<1>4. CASE \E junk \in Junk : RecvFirstFin(e, junk) \/ RecvLastFin(e, junk)
  BY <1>2, <1>4 DEF RecvFirstFin, RecvLastFin, Handle
<1> QED BY <1>1, <1>2, <1>3, <1>4 DEF Cause, RecvData, RecvFirstFin, RecvLastFin, Handle

(* Nothing is sent before the SYN. *)
LEMMA NothingBeforeStep ==
    ASSUME TypeOK, NEW e \in Ends, Step(e), HandshakeAcks
    PROVE  NothingBefore'
<1> SUFFICES ASSUME state'["active"] = "CLOSED"
             PROVE  network'["passive"] = <<>> /\ state'["passive"] # "SYN_RCVD"
  BY DEF NothingBefore
<1>1. CASE e = "active"
  BY <1>1, StepState DEF HandshakeAcks, NothingBefore
<1>2. CASE e = "passive"
  <2>1. state'["active"] = state["active"]
    BY <1>2, StepLocal DEF Untouched, Peer
  <2>2. network["passive"] = <<>> /\ state["passive"] # "SYN_RCVD"
    BY <2>1 DEF HandshakeAcks, NothingBefore
  <2>3. network'["passive"] = <<>>
    BY <1>2, <2>2, StepNetwork
  <2> QED BY <1>2, <2>2, <2>3, StepState DEF RecvSynSendSynAck
<1> QED BY <1>1, <1>2 DEF Ends

(* Nothing is acknowledged before the active end has the SYN-ACK. *)
LEMMA AcksOfActiveStep ==
    ASSUME TypeOK, NEW e \in Ends, Step(e), HandshakeAcks, \A c \in Ends : FinsLast(c)
    PROVE  AcksOfActive'
<1> DEFINE Waiting == {"CLOSED", "SYN_SENT"}
<1> SUFFICES ASSUME state'["active"] \in Waiting
             PROVE  /\ Without(network["active"], {"ACK"})'
                    /\ Without(network["passive"], {"ACK"})'
                    /\ state'["passive"] \notin CanSend
                    /\ state'["passive"] = "CLOSED" => Len(network'["passive"]) <= 1
                    /\ state'["passive"] = "SYN_RCVD" => network'["passive"] = <<>>
  BY DEF AcksOfActive
<1>1. "active" \in Ends /\ "passive" \in Ends /\ Peer("active") = "passive"
      /\ Peer("passive") = "active"
  BY DEF Ends, Peer
<1>2. CASE e = "active"
  <2>1. state'["passive"] = state["passive"]
    BY <1>1, <1>2, StepLocal DEF Untouched
  <2>2. Uses("active") \/ SendSyn
    BY <1>2, StepState
  <2>3. CASE Uses("active")
    <3>1. state' = state /\ network' = network
      BY <1>2, <2>3, StepState
    <3> QED BY <3>1 DEF HandshakeAcks, AcksOfActive, Without
  <2>4. CASE SendSyn
    <3>1. state["active"] = "CLOSED"
      BY <2>4 DEF SendSyn
    <3>2. network["passive"] = <<>> /\ state["passive"] # "SYN_RCVD"
      BY <3>1 DEF HandshakeAcks, NothingBefore
    <3>3. /\ Without(network["active"], {"ACK"}) /\ Without(network["passive"], {"ACK"})
          /\ state["passive"] \notin CanSend
      BY <3>1 DEF HandshakeAcks, AcksOfActive
    <3>4. ~ Cause("active", "ACK")
      BY <1>1, <3>1, AckCause DEF InControlLoop, RecvSynAckSendAck
    <3>5. Len(network'["passive"]) <= 1
      <4>1. CASE network'["passive"] = network["passive"]
        BY <3>2, <4>1
      <4>2. ASSUME NEW p \in Packet, network'["passive"] = Append(network["passive"], p)
            PROVE  Len(network'["passive"]) <= 1
        BY <3>2, <4>2
      <4> QED BY <1>1, <1>2, <4>1, <4>2, StepNetwork DEF Sent
    <3>6. Without(network["active"], {"ACK"})' /\ Without(network["passive"], {"ACK"})'
      BY <1>1, <1>2, <3>3, <3>4, WithoutIn, WithoutOut
    <3> QED BY <2>1, <3>2, <3>3, <3>5, <3>6
  <2> QED BY <2>2, <2>3, <2>4
<1>3. CASE e = "passive"
  <2>1. state["active"] \in Waiting
    BY <1>1, <1>3, StepLocal DEF Untouched
  <2>2. /\ Without(network["active"], {"ACK"}) /\ Without(network["passive"], {"ACK"})
        /\ state["passive"] \notin CanSend
        /\ state["passive"] = "CLOSED" => Len(network["passive"]) <= 1
        /\ state["passive"] = "SYN_RCVD" => network["passive"] = <<>>
    BY <2>1 DEF HandshakeAcks, AcksOfActive
  <2>3. Without(network["passive"], {"FIN", "DATA"})
    BY <1>1, <2>1 DEF FinsLast, Early
  <2>4. ~ Cause("passive", "ACK")
    BY <1>1, <2>3, AckCause
  <2>5. Without(network["active"], {"ACK"})' /\ Without(network["passive"], {"ACK"})'
    BY <1>1, <1>3, <2>2, <2>4, WithoutIn, WithoutOut
  <2>6. state'["passive"] \notin CanSend
    <3>1. CASE Opens("passive")
      <4>1. RecvSynSendSynAck
        BY <2>2, <3>1 DEF Opens, RecvHandshakeAck
      <4> QED BY <1>1, <4>1 DEF RecvSynSendSynAck, CanSend, TypeOK, CtxTypeOK
    <3> QED BY <1>3, <2>2, <3>1, StepState
  <2>7. state'["passive"] = "CLOSED" => Len(network'["passive"]) <= 1
    BY <1>3, <2>2, StepState
  <2>8. state'["passive"] = "SYN_RCVD" => network'["passive"] = <<>>
    <3>1. CASE Uses("passive")
      BY <1>3, <2>2, <3>1, StepState
    <3>2. CASE RecvSynSendSynAck
      <4>1. /\ network["passive"] # <<>> /\ network["passive"] \in Seq(Packet)
            /\ Len(network["passive"]) <= 1 /\ Len(network["passive"]) \in Nat
        BY <1>1, <2>2, <3>2, EndTypes DEF RecvSynSendSynAck
      <4>2. network'["passive"] = Tail(network["passive"])
        BY <1>1, <3>2 DEF RecvSynSendSynAck, NetworkRecvSend, TypeOK, NetworkTypeOK
      <4>3. Tail(network["passive"]) = <<>>
        BY <4>1, TailFacts
      <4> QED BY <4>2, <4>3
    <3> QED BY <1>3, <3>1, <3>2, StepState
  <2> QED BY <2>5, <2>6, <2>7, <2>8
<1> QED BY <1>2, <1>3 DEF Ends

(* The ACK of the handshake is the only one before the passive end has it. *)
LEMMA AcksOfPassiveStep ==
    ASSUME TypeOK, NEW e \in Ends, Step(e), HandshakeAcks, \A c \in Ends : FinsLast(c)
    PROVE  AcksOfPassive'
<1>1. "active" \in Ends /\ "passive" \in Ends /\ Peer("active") = "passive"
      /\ Peer("passive") = "active"
  BY DEF Ends, Peer
<1>2. ASSUME state'["passive"] = "CLOSED"
      PROVE  network'["active"] = <<>> /\ Without(network["passive"], {"ACK"})'
  <2>1. CASE e = "passive"
    BY <1>2, <2>1, StepState DEF HandshakeAcks, AcksOfPassive, Without
  <2>2. CASE e = "active"
    <3>1. state["passive"] = "CLOSED"
      BY <1>1, <1>2, <2>2, StepLocal DEF Untouched
    <3>2. network["active"] = <<>> /\ Without(network["passive"], {"ACK"})
      BY <3>1 DEF HandshakeAcks, AcksOfPassive
    <3>3. ~ Cause("active", "ACK")
      BY <1>1, <3>2, AckCause
    <3>4. network'["active"] = <<>>
      BY <2>2, <3>2, StepNetwork
    <3> QED BY <1>1, <2>2, <3>2, <3>3, <3>4, WithoutOut
  <2> QED BY <2>1, <2>2 DEF Ends
<1>3. ASSUME state'["passive"] = "SYN_RCVD", NEW i \in 2 .. Len(network'["passive"])
      PROVE  network'["passive"][i].flags # "ACK"
  <2>1. CASE e = "passive" /\ Uses(e)
    BY <1>3, <2>1, StepState DEF HandshakeAcks, AcksOfPassive
  <2>2. CASE e = "passive" /\ RecvSynSendSynAck
    <3>1. Without(network["passive"], {"ACK"})
      BY <2>2 DEF RecvSynSendSynAck, HandshakeAcks, AcksOfPassive
    <3>2. Without(network["passive"], {"ACK"})'
      BY <2>2, <3>1, WithoutIn
    <3>3. i \in 1 .. Len(network'["passive"])
      OBVIOUS
    <3> QED BY <3>2, <3>3 DEF Without
  <2>3. CASE e = "active"
    <3>1. state["passive"] = "SYN_RCVD"
      BY <1>1, <1>3, <2>3, StepLocal DEF Untouched
    <3>2. i \in 1 .. Len(network'["passive"])
      OBVIOUS
    <3>3. CASE i \in 1 .. Len(network["passive"]) /\ network'["passive"][i] = network["passive"][i]
      <4>1. i \in 2 .. Len(network["passive"])
        BY <3>3
      <4> QED BY <3>1, <3>3, <4>1 DEF HandshakeAcks, AcksOfPassive
    <3>4. CASE i = Len(network["passive"]) + 1 /\ Sent("active", network'["passive"][i])
      <4> SUFFICES ASSUME network'["passive"][i].flags = "ACK"
                   PROVE  FALSE
        OBVIOUS
      <4>1. Cause("active", "ACK")
        BY <3>4 DEF Sent
      <4>2. Without(network["active"], {"FIN", "DATA"})
        BY <1>1, <3>1 DEF FinsLast, Early
      <4>3. RecvSynAckSendAck
        BY <1>1, <4>1, <4>2, AckCause
      <4>4. network["passive"] = <<>>
        BY <3>1, <4>3 DEF RecvSynAckSendAck, HandshakeAcks, AcksOfActive
      <4>5. Len(network["passive"]) = 0
        BY <4>4
      <4> QED BY <3>4, <4>5
    <3> QED BY <1>1, <2>3, <3>2, <3>3, <3>4, PacketsOut
  <2> QED BY <1>3, <2>1, <2>2, <2>3, StepState DEF Ends
<1> QED BY <1>2, <1>3 DEF AcksOfPassive

(* The types of what is in flight. *)
LEMMA FlightTypes ==
    ASSUME TypeOK, NEW e \in Ends
    PROVE  /\ InFlight(e) \in Int /\ SWS \in Int
           /\ \A i \in 1 .. Len(network[e]) :
                  /\ network[e][i] \in Packet /\ network[e][i].seq \in Int
                  /\ network[e][i].ack \in Int /\ network[e][i].off \in Int
<1>1. InFlight(e) \in Int /\ SWS \in Int
  BY PeerFacts, EndTypes, ConstantsAssumption DEF InFlight
<1>2. ASSUME NEW i \in 1 .. Len(network[e])
      PROVE  network[e][i] \in Packet
  BY EndTypes
<1> QED BY <1>1, <1>2 DEF Packet

(* The peer d of the end that takes the step: its counters stay, what it has *)
(* in flight does not grow, and the new acknowledgement is the one that      *)
(* DataBounded has allowed for.                                              *)
LEMMA FlightOfPeer ==
    ASSUME TypeOK, StreamInv, CloseInv, WindowInv, NEW e \in Ends, Step(e)
    PROVE  FlightBounded(Peer(e))'
<1> DEFINE d == Peer(e)
<1>1. d \in Ends /\ Peer(d) = e /\ FlightBounded(d) /\ FinsLast(d)
  BY PeerFacts DEF WindowInv
<1>2. /\ state'[d] = state[d] /\ send_wind'[d] = send_wind[d] /\ isn'[d] = isn[d]
      /\ left'[d] = left[d] /\ taken'[d] = taken[d]
  BY StepLocal DEF Untouched
<1>3. Flow(e) /\ PacketsBounded(e)
  BY DEF StreamInv, Flows, CloseInv, CloseInvOf
<1>4. /\ send_wind[d] \in Int /\ isn[d] \in Int /\ left[d] \in Int /\ taken[d] \in Nat
      /\ rcvd[e] \in Nat /\ SWS \in Int
  BY <1>1, EndTypes, FlightTypes
<1>5. rcvd'[e] \in Int /\ rcvd'[e] >= rcvd[e]
  <2>1. network[e] # <<>> => Head(network[e]).len \in Nat
    BY TypeRecv DEF TypeOK, Packet
  <2> QED BY <1>4, <2>1, RcvdStep
<1> HIDE DEF d
<1>6. InFlight(d) = taken[d] - rcvd[e] /\ InFlight(d)' = taken[d] - rcvd'[e]
  BY <1>1, <1>2 DEF InFlight
<1>7. InFlight(d)' \in Int /\ InFlight(d) \in Int /\ InFlight(d)' <= InFlight(d)
  BY <1>4, <1>5, <1>6
<1> DEFINE g == InFlight(d)
           k == InFlight(d)'
<1>8. k <= SWS
  BY <1>1, <1>4, <1>7 DEF FlightBounded
<1>9. ASSUME state[d] \in CanSend
      PROVE  AcksBounded(d)'
  <2>1. AcksBounded(d) /\ DataBounded(d)
    BY <1>1, <1>9 DEF FlightBounded
  <2> SUFFICES ASSUME NEW i \in 1 .. Len(network'[d]), network'[d][i].flags = "ACK"
               PROVE  send_wind[d] + network'[d][i].ack - isn[d] + k <= SWS
    BY <1>2 DEF AcksBounded
  <2>2. CASE i \in 1 .. Len(network[d]) /\ network'[d][i] = network[d][i]
    <3>1. send_wind[d] + network[d][i].ack - isn[d] + g <= SWS
      BY <2>1, <2>2 DEF AcksBounded
    <3>2. network[d][i].ack \in Int
      BY <1>1, <2>2, FlightTypes
    <3> HIDE DEF g, k
    <3>3. k \in Int /\ g \in Int /\ k <= g
      BY <1>7 DEF g, k
    <3>4. send_wind[d] + network[d][i].ack - isn[d] + k <= SWS
      BY <1>4, <3>1, <3>2, <3>3
    <3> QED BY <2>2, <3>4
  <2>3. CASE i = Len(network[d]) + 1 /\ Sent(e, network'[d][i])
    <3> DEFINE h == Head(network[e])
    <3>1. Cause(e, "ACK")
      BY <2>3 DEF Sent
    <3>2. network[e] # <<>> /\ h = network[e][1] /\ 1 \in 1 .. Len(network[e]) /\ h \in Packet
      BY <3>1, AckCause, EndTypes
    <3>3. Without(network[e], {"FIN"})
      BY <1>1, <1>9 DEF FinsLast
    <3>4. ~ \E junk \in Junk : RecvFirstFin(e, junk) \/ RecvLastFin(e, junk)
      BY <3>2, <3>3 DEF Without, RecvFirstFin, RecvLastFin, HeadIs
    <3>5. ~ (e = "active" /\ RecvSynAckSendAck)
      <4> SUFFICES ASSUME e = "active", RecvSynAckSendAck PROVE FALSE
        OBVIOUS
      <4>1. state["passive"] \notin CanSend
        BY DEF RecvSynAckSendAck, WindowInv, HandshakeAcks, AcksOfActive
      <4> QED BY <1>9, <4>1 DEF d, Peer
    <3>6. RecvData(e)
      BY <3>1, <3>4, <3>5 DEF Cause
    <3>7. rcvd'[e] = rcvd[e] + h.len
      BY <3>6 DEF RecvData, TypeOK, ReadTypeOK
    <3>8. network'[d][i].ack = h.seq + h.len
      <4> DEFINE p == Pkt(e, "ACK", isn[e], h.seq + h.len, 0)
      <4>1. network'[d] = Append(network[d], p)
        BY <1>1, <3>6, PeerFacts DEF RecvData, NetworkRecvSend, TypeOK, NetworkTypeOK, d
      <4>2. p \in Packet
        <5>1. h.seq + h.len \in Int /\ isn[e] \in Int /\ "ACK" \in Flags /\ 0 \in Nat
          BY <3>2, EndTypes DEF Packet, Flags
        <5> QED BY <5>1, TypePkt DEF TypeOK
      <4>3. p.ack = h.seq + h.len
        BY DEF Pkt
      <4> HIDE DEF p
      <4>4. network[d] \in Seq(Packet)
        BY <1>1, EndTypes
      <4>5. network'[d][i] = p
        BY <2>3, <4>1, <4>2, <4>4, AppendFacts
      <4> QED BY <4>3, <4>5
    <3>9. send_wind[d] + h.seq - isn[d] + (taken[d] - h.off) <= SWS
      BY <1>1, <2>1, <3>2, <3>6 DEF DataBounded, RecvData, HeadIs
    <3>10. h.off = rcvd[e]
      BY <1>3, <3>2, RcvdLimit
    <3>11. h.seq \in Int /\ h.len \in Nat
      BY <3>2 DEF Packet
    <3>12. k = taken[d] - rcvd'[e]
      BY <1>6
    <3> HIDE DEF h, k
    <3>13. send_wind[d] + (h.seq + h.len) - isn[d] + k <= SWS
      <4> DEFINE w == send_wind[d]
                 b == isn[d]
                 t == taken[d]
                 r == rcvd[e]
                 q == h.seq
                 n == h.len
      <4>1. w \in Int /\ b \in Int /\ t \in Int /\ r \in Int /\ q \in Int /\ n \in Int
        BY <1>4, <3>11
      <4>2. w + q - b + (t - r) <= SWS
        BY <3>9, <3>10
      <4>3. k = t - (r + n)
        BY <3>7, <3>12
      <4> HIDE DEF w, b, t, r, q, n
      <4>4. w + (q + n) - b + (t - (r + n)) <= SWS
        BY <1>4, <4>1, <4>2
      <4> QED BY <4>3, <4>4 DEF w, b, q, n
    <3> QED BY <3>8, <3>13
  <2> QED BY <2>2, <2>3, PacketsOut DEF d
<1>10. ASSUME state[d] \in CanSend
       PROVE  DataBounded(d)'
  <2>1. DataBounded(d)
    BY <1>1, <1>10 DEF FlightBounded
  <2> SUFFICES ASSUME NEW i \in 1 .. Len(network'[e]), network'[e][i].flags = "DATA"
               PROVE  send_wind[d] + network'[e][i].seq - isn[d]
                        + (taken[d] - network'[e][i].off) <= SWS
    BY <1>1, <1>2 DEF DataBounded
  <2>2. PICK j \in 1 .. Len(network[e]) : network'[e][i] = network[e][j]
    BY PacketsIn
  <2> QED BY <1>1, <2>1, <2>2 DEF DataBounded
<1>11. ASSUME state[d] \in CanSend
       PROVE  CountersBounded(d)'
  <2>1. send_wind[d] + g <= SWS /\ send_wind[d] + left[d] - isn[d] <= SWS
    BY <1>1, <1>11 DEF FlightBounded, CountersBounded
  <2>2. send_wind[d] + k <= SWS
    BY <1>4, <1>7, <2>1
  <2> QED BY <1>2, <2>1, <2>2 DEF CountersBounded
<1> QED BY <1>2, <1>8, <1>9, <1>10, <1>11 DEF FlightBounded, d

(* The end e that takes the step, which can still send.  The first form is   *)
(* for the steps that send no data: the differences send_wind - isn and      *)
(* left - isn do not grow, and the window stays within what is not in        *)
(* flight.                                                                   *)
LEMMA FlightKept ==
    ASSUME TypeOK, NEW e \in Ends, Step(e), FlightBounded(e), state[e] \in CanSend,
           taken'[e] = taken[e],
           ~ Cause(e, "DATA"),
           send_wind'[e] \in Int, isn'[e] \in Int, left'[e] \in Int,
           send_wind'[e] - isn'[e] <= send_wind[e] - isn[e],
           send_wind'[e] + InFlight(e) <= SWS,
           send_wind'[e] + left'[e] - isn'[e] <= SWS
    PROVE  FlightBounded(e)'
<1> DEFINE d == Peer(e)
           w == send_wind'[e] - isn'[e]
           v == send_wind[e] - isn[e]
<1>1. d \in Ends /\ Peer(d) = e /\ rcvd'[d] = rcvd[d]
  BY PeerFacts, StepLocal DEF Untouched
<1>2. /\ send_wind[e] \in Int /\ isn[e] \in Int /\ taken[e] \in Int
      /\ InFlight(e) \in Int /\ SWS \in Int
  BY EndTypes, FlightTypes
<1>3. InFlight(e)' = InFlight(e)
  BY <1>1 DEF InFlight
<1>4. w \in Int /\ v \in Int /\ w <= v
  BY <1>2
<1>5. AcksBounded(e)'
  <2> SUFFICES ASSUME NEW i \in 1 .. Len(network'[e]), network'[e][i].flags = "ACK"
               PROVE  send_wind'[e] + network'[e][i].ack - isn'[e] + InFlight(e) <= SWS
    BY <1>3 DEF AcksBounded
  <2>1. PICK j \in 1 .. Len(network[e]) : network'[e][i] = network[e][j]
    BY PacketsIn
  <2> DEFINE a == network[e][j].ack
             g == InFlight(e)
  <2>2. a \in Int /\ send_wind[e] + a - isn[e] + g <= SWS
    BY <2>1, FlightTypes DEF AcksBounded, FlightBounded
  <2>3. g \in Int /\ network'[e][i].ack = a
    BY <1>2, <2>1
  <2> HIDE DEF a, g
  <2>4. v + a + g <= SWS
    BY <1>2, <2>2, <2>3
  <2>5. w + a + g <= SWS
    <3> HIDE DEF w, v
    <3> QED BY <1>2, <1>4, <2>2, <2>3, <2>4
  <2>6. send_wind'[e] + a - isn'[e] + g <= SWS
    BY <1>2, <2>2, <2>3, <2>5
  <2> QED BY <2>3, <2>6 DEF g
<1>6. DataBounded(e)'
  <2> SUFFICES ASSUME NEW i \in 1 .. Len(network'[d]), network'[d][i].flags = "DATA"
               PROVE  send_wind'[e] + network'[d][i].seq - isn'[e]
                        + (taken[e] - network'[d][i].off) <= SWS
    BY DEF DataBounded
  <2>1. i \in 1 .. Len(network[d]) /\ network'[d][i] = network[d][i]
    BY PacketsOut DEF Sent
  <2> DEFINE q == network[d][i].seq
             o == taken[e] - network[d][i].off
  <2>2. q \in Int /\ o \in Int /\ send_wind[e] + q - isn[e] + o <= SWS
    <3>1. network[d][i].off \in Int /\ q \in Int
      BY <1>1, <2>1, FlightTypes
    <3>2. send_wind[e] + q - isn[e] + o <= SWS
      BY <2>1 DEF DataBounded, FlightBounded
    <3>3. o \in Int
      BY <1>2, <3>1
    <3> HIDE DEF q, o
    <3> QED BY <3>1, <3>2, <3>3
  <2>3. network'[d][i].seq = q /\ taken[e] - network'[d][i].off = o
    BY <2>1
  <2> HIDE DEF q, o
  <2>4. v + q + o <= SWS
    BY <1>2, <2>2
  <2>5. w + q + o <= SWS
    <3> HIDE DEF w, v
    <3> QED BY <1>2, <1>4, <2>2, <2>4
  <2>6. send_wind'[e] + q - isn'[e] + o <= SWS
    <3> DEFINE x == send_wind'[e]
               y == isn'[e]
    <3>1. x \in Int /\ y \in Int /\ x - y + q + o <= SWS
      BY <2>5
    <3> HIDE DEF x, y
    <3>2. x + q - y + o <= SWS
      BY <1>2, <2>2, <3>1
    <3> QED BY <3>2 DEF x, y
  <2> QED BY <2>3, <2>6
<1>7. InFlight(e)' <= SWS
  BY <1>3 DEF FlightBounded
<1>8. CountersBounded(e)'
  BY <1>3 DEF CountersBounded
<1> QED BY <1>5, <1>6, <1>7, <1>8 DEF FlightBounded

(* The second form is for a data packet of n bytes. *)
LEMMA FlightSent ==
    ASSUME TypeOK, NEW e \in Ends, Step(e), FlightBounded(e), state[e] \in CanSend,
           NEW n \in Nat, n <= send_wind[e],
           taken'[e] = taken[e] + n, left'[e] = left[e] + n,
           send_wind'[e] = send_wind[e] - n, isn'[e] = isn[e],
           network'[Peer(e)] = Append(network[Peer(e)], Pkt(e, "DATA", left[e], 0, n))
    PROVE  FlightBounded(e)'
<1> DEFINE d == Peer(e)
           g == InFlight(e)
           w == send_wind[e]
           b == isn[e]
           l == left[e]
           t == taken[e]
<1>1. d \in Ends /\ Peer(d) = e /\ rcvd'[d] = rcvd[d] /\ rcvd[d] \in Int
  BY PeerFacts, StepLocal, EndTypes DEF Untouched
<1>2. /\ w \in Int /\ b \in Int /\ t \in Int /\ l \in Int /\ g \in Int /\ SWS \in Int
  BY EndTypes, FlightTypes
<1>3. InFlight(e)' = g + n
  <2>1. InFlight(e)' = (t + n) - rcvd[d] /\ g = t - rcvd[d]
    BY <1>1 DEF InFlight
  <2> HIDE DEF g, d, t
  <2> QED BY <1>1, <1>2, <2>1
<1>4. AcksBounded(e) /\ DataBounded(e) /\ w + g <= SWS /\ w + l - b <= SWS
  BY DEF FlightBounded, CountersBounded
<1>5. AcksBounded(e)'
  <2> SUFFICES ASSUME NEW i \in 1 .. Len(network'[e]), network'[e][i].flags = "ACK"
               PROVE  (w - n) + network'[e][i].ack - b + (g + n) <= SWS
    BY <1>3 DEF AcksBounded
  <2>1. PICK j \in 1 .. Len(network[e]) : network'[e][i] = network[e][j]
    BY PacketsIn
  <2> DEFINE a == network[e][j].ack
  <2>2. a \in Int /\ w + a - b + g <= SWS
    BY <1>4, <2>1, FlightTypes DEF AcksBounded
  <2>3. network'[e][i].ack = a
    BY <2>1
  <2> HIDE DEF a, g, w, b
  <2>4. (w - n) + a - b + (g + n) <= SWS
    BY <1>2, <2>2
  <2> QED BY <2>3, <2>4
<1>6. DataBounded(e)'
  <2> SUFFICES ASSUME NEW i \in 1 .. Len(network'[d]), network'[d][i].flags = "DATA"
               PROVE  (w - n) + network'[d][i].seq - b + ((t + n) - network'[d][i].off) <= SWS
    BY DEF DataBounded
  <2>1. CASE i \in 1 .. Len(network[d]) /\ network'[d][i] = network[d][i]
    <3> DEFINE q == network[d][i].seq
               o == network[d][i].off
    <3>1. q \in Int /\ o \in Int /\ w + q - b + (t - o) <= SWS
      BY <1>1, <1>4, <2>1, FlightTypes DEF DataBounded
    <3>2. network'[d][i].seq = q /\ network'[d][i].off = o
      BY <2>1
    <3> HIDE DEF q, o, w, b, t
    <3>3. (w - n) + q - b + ((t + n) - o) <= SWS
      BY <1>2, <3>1
    <3> QED BY <3>2, <3>3
  <2>2. CASE i = Len(network[d]) + 1
    <3> DEFINE p == Pkt(e, "DATA", left[e], 0, n)
    <3>1. p \in Packet
      BY <1>2, TypePkt DEF TypeOK, Flags
    <3>2. p.seq = l /\ p.off = t
      BY DEF Pkt
    <3>3. network'[d] = Append(network[d], p) /\ network[d] \in Seq(Packet)
      BY <1>1, EndTypes
    <3> HIDE DEF p, w, b, t, l
    <3>4. network'[d][i] = p
      BY <2>2, <3>1, <3>3, AppendFacts
    <3>5. (w - n) + l - b + ((t + n) - t) <= SWS
      BY <1>2, <1>4
    <3> QED BY <3>2, <3>4, <3>5
  <2> QED BY <2>1, <2>2, PacketsOut
<1>7. g + n <= SWS
  <2> HIDE DEF g, w
  <2>1. n <= w
    BY DEF w
  <2> QED BY <1>2, <1>4, <2>1
<1>8. (w - n) + (g + n) <= SWS /\ (w - n) + (l + n) - b <= SWS
  <2> HIDE DEF g, w, l, b
  <2> QED BY <1>2, <1>4
<1>9. CountersBounded(e)'
  BY <1>3, <1>8 DEF CountersBounded
<1> QED BY <1>3, <1>5, <1>6, <1>7, <1>9 DEF FlightBounded

(* A step of an end keeps its own window. *)
LEMMA FlightOfEnd ==
    ASSUME TypeOK, StreamInv, CloseInv, WindowInv, NEW e \in Ends, Step(e)
    PROVE  FlightBounded(e)'
<1> DEFINE d == Peer(e)
           w == send_wind[e]
           b == isn[e]
           l == left[e]
           g == InFlight(e)
<1>1. /\ d \in Ends /\ Peer(d) = e /\ Flow(d) /\ PacketsBounded(d)
      /\ FlightBounded(e) /\ AppInOrder(e) /\ AllTaken(e)
  BY PeerFacts DEF WindowInv, StreamInv, Flows, CloseInv, CloseInvOf
<1>2. w \in Int /\ b \in Int /\ l \in Int /\ g \in Int /\ SWS \in Int /\ taken[e] \in Nat
      /\ rcvd[d] \in Nat /\ rcvd'[d] = rcvd[d]
  BY <1>1, EndTypes, FlightTypes, StepLocal DEF Untouched
<1>3. /\ DOMAIN state = Ends /\ DOMAIN isn = Ends /\ DOMAIN left = Ends
      /\ DOMAIN send_wind = Ends /\ DOMAIN taken = Ends /\ DOMAIN network = Ends
  BY DEF TypeOK, CtxTypeOK, WriteTypeOK, NetworkTypeOK
<1>4. state[e] \in CanSend => w + g <= SWS /\ w + l - b <= SWS
  BY <1>1 DEF FlightBounded, CountersBounded
(* An end that can send no more. *)
<1>5. ASSUME state'[e] \notin CanSend, taken'[e] = taken[e]
      PROVE  FlightBounded(e)'
  BY <1>1, <1>2, <1>5 DEF FlightBounded, InFlight
(* A step that touches none of the counters and sends no data. *)
<1>6. ASSUME state'[e] \in CanSend => state[e] \in CanSend,
             taken'[e] = taken[e], send_wind'[e] = w, isn'[e] = b, left'[e] = l,
             ~ Cause(e, "DATA")
      PROVE  FlightBounded(e)'
  <2>1. CASE state'[e] \notin CanSend
    BY <1>5, <1>6, <2>1
  <2>2. CASE state[e] \in CanSend
    <3>1. w - b <= w - b
      BY <1>2
    <3> QED BY <1>1, <1>2, <1>4, <1>6, <2>2, <3>1, FlightKept
  <2> QED BY <1>6, <2>1, <2>2
<1>7. CASE Opens(e)
  <2>1. /\ state[e] \in Early /\ written[e] = 0 /\ w = SWS
        /\ taken' = taken /\ send_wind' = send_wind
    BY <1>1, <1>7, StepEarly DEF AppInOrder
  <2>2. taken[e] = 0
    BY <1>2, <2>1, EndTypes
  <2>3. InFlight(e)' <= 0 /\ InFlight(e)' \in Int
    <3>1. InFlight(e)' = 0 - rcvd[d]
      BY <1>2, <2>1, <2>2 DEF InFlight
    <3> QED BY <1>2, <3>1
  <2>4. InFlight(e)' <= SWS
    BY <2>3, ConstantsAssumption
  <2>5. ASSUME state'[e] \in CanSend
        PROVE  AcksBounded(e)' /\ DataBounded(e)' /\ CountersBounded(e)'
    <3>1. (e = "active" /\ RecvSynAckSendAck) \/ (e = "passive" /\ RecvHandshakeAck)
      BY <1>3, <1>7, <2>5 DEF Opens, SendSyn, RecvSynSendSynAck, CanSend
    <3>2. isn'[e] = left'[e] /\ isn'[e] \in Int
      BY <1>2, <1>3, <3>1 DEF RecvSynAckSendAck, RecvHandshakeAck, Establish
    <3>3. CountersBounded(e)'
      <4>1. SWS + InFlight(e)' <= SWS
        BY <1>2, <2>3
      <4>2. SWS + left'[e] - isn'[e] <= SWS
        BY <1>2, <3>2
      <4> QED BY <2>1, <4>1, <4>2 DEF CountersBounded
    <3>4. Without(network[d], {"FIN", "DATA"})'
      <4>1. Without(network[d], {"FIN", "DATA"})
        BY <2>1 DEF WindowInv, FinsLast
      <4>2. ~ Cause(e, "FIN") /\ ~ Cause(e, "DATA")
        BY <2>1 DEF Cause, SendFin, SendAppData, Handle, Early, InControlLoop
      <4> QED BY <4>1, <4>2, WithoutOut
    <3>5. Without(network[e], {"ACK"})'
      <4>1. CASE e = "active" /\ RecvSynAckSendAck
        <5>1. Without(network[e], {"ACK"})
          BY <4>1 DEF RecvSynAckSendAck, WindowInv, HandshakeAcks, AcksOfActive
        <5> QED BY <5>1, WithoutIn
      <4>2. CASE e = "passive" /\ RecvHandshakeAck
        <5> DEFINE s == Tail(network[e])
        <5>1. network'[e] = s /\ network[e] # <<>> /\ network[e] \in Seq(Packet)
          BY <1>3, <4>2, EndTypes DEF RecvHandshakeAck, NetworkRecv
        <5>2. /\ Len(network[e]) \in Nat /\ Len(s) = Len(network[e]) - 1
              /\ \A i \in 1 .. Len(s) : s[i] = network[e][i + 1]
          BY <5>1, TailFacts
        <5>3. \A i \in 2 .. Len(network[e]) : network[e][i].flags # "ACK"
          BY <4>2 DEF RecvHandshakeAck, WindowInv, HandshakeAcks, AcksOfPassive
        <5> HIDE DEF s
        <5>4. ASSUME NEW i \in 1 .. Len(s) PROVE s[i].flags # "ACK"
          <6>1. i + 1 \in 2 .. Len(network[e])
            BY <5>2
          <6> QED BY <5>2, <5>3, <6>1
        <5> QED BY <5>1, <5>4 DEF Without
      <4> QED BY <3>1, <4>1, <4>2
    <3> QED BY <3>3, <3>4, <3>5 DEF AcksBounded, DataBounded, Without
  <2> QED BY <2>4, <2>5 DEF FlightBounded
<1>8. CASE Uses(e)
  <2>1. /\ taken'[e] = taken[e] /\ send_wind'[e] = w /\ isn'[e] = b /\ left'[e] = l
        /\ state' = state /\ network' = network
    BY <1>8 DEF Uses, AppCalls, AppReads, MyWrite, MyClose, PassTurn, MyRead, MyReadEof,
       ctxVars, writeVars
  <2> QED BY <1>1, <1>2, <2>1 DEF FlightBounded, AcksBounded, DataBounded, CountersBounded,
       InFlight
<1>9. CASE Stops(e) \/ RecvError(e) \/ SendNegativeWindow(e) \/ SendFin(e) \/ TransportExit(e)
  <2>1. taken'[e] = taken[e] /\ state'[e] \notin CanSend
    BY <1>3, <1>9 DEF Stops, MyCloseReturns, Kill, RecvError, SendNegativeWindow, SendFin,
       TransportExit, Fault, Handle, writeVars, ctxVars, CanSend
  <2> QED BY <1>5, <2>1
<1>10. CASE WaitForEvent(e) \/ DropFin(e)
  <2>1. /\ taken'[e] = taken[e] /\ send_wind'[e] = w /\ isn'[e] = b /\ left'[e] = l
        /\ state' = state
    BY <1>10 DEF WaitForEvent, DropFin, ctxVars, writeVars
  <2>2. ~ Cause(e, "DATA")
    BY <1>10 DEF Cause, WaitForEvent, DropFin, SendAppData, Handle
  <2> QED BY <1>6, <2>1, <2>2
<1>11. CASE RecvData(e)
  <2>1. /\ taken'[e] = taken[e] /\ send_wind'[e] = w /\ isn'[e] = b + 1 /\ left'[e] = b + 1
        /\ state' = state
    BY <1>3, <1>11 DEF RecvData, writeVars
  <2>2. ~ Cause(e, "DATA")
    BY <1>11 DEF Cause, RecvData, SendAppData, Handle
  <2>3. CASE state[e] \notin CanSend
    BY <1>5, <2>1, <2>3
  <2>4. CASE state[e] \in CanSend
    <3>1. g >= 0
      BY <1>1, <1>2, RcvdLimit DEF InFlight
    <3> HIDE DEF w, b, g
    <3>2. w + g <= SWS /\ w + (b + 1) - (b + 1) <= SWS /\ w - (b + 1) <= w - b
          /\ b + 1 \in Int
      BY <1>2, <1>4, <2>4, <3>1
    <3> QED BY <1>1, <1>2, <2>1, <2>2, <2>4, <3>2, FlightKept DEF w, b, g
  <2> QED BY <2>3, <2>4
<1>12. CASE RecvAck(e)
  <2> DEFINE a == Head(network[e]).ack
  <2>1. taken'[e] = taken[e] /\ left'[e] = l
    BY <1>12 DEF RecvAck, writeVars
  <2>2. ~ Cause(e, "DATA")
    BY <1>12 DEF Cause, RecvAck, SendAppData, Handle
  <2>3. CASE state[e] \notin CanSend
    <3>1. state'[e] \notin CanSend
      BY <1>3, <1>12, <2>3 DEF RecvAck, AfterAck, CanSend
    <3> QED BY <1>5, <2>1, <3>1
  <2>4. CASE state[e] \in CanSend
    <3>1. send_wind'[e] = w + a - b /\ isn'[e] = a
      BY <1>3, <1>12, <2>4 DEF RecvAck, Reopened, CanSend
    <3>2. network[e] # <<>> /\ Head(network[e]).flags = "ACK"
      BY <1>12 DEF RecvAck, HeadIs
    <3>3. Head(network[e]) = network[e][1] /\ 1 \in 1 .. Len(network[e])
      BY <3>2, EndTypes
    <3>4. a \in Int /\ w + a - b + g <= SWS
      BY <1>1, <2>4, <3>2, <3>3, FlightTypes DEF FlightBounded, AcksBounded
    <3> HIDE DEF w, b, g, a, l
    <3>5. /\ w + a - b \in Int /\ (w + a - b) + g <= SWS /\ (w + a - b) + l - a <= SWS
          /\ (w + a - b) - a <= w - b
      BY <1>2, <1>4, <2>4, <3>4
    <3> QED BY <1>1, <1>2, <2>1, <2>2, <2>4, <3>1, <3>4, <3>5, FlightKept DEF w, b, g, l
  <2> QED BY <2>3, <2>4
<1>13. ASSUME NEW junk \in Junk, RecvFirstFin(e, junk) \/ RecvLastFin(e, junk)
       PROVE  FlightBounded(e)'
  <2>1. taken'[e] = taken[e]
    BY <1>13 DEF RecvFirstFin, RecvLastFin, writeVars
  <2>2. CASE RecvLastFin(e, junk)
    BY <1>3, <1>5, <2>1, <2>2 DEF RecvLastFin, CanSend
  <2>3. CASE RecvFirstFin(e, junk)
    <3>1. /\ send_wind'[e] = w /\ isn'[e] = b + 1 /\ left'[e] = l + 1
          /\ state[e] \in CanSend
      BY <1>3, <2>3 DEF RecvFirstFin, CanSend
    <3>2. ~ Cause(e, "DATA")
      BY <2>3 DEF Cause, RecvFirstFin, SendAppData, Handle
    <3> HIDE DEF w, b, g, l
    <3>3. /\ w + g <= SWS /\ w + (l + 1) - (b + 1) <= SWS /\ w - (b + 1) <= w - b
          /\ b + 1 \in Int /\ l + 1 \in Int
      BY <1>2, <1>4, <3>1
    <3> QED BY <1>1, <1>2, <2>1, <3>1, <3>2, <3>3, FlightKept DEF w, b, g, l
  <2> QED BY <1>13, <2>2, <2>3
<1>14. ASSUME NEW m \in app_recv_queue[e], SendAppData(e, m)
       PROVE  FlightBounded(e)'
  <2> DEFINE n == MIN(MIN(send_wind[e], MSS), m - taken[e])
  <2>1. n \in Nat /\ n <= send_wind[e]
    BY <1>14, SegmentFacts DEF SendAppData
  <2>2. state[e] \in CanSend /\ state' = state /\ isn' = isn
    <3>1. taken[e] # written[e]
      BY EndTypes
    <3> QED BY <1>1, <1>14, <3>1 DEF SendAppData, Handle, AllTaken, FinSent, InControlLoop,
         CanSend
  <2>3. CASE n = 0
    <3>1. /\ taken' = taken /\ send_wind' = send_wind /\ isn' = isn /\ left' = left
          /\ state' = state /\ network' = network
      BY <1>14, <2>2, <2>3 DEF SendAppData
    <3> QED BY <1>1, <1>2, <3>1 DEF FlightBounded, AcksBounded, DataBounded,
         CountersBounded, InFlight
  <2>4. CASE n # 0
    <3>1. /\ network' = NetworkSend(e, Pkt(e, "DATA", left[e], 0, n))
          /\ taken' = [taken EXCEPT ![e] = @ + n] /\ left' = [left EXCEPT ![e] = @ + n]
          /\ send_wind' = [send_wind EXCEPT ![e] = @ - n]
      BY <1>14, <2>4 DEF SendAppData
    <3> HIDE DEF n
    <3>2. network'[d] = Append(network[d], Pkt(e, "DATA", left[e], 0, n))
      BY <1>1, <1>3, <3>1 DEF NetworkSend
    <3>3. /\ taken'[e] = taken[e] + n /\ left'[e] = left[e] + n
          /\ send_wind'[e] = send_wind[e] - n /\ isn'[e] = isn[e]
      BY <1>3, <2>2, <3>1
    <3> QED BY <1>1, <2>1, <2>2, <3>2, <3>3, FlightSent
  <2> QED BY <2>3, <2>4
<1> QED BY <1>7, <1>8, <1>9, <1>10, <1>11, <1>12, <1>13, <1>14 DEF Step, ControlLoop

(* One step keeps the invariant of the window. *)
LEMMA WindowStep ==
    TypeOK /\ StreamInv /\ CloseInv /\ WindowInv /\ [Next]_vars => WindowInv'
<1> SUFFICES ASSUME TypeOK, StreamInv, CloseInv, WindowInv, [Next]_vars
             PROVE  WindowInv'
  OBVIOUS
<1>1. ASSUME NEW e \in Ends, Step(e)
      PROVE  WindowInv'
  <2>1. FlightBounded(e)' /\ FlightBounded(Peer(e))'
    BY <1>1, FlightOfEnd, FlightOfPeer
  <2>2. FinsLast(e)' /\ FinsLast(Peer(e))'
    BY <1>1, PeerFacts, FinsLastStep DEF WindowInv
  <2>3. HandshakeAcks'
    BY <1>1, NothingBeforeStep, AcksOfActiveStep, AcksOfPassiveStep
       DEF WindowInv, HandshakeAcks
  <2>4. \A c \in Ends : c = e \/ c = Peer(e)
    BY OtherEnd
  <2> QED BY <2>1, <2>2, <2>3, <2>4 DEF WindowInv
<1>2. CASE UNCHANGED vars
  BY <1>2 DEF WindowInv, FlightBounded, AcksBounded, DataBounded, CountersBounded, InFlight,
     FinsLast, HandshakeAcks, NothingBefore, AcksOfActive, AcksOfPassive, Without,
     vars, ctxVars, writeVars, readVars
<1> QED BY <1>1, <1>2, NextIsStep

(* The invariant holds before the handshake. *)
LEMMA WindowInit == Init => WindowInv
<1> SUFFICES ASSUME Init PROVE WindowInv
  OBVIOUS
<1>1. HandshakeAcks
  BY DEF Init, HandshakeAcks, NothingBefore, AcksOfActive, AcksOfPassive, Without, Ends,
     CanSend
<1>2. ASSUME NEW e \in Ends PROVE FlightBounded(e) /\ FinsLast(e)
  BY PeerFacts, ConstantsAssumption DEF Init, FlightBounded, InFlight, FinsLast, Without,
     CanSend
<1> QED BY <1>1, <1>2 DEF WindowInv

(* The sender never has more than a window of bytes that the receiver has    *)
(* not taken from the network, although the two directions of a connection   *)
(* overwrite each other's counters.                                          *)
THEOREM WindowSafety == Spec => []WindowRespected
<1>1. WindowInv => WindowRespected
  BY DEF WindowInv, FlightBounded, InFlight, WindowRespected
<1> QED BY TypeInit, TypeStep, StreamInit, StreamStep, CloseInit, CloseStep, WindowInit,
           WindowStep, <1>1, PTL DEF Spec

-----------------------------------------------------------------------------
(* Applications that take turns, and no killed process.  Then the counters   *)
(* of the two directions do not disturb each other, one end closes first and *)
(* the other after it, and no ERROR buffer is read.                          *)

(* myclose is reported to control_loop once, and data only while there is    *)
(* some.                                                                     *)
Reported(e) ==
    /\ "APP_CLOSE_REQUESTED" \in event[e] \/ state[e] \in FinSent => ~ close_requested[e]
    /\ state[e] \in FinSent => "APP_CLOSE_REQUESTED" \notin event[e]
    /\ "APP_DATA" \in event[e] => app_recv_queue[e] # {}

(* The packets towards e are in the order of the stream and data packets     *)
(* have a payload.                                                           *)
InOrder(e) ==
    \A i \in 1 .. Len(network[e]) : LET p == network[e][i] IN
        /\ rcvd[e] <= p.off
        /\ p.flags = "DATA" => p.len > 0
        /\ \A j \in (i + 1) .. Len(network[e]) : p.off + p.len <= network[e][j].off

(* The end whose turn it is closes first: its peer waits for the FIN. *)
ClosesFirst == Early \cup {"ESTABLISHED", "FIN_WAIT", "FIN_SENT_ACK_RECIEVED", "DONE", "EXITED"}

ClosesSecond == Early \cup {"ESTABLISHED", "CLOSE_WAIT", "LAST_ACK", "DONE", "EXITED"}

Roles(e) ==
    /\ turn = e => state[e] \in ClosesFirst /\ ~ eof[e]
    /\ turn # e => state[e] \in ClosesSecond
    /\ state[e] \in FinReceived => state[Peer(e)] \in FinSent
    /\ eof[e] => eof_queued[e]
    /\ eof_queued[e] => state[e] \in FinReceived

(* The end whose turn it is not has nothing on its way. *)
Listens(e) ==
    turn # e /\ ~ eof[e] =>
        ~ HasClosed(e) /\ taken[e] = written[e] /\ Without(network[Peer(e)], {"DATA"})

(* A packet of kind f comes to e before the end of the TCP connection. *)
Comes(e, f) ==
    \E j \in 1 .. Len(network[e]) :
        /\ network[e][j].flags = f
        /\ \A i \in 1 .. (j - 1) : network[e][i].flags # "ERROR"

FinBehindAck(e) ==
    \E j \in 1 .. Len(network[e]) :
        /\ network[e][j].flags = "FIN"
        /\ \A i \in 1 .. (j - 1) : network[e][i].flags # "ERROR"
        /\ \E k \in 1 .. (j - 1) : network[e][k].flags = "ACK"

(* What an end that has closed waits for is on its way. *)
Answered(e) ==
    /\ ~ Without(network[e], {"ERROR"}) => state[Peer(e)] = "EXITED"
    /\ state[e] = "LAST_ACK" /\ state[Peer(e)] \in {"DONE", "EXITED"} => Comes(e, "ACK")
    /\ state[e] = "FIN_WAIT" /\ state[Peer(e)] = "CLOSE_WAIT" => Comes(e, "ACK")
    /\ state[Peer(e)] \in {"LAST_ACK", "DONE", "EXITED"} =>
           /\ state[e] = "FIN_SENT_ACK_RECIEVED" => Comes(e, "FIN")
           /\ state[e] = "FIN_WAIT" => FinBehindAck(e)

(* The acknowledgements of the data of e arrive before the peer's answer. *)
AcksFirst(e) ==
    state[e] \in Early \cup {"ESTABLISHED"} =>
        \A i, j \in 1 .. Len(network[e]) :
            i < j /\ network[e][i].flags \in {"DATA", "FIN"} => network[e][j].flags # "ACK"

(* The packets of one kind in a queue, and the sequence number after the     *)
(* bytes that a data packet carries or an acknowledgement is for.            *)
Of(q, f) == {q[i] : i \in {j \in 1 .. Len(q) : q[j].flags = f}}

UpTo(p) == IF p.flags = "ACK" THEN p.ack ELSE p.seq + p.len

Rises(q, f) ==
    \A i, j \in 1 .. Len(q) :
        i < j /\ q[i].flags = f /\ q[j].flags = f => UpTo(q[i]) <= UpTo(q[j])

(* The acknowledgements on their way (in q) and the data that will be        *)
(* acknowledged (in r) count up from isn = a to left = b, and the last byte  *)
(* is acknowledged or one of them is for it.                                 *)
CountUp(q, r, a, b) ==
    /\ a <= b
    /\ \A x \in Of(q, "ACK") \cup Of(r, "DATA") : a <= UpTo(x) /\ UpTo(x) <= b
    /\ \A x \in Of(q, "ACK"), y \in Of(r, "DATA") : UpTo(x) <= UpTo(y)
    /\ Rises(q, "ACK") /\ Rises(r, "DATA")
    /\ a = b \/ \E x \in Of(q, "ACK") \cup Of(r, "DATA") : UpTo(x) = b

(* The window of e is what has not been acknowledged. *)
Counted(e) ==
    state[e] \in CanSend =>
        /\ send_wind[e] >= 0 /\ send_wind[e] + left[e] - isn[e] = SWS
        /\ CountUp(network[e], network[Peer(e)], isn[e], left[e])

ExchangeInv ==
    \A e \in Ends :
        /\ Reported(e) /\ InOrder(e) /\ Roles(e) /\ Listens(e) /\ Answered(e)
        /\ AcksFirst(e) /\ Counted(e)

Known == TypeOK /\ StreamInv /\ CloseInv /\ WindowInv /\ ExchangeInv

(* What is known of one end. *)
LEMMA KnownOf ==
    ASSUME Known, NEW e \in Ends
    PROVE  /\ Flow(e) /\ AppInOrder(e) /\ AllQueued(e) /\ AllTaken(e) /\ PacketsBounded(e)
           /\ StreamEnded(e) /\ FinsLast(e) /\ Reported(e) /\ InOrder(e) /\ Roles(e)
           /\ Listens(e) /\ Answered(e) /\ AcksFirst(e) /\ Counted(e)
BY DEF Known, StreamInv, Flows, CloseInv, CloseInvOf, WindowInv, ExchangeInv

(* The head of a queue is its first packet. *)
LEMMA HeadFacts ==
    ASSUME TypeOK, NEW e \in Ends, NEW f, HeadIs(e, f)
    PROVE  /\ network[e] # <<>> /\ 1 \in 1 .. Len(network[e]) /\ Head(network[e]) = network[e][1]
           /\ network[e][1].flags = f /\ network[e][1] \in Packet
           /\ ~ Without(network[e], {f})
<1>1. network[e] \in Seq(Packet) /\ network[e] # <<>>
  BY EndTypes DEF HeadIs
<1>2. 1 \in 1 .. Len(network[e]) /\ Head(network[e]) = network[e][1]
      /\ network[e][1] \in Packet
  BY <1>1
<1>3. network[e][1].flags = f
  BY <1>2 DEF HeadIs
<1> QED BY <1>1, <1>2, <1>3 DEF Without

(* While nothing fails, an end is in one of these states. *)
LEMMA Places ==
    ASSUME Known, NEW e \in Ends
    PROVE  state[e] \in Early \cup CanSend \cup FinSent
BY KnownOf DEF Roles, ClosesFirst, ClosesSecond, CanSend, FinSent

(* A FIN comes from an end that has sent one. *)
LEMMA FinFrom ==
    ASSUME Known, NEW e \in Ends, ~ Without(network[e], {"FIN"})
    PROVE  state[Peer(e)] \in FinSent
<1> DEFINE d == Peer(e)
<1>1. d \in Ends /\ Peer(d) = e
  BY PeerFacts
<1>2. FinsLast(d)
  BY <1>1, KnownOf
<1>3. state[d] \notin CanSend /\ state[d] \notin Early
  BY <1>1, <1>2 DEF FinsLast, Without
<1> QED BY <1>1, <1>3, Places

(* A stream that has been received to its end has no data on its way. *)
LEMMA NoDataLeft ==
    ASSUME TypeOK, NEW e \in Ends, InOrder(e), PacketsBounded(e), taken[Peer(e)] <= rcvd[e]
    PROVE  Without(network[e], {"DATA"})
<1>1. taken[Peer(e)] \in Nat /\ rcvd[e] \in Nat
  BY PeerFacts, EndTypes
<1>2. SUFFICES ASSUME NEW i \in 1 .. Len(network[e]), network[e][i].flags = "DATA"
               PROVE  FALSE
  BY DEF Without
<1> DEFINE p == network[e][i]
<1>3. p.off \in Nat /\ p.len \in Nat
  BY FlightTypes DEF Packet
<1>4. rcvd[e] <= p.off /\ p.len > 0
  BY <1>2 DEF InOrder
<1>5. p.off + p.len <= taken[Peer(e)]
  BY DEF PacketsBounded
<1> HIDE DEF p
<1> QED BY <1>1, <1>3, <1>4, <1>5

(* An established end that has data or a FIN to receive is not the one that  *)
(* sends.                                                                    *)
LEMMA DataTurn ==
    ASSUME Known, NEW e \in Ends, state[e] \in Early \cup {"ESTABLISHED"},
           ~ Without(network[e], {"DATA"}) \/ ~ Without(network[e], {"FIN"})
    PROVE  turn # e /\ ~ eof[e] /\ Without(network[Peer(e)], {"DATA"})
<1> DEFINE d == Peer(e)
<1>1. d \in Ends /\ Peer(d) = e /\ d # e
  BY PeerFacts
<1>2. state[e] \notin FinReceived /\ state[e] \notin FinSent
  BY DEF Early, FinReceived, FinSent
<1>3. ~ eof[e]
  BY <1>2, KnownOf DEF Roles
<1>4. ~ eof[d]
  BY <1>1, <1>2, KnownOf DEF Roles
<1>5. ASSUME turn = e PROVE FALSE
  <2>1. ~ HasClosed(d) /\ Without(network[e], {"DATA"})
    BY <1>1, <1>4, <1>5, KnownOf DEF Listens
  <2>2. state[d] \in FinSent
    BY <2>1, FinFrom
  <2> QED BY <1>1, <2>1, <2>2, KnownOf DEF AllTaken
<1> QED BY <1>3, <1>5, KnownOf DEF Listens

(* No process reads the ERROR buffer, has a negative window or is killed. *)
LEMMA NoFault ==
    ASSUME Known, Killable = {}, NEW e \in Ends
    PROVE  ~ RecvError(e) /\ ~ SendNegativeWindow(e) /\ ~ Kill(e)
<1> DEFINE d == Peer(e)
<1>1. d \in Ends /\ Peer(d) = e /\ d # e /\ TypeOK
  BY PeerFacts DEF Known
<1>2. ASSUME RecvError(e) PROVE FALSE
  <2>1. state[e] \in InControlLoop /\ HeadIs(e, "ERROR")
    BY <1>2 DEF RecvError, Handle
  <2>2. /\ 1 \in 1 .. Len(network[e]) /\ network[e][1].flags = "ERROR"
        /\ ~ Without(network[e], {"ERROR"})
    BY <1>1, <2>1, HeadFacts
  <2>3. state[d] = "EXITED"
    BY <2>2, KnownOf DEF Answered
  <2>4. state[e] \in FinSent
    BY <1>1, <2>3, KnownOf DEF Roles, FinReceived
  <2>5. ASSUME NEW f, f # "ERROR", Comes(e, f) PROVE FALSE
    <3>1. PICK j \in 1 .. Len(network[e]) :
              network[e][j].flags = f /\ \A i \in 1 .. (j - 1) : network[e][i].flags # "ERROR"
      BY <2>5 DEF Comes
    <3>2. j = 1 \/ 1 \in 1 .. (j - 1)
      OBVIOUS
    <3> QED BY <2>2, <2>5, <3>1, <3>2
  <2>6. FinBehindAck(e) => Comes(e, "FIN")
    BY DEF FinBehindAck, Comes
  <2>7. Comes(e, "ACK") \/ Comes(e, "FIN")
    BY <2>1, <2>3, <2>4, <2>6, KnownOf DEF Answered, InControlLoop, FinSent
  <2> QED BY <2>5, <2>7
<1>3. ASSUME SendNegativeWindow(e) PROVE FALSE
  <2>1. state[e] \in InControlLoop /\ "APP_DATA" \in event[e] /\ send_wind[e] < 0
    BY <1>3 DEF SendNegativeWindow, Handle
  <2>2. CASE state[e] \in CanSend
    <3>1. send_wind[e] >= 0 /\ send_wind[e] \in Int
      BY <1>1, <2>2, KnownOf, EndTypes DEF Counted
    <3> QED BY <2>1, <3>1
  <2>3. CASE state[e] \in FinSent
    <3>1. taken[e] = written[e] /\ app_recv_queue[e] # {}
      BY <2>1, <2>3, KnownOf DEF AllTaken, Reported
    <3> QED BY <1>1, <3>1, EndTypes
  <2> QED BY <2>1, <2>2, <2>3 DEF InControlLoop, CanSend, FinSent
<1> QED BY <1>2, <1>3 DEF Kill

(* How a step of e moves it on when nothing fails. *)
Moves(e) ==
    \/ state'[e] = state[e]
    \/ Opens(e)
    \/ RecvAck(e) /\ state[e] = "FIN_WAIT" /\ state'[e] = "FIN_SENT_ACK_RECIEVED"
    \/ RecvAck(e) /\ state[e] = "LAST_ACK" /\ state'[e] = "DONE"
    \/ /\ \E junk \in Junk : RecvFirstFin(e, junk)
       /\ state[e] = "ESTABLISHED" /\ state'[e] = "CLOSE_WAIT"
    \/ /\ \E junk \in Junk : RecvLastFin(e, junk)
       /\ state[e] = "FIN_SENT_ACK_RECIEVED" /\ state'[e] = "DONE"
    \/ SendFin(e) /\ state[e] = "ESTABLISHED" /\ state'[e] = "FIN_WAIT"
    \/ SendFin(e) /\ state[e] = "CLOSE_WAIT" /\ state'[e] = "LAST_ACK"
    \/ TransportExit(e) /\ state[e] = "DONE" /\ state'[e] = "EXITED"

(* A step keeps the state of an end or moves it on as the protocol says. *)
LEMMA StepMoves ==
    ASSUME Known, Killable = {}, NEW e \in Ends, Step(e)
    PROVE  Moves(e)
<1>1. DOMAIN state = Ends
  BY DEF Known, TypeOK, CtxTypeOK
<1>2. ~ RecvError(e) /\ ~ SendNegativeWindow(e) /\ ~ Kill(e)
  BY NoFault
<1>3. CASE Opens(e)
  BY <1>3 DEF Moves
<1>4. CASE Uses(e) \/ MyCloseReturns(e) \/ WaitForEvent(e) \/ RecvData(e) \/ DropFin(e)
           \/ \E m \in app_recv_queue[e] : SendAppData(e, m)
  BY <1>4 DEF Moves, Uses, AppCalls, AppReads, MyWrite, MyClose, PassTurn, MyRead,
     MyReadEof, MyCloseReturns, WaitForEvent, RecvData, DropFin, SendAppData, ctxVars
<1>5. CASE RecvAck(e)
  BY <1>1, <1>5 DEF Moves, RecvAck, AfterAck
<1>6. CASE \E junk \in Junk : RecvFirstFin(e, junk) \/ RecvLastFin(e, junk)
  BY <1>1, <1>6 DEF Moves, RecvFirstFin, RecvLastFin
<1>7. CASE SendFin(e)
  <2>1. state[e] \in InControlLoop /\ "APP_CLOSE_REQUESTED" \in event[e]
    BY <1>7 DEF SendFin, Handle
  <2>2. state[e] \in CanSend
    BY <2>1, KnownOf DEF Reported, FinSent, InControlLoop, CanSend
  <2>3. state'[e] = IF state[e] = "CLOSE_WAIT" THEN "LAST_ACK" ELSE "FIN_WAIT"
    BY <1>1, <1>7 DEF SendFin
  <2> QED BY <1>7, <2>2, <2>3 DEF Moves, CanSend
<1>8. CASE TransportExit(e)
  BY <1>1, <1>8 DEF Moves, TransportExit
<1> QED BY <1>2, <1>3, <1>4, <1>5, <1>6, <1>7, <1>8 DEF Step, Stops, ControlLoop

(* The turn passes, and end-of-file is read, in steps of their own. *)
LEMMA StepTurn ==
    ASSUME TypeOK, NEW e \in Ends, Step(e)
    PROVE  /\ turn' = turn \/ PassTurn(e)
           /\ eof' = eof \/ (MyReadEof(e) /\ eof' = [eof EXCEPT ![e] = TRUE])
<1>1. CASE Opens(e)
  BY <1>1 DEF Opens, SendSyn, RecvSynAckSendAck, RecvSynSendSynAck, RecvHandshakeAck,
     readVars, appVars
<1>2. CASE Uses(e)
  BY <1>2 DEF Uses, AppCalls, AppReads, MyWrite, MyClose, PassTurn, MyRead, MyReadEof,
     readVars, appVars
<1>3. CASE Stops(e)
  BY <1>3 DEF Stops, MyCloseReturns, Kill, Fault, readVars
<1>4. CASE ControlLoop(e)
  BY <1>4 DEF ControlLoop, WaitForEvent, TransportExit, RecvData, RecvAck,
     RecvFirstFin, RecvLastFin, DropFin, RecvError, SendAppData, SendNegativeWindow,
     SendFin, Fault, readVars, appVars
<1> QED BY <1>1, <1>2, <1>3, <1>4 DEF Step

(* myclose is reported once, and data while there is some. *)
LEMMA ReportedStep ==
    ASSUME Known, Killable = {}, NEW e \in Ends, Step(e)
    PROVE  Reported(e)'
<1>1. /\ TypeOK /\ DOMAIN state = Ends /\ DOMAIN event = Ends /\ DOMAIN close_requested = Ends
      /\ DOMAIN app_recv_queue = Ends
  BY DEF Known, TypeOK, CtxTypeOK, EventTypeOK, AppTypeOK, WriteTypeOK
<1>2. Reported(e) /\ AllTaken(e) /\ AppInOrder(e)
  BY KnownOf
<1>3. Moves(e) /\ ~ RecvError(e) /\ ~ SendNegativeWindow(e) /\ ~ Kill(e)
  BY StepMoves, NoFault
<1>4. ASSUME event'[e] \subseteq event[e], close_requested'[e] = close_requested[e],
             state'[e] \in FinSent => state[e] \in FinSent,
             app_recv_queue[e] \subseteq app_recv_queue'[e] \/ "APP_DATA" \notin event'[e]
      PROVE  Reported(e)'
  BY <1>2, <1>4 DEF Reported
<1>5. CASE Opens(e)
  BY <1>4, <1>5, StepEarly, <1>1 DEF Early, FinSent
<1>6. CASE MyClose(e)
  <2>1. ~ HasClosed(e) /\ state' = state /\ event' = event /\ app_recv_queue' = app_recv_queue
    BY <1>6 DEF MyClose, HasClosed, ctxVars, writeVars
  <2>2. "APP_CLOSE_REQUESTED" \notin event[e] /\ state[e] \notin FinSent
    BY <1>2, <2>1 DEF AllTaken
  <2> QED BY <1>2, <2>1, <2>2 DEF Reported
<1>7. CASE PassTurn(e) \/ AppReads(e) \/ MyCloseReturns(e)
           \/ \E n \in WriteSizes : MyWrite(e, n)
  BY <1>1, <1>4, <1>7 DEF PassTurn, AppReads, MyRead, MyReadEof, MyCloseReturns, MyWrite,
     ctxVars, writeVars, appVars
<1>8. CASE WaitForEvent(e)
  <2>1. /\ event'[e] = Ready(e) /\ state' = state /\ app_recv_queue' = app_recv_queue
        /\ close_requested'[e] = (close_requested[e] /\ "APP_CLOSE_REQUESTED" \notin Ready(e))
    BY <1>1, <1>8 DEF WaitForEvent, ctxVars, writeVars
  <2>2. /\ "APP_CLOSE_REQUESTED" \in Ready(e) => close_requested[e]
        /\ "APP_DATA" \in Ready(e) => app_recv_queue[e] # {}
    BY DEF Ready
  <2>3. /\ "APP_CLOSE_REQUESTED" \in event'[e] => ~ close_requested'[e]
        /\ state'[e] \in FinSent => ~ close_requested[e]
        /\ state'[e] \in FinSent => "APP_CLOSE_REQUESTED" \notin event'[e]
    BY <1>2, <2>1, <2>2 DEF Reported
  <2> QED BY <2>1, <2>2, <2>3 DEF Reported
<1>9. CASE SendFin(e)
  <2>1. /\ event[e] = {"APP_CLOSE_REQUESTED"} /\ event'[e] = event[e] \ {"APP_CLOSE_REQUESTED"}
        /\ close_requested' = close_requested
    BY <1>1, <1>9 DEF SendFin, Handle, appVars
  <2>2. event'[e] = {} /\ ~ close_requested[e]
    BY <1>2, <2>1 DEF Reported
  <2> QED BY <2>1, <2>2 DEF Reported
<1>10. CASE TransportExit(e)
  <2>1. state[e] \in FinSent /\ event' = event /\ close_requested' = close_requested
        /\ app_recv_queue' = app_recv_queue
    BY <1>10 DEF TransportExit, FinSent, appVars, writeVars
  <2> QED BY <1>4, <2>1
<1>11. CASE RecvAck(e) \/ RecvData(e) \/ DropFin(e)
            \/ \E junk \in Junk : RecvFirstFin(e, junk) \/ RecvLastFin(e, junk)
  <2>1. state'[e] \in FinSent => state[e] \in FinSent
    BY <1>1, <1>11 DEF RecvAck, RecvData, DropFin, RecvFirstFin, RecvLastFin, AfterAck,
       ctxVars, FinSent
  <2>2. event'[e] \subseteq event[e] /\ close_requested' = close_requested
        /\ app_recv_queue' = app_recv_queue
    BY <1>1, <1>11 DEF RecvAck, RecvData, DropFin, RecvFirstFin, RecvLastFin, Handle,
       appVars, writeVars
  <2> QED BY <1>4, <2>1, <2>2
<1>12. ASSUME NEW m \in app_recv_queue[e], SendAppData(e, m)
       PROVE  Reported(e)'
  <2>1. /\ event'[e] = event[e] \ {"APP_DATA"} /\ close_requested' = close_requested
        /\ state' = state
    BY <1>1, <1>12 DEF SendAppData, Handle, appVars
  <2> QED BY <1>4, <2>1
<1> QED BY <1>3, <1>5, <1>6, <1>7, <1>8, <1>9, <1>10, <1>11, <1>12
        DEF Step, Uses, AppCalls, Stops, ControlLoop

(* A step of e leaves the packets towards it, or all but the first. *)
LEMMA Shift ==
    ASSUME TypeOK, NEW e \in Ends, Step(e)
    PROVE  \E k \in {0, 1} :
               /\ Len(network'[e]) = Len(network[e]) - k
               /\ \A i \in 1 .. Len(network'[e]) :
                      i + k \in 1 .. Len(network[e]) /\ network'[e][i] = network[e][i + k]
               /\ k = 0 => network'[e] = network[e]
               /\ k = 1 => network[e] # <<>> /\ network'[e] = Tail(network[e])
<1>1. network[e] \in Seq(Packet) /\ Len(network[e]) \in Nat
  BY EndTypes
<1>2. CASE network'[e] = network[e]
  <2>1. /\ Len(network'[e]) = Len(network[e]) - 0
        /\ \A i \in 1 .. Len(network'[e]) :
               i + 0 \in 1 .. Len(network[e]) /\ network'[e][i] = network[e][i + 0]
    BY <1>1, <1>2
  <2> QED BY <1>2, <2>1
<1>3. CASE network[e] # <<>> /\ network'[e] = Tail(network[e])
  <2> DEFINE s == Tail(network[e])
  <2>1. /\ Len(s) = Len(network[e]) - 1
        /\ \A i \in 1 .. Len(s) : s[i] = network[e][i + 1]
    BY <1>1, <1>3, TailFacts
  <2>2. \A i \in 1 .. Len(s) : i + 1 \in 1 .. Len(network[e])
    BY <1>1, <2>1
  <2>3. network'[e] = s
    BY <1>3
  <2> HIDE DEF s
  <2> QED BY <1>3, <2>1, <2>2, <2>3
<1> QED BY <1>2, <1>3, StepNetwork

(* Data that is sent has a payload. *)
LEMMA SentData ==
    ASSUME TypeOK, NEW e \in Ends, NEW p \in Packet, Sent(e, p), p.flags = "DATA"
    PROVE  /\ p.len > 0 /\ state[e] \in CanSend \cup FinSent /\ app_recv_queue[e] # {}
           /\ p.seq = left[e] /\ left'[e] = left[e] + p.len /\ send_wind'[e] = send_wind[e] - p.len
           /\ isn' = isn /\ send_wind[e] >= p.len
<1>1. PICK m \in app_recv_queue[e] : SendAppData(e, m)
  BY DEF Sent, Cause
<1> DEFINE n == MIN(MIN(send_wind[e], MSS), m - taken[e])
           d == Peer(e)
<1>2. /\ d \in Ends /\ network[d] \in Seq(Packet) /\ DOMAIN network = Ends
      /\ DOMAIN left = Ends /\ DOMAIN send_wind = Ends
  BY PeerFacts, EndTypes DEF TypeOK, NetworkTypeOK, CtxTypeOK
<1>3. n \in Nat /\ n <= send_wind[e] /\ isn' = isn /\ state[e] \in InControlLoop
  BY <1>1, SegmentFacts DEF SendAppData, Handle
<1>4. network'[d] = Append(network[d], p)
  BY DEF Sent
<1>5. n # 0
  <2> SUFFICES ASSUME n = 0 PROVE FALSE
    OBVIOUS
  <2>1. network' = network
    BY <1>1 DEF SendAppData
  <2> QED BY <1>2, <1>4, <2>1, AppendFacts
<1> DEFINE r == Pkt(e, "DATA", left[e], 0, n)
<1>6. /\ network' = NetworkSend(e, r) /\ left' = [left EXCEPT ![e] = @ + n]
      /\ send_wind' = [send_wind EXCEPT ![e] = @ - n]
  BY <1>1, <1>5 DEF SendAppData
<1>7. network'[d] = Append(network[d], r)
  BY <1>2, <1>6 DEF NetworkSend
<1>8. p = r
  <2>1. r \in Packet
    BY <1>3, EndTypes, TypePkt DEF TypeOK, Flags
  <2> HIDE DEF r
  <2>2. /\ Append(network[d], p)[Len(network[d]) + 1] = p
        /\ Append(network[d], r)[Len(network[d]) + 1] = r
    BY <1>2, <2>1, AppendFacts
  <2> QED BY <1>4, <1>7, <2>2
<1>9. p.len = n /\ p.seq = left[e]
  BY <1>8 DEF Pkt
<1> HIDE DEF n
<1> QED BY <1>1, <1>2, <1>3, <1>5, <1>6, <1>9 DEF InControlLoop, CanSend, FinSent

(* Packets stay in the order of the stream. *)
LEMMA InOrderStep ==
    ASSUME Known, NEW e \in Ends, Step(e)
    PROVE  InOrder(e)' /\ InOrder(Peer(e))'
<1> DEFINE d == Peer(e)
<1>1. /\ TypeOK /\ d \in Ends /\ Peer(d) = e /\ InOrder(e) /\ InOrder(d)
      /\ PacketsBounded(d) /\ Flow(d) /\ Flow(e) /\ PacketsBounded(e)
  BY PeerFacts, KnownOf DEF Known
<1>2. /\ rcvd[e] \in Nat /\ rcvd[d] \in Nat /\ taken[e] \in Nat /\ Len(network[e]) \in Nat
      /\ Len(network[d]) \in Nat /\ network[d] \in Seq(Packet)
  BY <1>1, EndTypes
<1>t. /\ \A i \in 1 .. Len(network[e]) : network[e][i].off \in Nat /\ network[e][i].len \in Nat
      /\ \A i \in 1 .. Len(network[d]) : network[d][i].off \in Nat /\ network[d][i].len \in Nat
  BY <1>1, FlightTypes DEF Packet
<1>3. InOrder(e)'
  <2>1. PICK k \in {0, 1} :
               /\ Len(network'[e]) = Len(network[e]) - k
               /\ \A i \in 1 .. Len(network'[e]) :
                      i + k \in 1 .. Len(network[e]) /\ network'[e][i] = network[e][i + k]
               /\ k = 0 => network'[e] = network[e]
               /\ k = 1 => network[e] # <<>> /\ network'[e] = Tail(network[e])
    BY <1>1, Shift
  <2>2. ASSUME NEW i \in 1 .. Len(network'[e]),
               NEW j \in (i + 1) .. Len(network'[e])
        PROVE  network'[e][i].off + network'[e][i].len <= network'[e][j].off
    <3>1. j \in 1 .. Len(network'[e]) /\ j + k \in (i + k + 1) .. Len(network[e])
      BY <1>2, <2>1
    <3>2. network'[e][i] = network[e][i + k] /\ network'[e][j] = network[e][j + k]
          /\ i + k \in 1 .. Len(network[e])
      BY <2>1, <3>1
    <3> QED BY <1>1, <3>1, <3>2 DEF InOrder
  <2>3. ASSUME NEW i \in 1 .. Len(network'[e])
        PROVE  network'[e][i].flags = "DATA" => network'[e][i].len > 0
    BY <1>1, <2>1 DEF InOrder
  <2>4. ASSUME NEW i \in 1 .. Len(network'[e])
        PROVE  rcvd'[e] <= network'[e][i].off
    <3>1. i + k \in 1 .. Len(network[e]) /\ network'[e][i] = network[e][i + k]
      BY <2>1
    <3>2. CASE rcvd'[e] = rcvd[e]
      BY <1>1, <3>1, <3>2 DEF InOrder
    <3>3. CASE RecvData(e) /\ rcvd'[e] = rcvd[e] + Head(network[e]).len
      <4>1. HeadIs(e, "DATA") /\ network'[e] = Tail(network[e])
        BY <1>1, <3>3, PeerFacts DEF RecvData, NetworkRecvSend, TypeOK, NetworkTypeOK
      <4>2. Head(network[e]) = network[e][1] /\ 1 \in 1 .. Len(network[e])
            /\ network[e] # <<>>
        BY <1>1, <4>1, HeadFacts
      <4>3. Len(Tail(network[e])) = Len(network[e]) - 1
        BY <1>1, <4>2, EndTypes, TailFacts
      <4>4. k = 1
        BY <1>2, <2>1, <4>1, <4>3
      <4>5. i + 1 \in (1 + 1) .. Len(network[e])
        BY <1>2, <3>1, <4>4
      <4>6. network[e][1].off + network[e][1].len <= network[e][i + 1].off
        BY <1>1, <4>2, <4>5 DEF InOrder
      <4>7. rcvd[e] <= network[e][1].off
        BY <1>1, <4>2 DEF InOrder
      <4>8. /\ network[e][1].off \in Nat /\ network[e][1].len \in Nat
            /\ network[e][i + 1].off \in Nat
        BY <1>t, <3>1, <4>2, <4>4
      <4>9. rcvd'[e] <= network[e][i + 1].off
        BY <1>2, <3>3, <4>2, <4>6, <4>7, <4>8
      <4> QED BY <3>1, <4>4, <4>9
    <3> QED BY <1>1, <3>2, <3>3, RcvdStep
  <2> QED BY <2>2, <2>3, <2>4 DEF InOrder
<1>4. InOrder(d)'
  <2>1. rcvd'[d] = rcvd[d]
    BY <1>1, StepLocal DEF Untouched
  <2>2. CASE network'[d] = network[d]
    BY <1>1, <2>1, <2>2 DEF InOrder
  <2>3. ASSUME NEW p \in Packet, Sent(e, p)
        PROVE  InOrder(d)'
    <3> DEFINE s == Append(network[d], p)
    <3>1. network'[d] = s /\ p.off = taken[e]
      BY <2>3 DEF Sent
    <3>2. /\ Len(s) = Len(network[d]) + 1 /\ s[Len(network[d]) + 1] = p
          /\ \A i \in 1 .. Len(network[d]) : s[i] = network[d][i]
      BY <1>2, AppendFacts
    <3>3. rcvd[d] <= p.off /\ (p.flags = "DATA" => p.len > 0)
      BY <1>1, <2>3, <3>1, RcvdLimit, SentData
    <3> HIDE DEF s
    <3>4. ASSUME NEW i \in 1 .. Len(network[d]), NEW j \in (i + 1) .. Len(s)
          PROVE  s[i].off + s[i].len <= s[j].off
      <4>1. CASE j \in (i + 1) .. Len(network[d])
        <5>1. s[i] = network[d][i] /\ s[j] = network[d][j]
          BY <1>2, <3>2, <4>1
        <5> QED BY <1>1, <4>1, <5>1 DEF InOrder
      <4>2. CASE j = Len(network[d]) + 1
        <5>1. s[i] = network[d][i] /\ s[j] = p
          BY <3>2, <4>2
        <5>2. network[d][i].off + network[d][i].len <= taken[e]
          BY <1>1 DEF PacketsBounded
        <5> QED BY <3>1, <5>1, <5>2
      <4> QED BY <1>2, <3>2, <4>1, <4>2
    <3>5. ASSUME NEW i \in 1 .. Len(network[d])
          PROVE  rcvd[d] <= s[i].off /\ (s[i].flags = "DATA" => s[i].len > 0)
      BY <1>1, <3>2 DEF InOrder
    <3>6. \A i \in 1 .. Len(s) :
              i \in 1 .. Len(network[d]) \/ (i = Len(network[d]) + 1 /\ (i + 1) .. Len(s) = {})
      BY <1>2, <3>2
    <3>7. ASSUME NEW i \in 1 .. Len(s)
          PROVE  /\ rcvd[d] <= s[i].off /\ (s[i].flags = "DATA" => s[i].len > 0)
                 /\ \A j \in (i + 1) .. Len(s) : s[i].off + s[i].len <= s[j].off
      BY <3>2, <3>3, <3>4, <3>5, <3>6
    <3> QED BY <2>1, <3>1, <3>7 DEF InOrder
  <2> QED BY <1>1, <2>2, <2>3, StepNetwork
<1> QED BY <1>3, <1>4

(* End-of-file is queued when a FIN arrives or the transport ends, and stays. *)
LEMMA StepEof ==
    ASSUME TypeOK, NEW e \in Ends, Step(e)
    PROVE  /\ eof_queued[e] => eof_queued'[e]
           /\ eof_queued'[e] => eof_queued[e] \/ state'[e] \in {"CLOSE_WAIT", "EXITED"}
<1>1. DOMAIN eof_queued = Ends /\ DOMAIN state = Ends
  BY DEF TypeOK, ReadTypeOK, CtxTypeOK
<1>2. CASE Opens(e)
  BY <1>2, StepEarly
<1>3. CASE Uses(e)
  BY <1>3 DEF Uses, AppCalls, AppReads, MyWrite, MyClose, PassTurn, MyRead, MyReadEof,
     readVars
<1>4. CASE Stops(e)
  BY <1>4 DEF Stops, MyCloseReturns, Kill, Fault, readVars
<1>5. CASE TransportExit(e) \/ \E junk \in Junk : RecvFirstFin(e, junk)
  BY <1>1, <1>5 DEF TransportExit, RecvFirstFin
<1>6. CASE \/ WaitForEvent(e) \/ RecvData(e) \/ RecvAck(e) \/ DropFin(e) \/ RecvError(e)
           \/ SendNegativeWindow(e) \/ SendFin(e)
           \/ \E m \in app_recv_queue[e] : SendAppData(e, m)
           \/ \E junk \in Junk : RecvLastFin(e, junk)
  BY <1>6 DEF WaitForEvent, RecvData, RecvAck, RecvLastFin, DropFin, RecvError, SendAppData,
     SendNegativeWindow, SendFin, Fault, readVars
<1> QED BY <1>2, <1>3, <1>4, <1>5, <1>6 DEF Step, ControlLoop

(* What the moves of one end mean for the roles of both. *)
LEMMA MovesFacts ==
    ASSUME Known, Killable = {}, NEW e \in Ends, Step(e)
    PROVE  /\ state[e] \in FinSent => state'[e] \in FinSent
           /\ state[e] \in FinReceived => state'[e] \in FinReceived
           /\ turn = e => state'[e] \in ClosesFirst
           /\ turn # e => state'[e] \in ClosesSecond
           /\ state'[e] \in FinReceived =>
                  state[e] \in FinReceived \/ state[Peer(e)] \in FinSent
<1>1. TypeOK /\ Roles(e) /\ Moves(e)
  BY KnownOf, StepMoves DEF Known
<1> USE DEF FinSent, FinReceived
<1>2. CASE state'[e] = state[e]
  BY <1>1, <1>2 DEF Roles
<1>3. CASE Opens(e)
  BY <1>1, <1>3, StepEarly DEF ClosesFirst, ClosesSecond, Early
<1>4. CASE RecvAck(e) /\ state[e] = "FIN_WAIT" /\ state'[e] = "FIN_SENT_ACK_RECIEVED"
  BY <1>1, <1>4 DEF Roles, ClosesFirst, ClosesSecond, Early
<1>5. CASE \/ RecvAck(e) /\ state[e] = "LAST_ACK" /\ state'[e] = "DONE"
           \/ TransportExit(e) /\ state[e] = "DONE" /\ state'[e] = "EXITED"
  BY <1>1, <1>5 DEF Roles, ClosesFirst, ClosesSecond, Early
<1>6. CASE /\ \E junk \in Junk : RecvFirstFin(e, junk)
           /\ state[e] = "ESTABLISHED" /\ state'[e] = "CLOSE_WAIT"
  <2>1. ~ Without(network[e], {"FIN"})
    BY <1>1, <1>6, HeadFacts DEF RecvFirstFin
  <2>2. turn # e /\ state[Peer(e)] \in FinSent
    BY <1>6, <2>1, DataTurn, FinFrom
  <2> QED BY <1>6, <2>2 DEF ClosesSecond
<1>7. CASE /\ \E junk \in Junk : RecvLastFin(e, junk)
           /\ state[e] = "FIN_SENT_ACK_RECIEVED" /\ state'[e] = "DONE"
  <2>1. ~ Without(network[e], {"FIN"})
    BY <1>1, <1>7, HeadFacts DEF RecvLastFin
  <2>2. state[Peer(e)] \in FinSent
    BY <2>1, FinFrom
  <2> QED BY <1>7, <2>2 DEF ClosesFirst, ClosesSecond
<1>8. CASE SendFin(e) /\ state[e] = "ESTABLISHED" /\ state'[e] = "FIN_WAIT"
  <2>1. HasClosed(e)
    BY <1>8, KnownOf DEF SendFin, AllTaken
  <2>2. ~ eof[e]
    BY <1>1, <1>8 DEF Roles
  <2>3. turn = e
    BY <2>1, <2>2, KnownOf DEF Listens
  <2> QED BY <1>8, <2>3 DEF ClosesFirst
<1>9. CASE SendFin(e) /\ state[e] = "CLOSE_WAIT" /\ state'[e] = "LAST_ACK"
  BY <1>1, <1>9 DEF Roles, ClosesFirst, ClosesSecond, Early
<1> QED BY <1>1, <1>2, <1>3, <1>4, <1>5, <1>6, <1>7, <1>8, <1>9 DEF Moves

(* Within a turn the roles stay. *)
LEMMA RolesStep ==
    ASSUME Known, Killable = {}, NEW e \in Ends, Step(e), turn' = turn
    PROVE  Roles(e)' /\ Roles(Peer(e))'
<1> DEFINE d == Peer(e)
<1>1. /\ TypeOK /\ d \in Ends /\ d # e /\ Peer(d) = e /\ Roles(e) /\ Roles(d)
      /\ DOMAIN eof = Ends
  BY PeerFacts, KnownOf DEF Known, TypeOK, ReadTypeOK
<1>2. state'[d] = state[d] /\ eof_queued'[d] = eof_queued[d]
  BY <1>1, StepLocal DEF Untouched
<1>3. eof' = eof \/ (MyReadEof(e) /\ eof' = [eof EXCEPT ![e] = TRUE])
  BY <1>1, StepTurn
<1>4. eof'[d] = eof[d]
  BY <1>1, <1>3
<1>5. /\ eof_queued[e] => eof_queued'[e]
      /\ eof_queued'[e] => eof_queued[e] \/ state'[e] \in FinReceived
  BY <1>1, StepEof DEF FinReceived
<1>6. ASSUME eof'[e] PROVE eof_queued[e] /\ turn # e
  <2>1. CASE eof' = eof
    BY <1>1, <1>6, <2>1 DEF Roles
  <2>2. CASE MyReadEof(e)
    <3>1. eof_queued[e] /\ ~ HasClosed(e)
      BY <2>2 DEF MyReadEof, HasClosed
    <3>2. state[e] \in FinReceived /\ state[e] \notin FinSent
      BY <1>1, <3>1, KnownOf DEF Roles, AllTaken
    <3> QED BY <1>1, <3>1, <3>2 DEF Roles, ClosesFirst, FinReceived, FinSent, Early
  <2> QED BY <1>3, <2>1, <2>2
<1>7. Roles(e)'
  BY <1>1, <1>2, <1>5, <1>6, MovesFacts DEF Roles
<1>8. Roles(d)'
  BY <1>1, <1>2, <1>4, MovesFacts DEF Roles
<1> QED BY <1>7, <1>8

(* The turn passes when all that was written has been read. *)
LEMMA TurnPasses ==
    ASSUME Known, NEW e \in Ends, PassTurn(e)
    PROVE  (\A c \in Ends : Roles(c) /\ Listens(c))'
<1> DEFINE d == Peer(e)
<1>1. TypeOK /\ d \in Ends /\ d # e /\ Peer(d) = e /\ \A c \in Ends : c = e \/ c = d
  BY PeerFacts, OtherEnd DEF Known
<1>2. /\ turn = e /\ turn' = d /\ app[e] = "open" /\ app[d] = "open"
      /\ read[d] = written[e]
      /\ UNCHANGED <<ctxVars, network, writeVars, readVars, app>>
  BY DEF PassTurn
<1>3. ~ HasClosed(e) /\ ~ HasClosed(d)
  BY <1>2 DEF HasClosed
<1>4. state[e] \notin FinSent /\ state[d] \notin FinSent
  BY <1>1, <1>3, KnownOf DEF AllTaken
<1>5. state[e] \notin FinReceived /\ state[d] \notin FinReceived
  BY <1>1, <1>4, KnownOf DEF Roles
<1>6. ~ eof[e] /\ ~ eof[d] /\ ~ eof_queued[e] /\ ~ eof_queued[d]
  BY <1>1, <1>5, KnownOf DEF Roles
<1>7. state[e] \in Early \cup {"ESTABLISHED"} /\ state[d] \in Early \cup {"ESTABLISHED"}
  BY <1>1, <1>4, <1>5, Places DEF CanSend, FinReceived
<1>8. Roles(e)' /\ Roles(d)'
  BY <1>1, <1>2, <1>5, <1>6, <1>7 DEF Roles, ClosesFirst, ClosesSecond, ctxVars, readVars
<1>9. /\ written[e] \in Nat /\ taken[e] \in Nat /\ rcvd[d] \in Nat /\ read[d] \in Nat
      /\ taken[e] <= written[e] /\ read[d] <= rcvd[d]
  BY <1>1, EndTypes DEF TypeOK, ReadTypeOK
<1>10. rcvd[d] <= taken[e]
  BY <1>1, KnownOf, RcvdLimit
<1>11. taken[e] = written[e] /\ taken[e] <= rcvd[d]
  BY <1>2, <1>9, <1>10
<1>12. Without(network[d], {"DATA"})
  BY <1>1, <1>11, KnownOf, NoDataLeft
<1>13. Listens(e)'
  BY <1>2, <1>3, <1>11, <1>12 DEF Listens, HasClosed, Without, writeVars
<1>14. Listens(d)'
  BY <1>2 DEF Listens
<1> QED BY <1>1, <1>8, <1>13, <1>14

(* The end whose turn it is not stays silent until it reads end-of-file. *)
LEMMA ListensStep ==
    ASSUME Known, RequestResponse, Killable = {}, NEW e \in Ends, Step(e), turn' = turn
    PROVE  Listens(e)' /\ Listens(Peer(e))'
<1> DEFINE d == Peer(e)
<1>1. /\ TypeOK /\ d \in Ends /\ d # e /\ Peer(d) = e /\ Listens(e) /\ Listens(d)
      /\ DOMAIN eof = Ends /\ DOMAIN app = Ends /\ DOMAIN written = Ends
  BY PeerFacts, KnownOf DEF Known, TypeOK, ReadTypeOK, AppTypeOK, WriteTypeOK
<1>2. Untouched(d)
  BY <1>1, StepLocal
<1>3. eof' = eof \/ (MyReadEof(e) /\ eof' = [eof EXCEPT ![e] = TRUE])
  BY <1>1, StepTurn
<1>4. eof'[d] = eof[d] /\ (eof[e] => eof'[e])
  BY <1>1, <1>3
<1>5. Listens(d)'
  <2> SUFFICES ASSUME turn # d, ~ eof[d]
               PROVE  (~ HasClosed(d) /\ taken[d] = written[d] /\ Without(network[e], {"DATA"}))'
    BY <1>1, <1>4 DEF Listens
  <2>1. ~ HasClosed(d) /\ taken[d] = written[d] /\ Without(network[e], {"DATA"})
    BY <1>1 DEF Listens
  <2>2. Without(network[e], {"DATA"})'
    BY <1>1, <2>1, WithoutIn
  <2> QED BY <1>2, <2>1, <2>2 DEF Untouched, HasClosed
<1>6. Listens(e)'
  <2> SUFFICES ASSUME turn # e, ~ eof[e]
               PROVE  (~ HasClosed(e) /\ taken[e] = written[e] /\ Without(network[d], {"DATA"}))'
    BY <1>4 DEF Listens
  <2>1. ~ HasClosed(e) /\ taken[e] = written[e] /\ Without(network[d], {"DATA"})
    BY <1>1 DEF Listens
  <2>2. ~ MayUse(e)
    BY DEF MayUse
  <2>3. app_recv_queue[e] = {}
    BY <1>1, <2>1, EndTypes
  <2>4. ~ Cause(e, "DATA")
    BY <2>3 DEF Cause
  <2>5. Without(network[d], {"DATA"})'
    BY <1>1, <2>1, <2>4, WithoutOut
  <2>6. taken'[e] = taken[e]
    BY <1>1, <2>1, TakenStays
  <2>7. ~ RecvError(e) /\ ~ SendNegativeWindow(e) /\ ~ Kill(e)
    BY NoFault
  <2>8. written'[e] = written[e] /\ ~ HasClosed(e)'
    <3>1. CASE Opens(e)
      <4>1. state'[e] \in Early => app' = app
        BY <1>1, <3>1, StepEarly
      <4> QED BY <1>1, <2>1, <3>1, <4>1, StepEarly DEF HasClosed
    <3>2. CASE Uses(e)
      BY <2>1, <2>2, <3>2 DEF Uses, AppCalls, AppReads, MyWrite, MyClose, PassTurn, MyRead,
         MyReadEof, writeVars, appVars, HasClosed
    <3>3. CASE MyCloseReturns(e)
      BY <2>1, <3>3 DEF MyCloseReturns, HasClosed
    <3>4. CASE ControlLoop(e)
      BY <2>1, <2>3, <2>7, <3>4 DEF ControlLoop, WaitForEvent, TransportExit, RecvData,
         RecvAck, RecvFirstFin, RecvLastFin, DropFin, SendFin, writeVars, appVars, HasClosed
    <3> QED BY <2>7, <3>1, <3>2, <3>3, <3>4 DEF Step, Stops
  <2> QED BY <2>1, <2>5, <2>6, <2>8
<1> QED BY <1>5, <1>6

(* What control_loop does with the packet it takes. *)
Takes(e) ==
    LET f == network[e][1].flags IN
    \/ RecvAck(e) /\ f = "ACK"
    \/ RecvData(e) /\ f = "DATA"
    \/ f = "FIN" /\ (DropFin(e) \/ \E junk \in Junk : RecvFirstFin(e, junk) \/ RecvLastFin(e, junk))

(* After the handshake only control_loop takes packets. *)
LEMMA Popped ==
    ASSUME TypeOK, NEW e \in Ends, Step(e), ~ Opens(e), ~ RecvError(e),
           network'[e] # network[e]
    PROVE  Takes(e)
<1>1. DOMAIN network = Ends /\ Peer(e) \in Ends /\ Peer(e) # e
  BY PeerFacts DEF TypeOK, NetworkTypeOK
<1>2. ASSUME NEW f, HeadIs(e, f) PROVE network[e][1].flags = f
  BY <1>2, HeadFacts
<1>3. ~ Uses(e)
  BY StepState
<1>4. ~ Stops(e)
  BY <1>1 DEF Stops, MyCloseReturns, Kill, NetworkSend
<1>5. ControlLoop(e)
  BY <1>3, <1>4 DEF Step
<1>6. CASE RecvAck(e)
  BY <1>2, <1>6 DEF RecvAck, Takes
<1>7. CASE RecvData(e)
  BY <1>2, <1>7 DEF RecvData, Takes
<1>8. CASE DropFin(e) \/ \E junk \in Junk : RecvFirstFin(e, junk) \/ RecvLastFin(e, junk)
  <2>1. HeadIs(e, "FIN")
    BY <1>8 DEF DropFin, RecvFirstFin, RecvLastFin
  <2> QED BY <1>2, <1>8, <2>1 DEF Takes
<1>9. CASE WaitForEvent(e) \/ SendNegativeWindow(e) \/ SendFin(e) \/ TransportExit(e)
           \/ \E m \in app_recv_queue[e] : SendAppData(e, m)
  <2>1. network'[e] = network[e]
    BY <1>1, <1>9 DEF WaitForEvent, SendNegativeWindow, SendFin, TransportExit, SendAppData,
       NetworkSend
  <2> QED BY <2>1
<1> QED BY <1>5, <1>6, <1>7, <1>8, <1>9 DEF ControlLoop

(* A packet that comes, comes after a packet of another kind is taken. *)
LEMMA ComesKept ==
    ASSUME TypeOK, NEW e \in Ends, Step(e), NEW f, Comes(e, f),
           network'[e] = network[e] \/ network[e][1].flags # f
    PROVE  Comes(e, f)'
<1>1. Len(network[e]) \in Nat
  BY EndTypes
<1>2. PICK j \in 1 .. Len(network[e]) :
          network[e][j].flags = f /\ \A i \in 1 .. (j - 1) : network[e][i].flags # "ERROR"
  BY DEF Comes
<1>3. PICK k \in {0, 1} :
          /\ Len(network'[e]) = Len(network[e]) - k
          /\ \A i \in 1 .. Len(network'[e]) :
                 i + k \in 1 .. Len(network[e]) /\ network'[e][i] = network[e][i + k]
          /\ k = 0 => network'[e] = network[e]
          /\ k = 1 => network[e] # <<>> /\ network'[e] = Tail(network[e])
  BY Shift
<1>4. CASE network'[e] = network[e]
  BY <1>4 DEF Comes
<1>5. CASE network'[e] # network[e]
  <2>1. k = 1 /\ j # 1
    BY <1>2, <1>3, <1>5
  <2>2. j - 1 \in 1 .. Len(network'[e]) /\ (j - 1) + k = j
    BY <1>1, <1>3, <2>1
  <2>3. network'[e][j - 1].flags = f
    BY <1>2, <1>3, <2>2
  <2>4. ASSUME NEW i \in 1 .. ((j - 1) - 1) PROVE network'[e][i].flags # "ERROR"
    <3>1. i \in 1 .. Len(network'[e]) /\ i + k \in 1 .. (j - 1)
      BY <1>1, <1>3, <2>1
    <3> QED BY <1>2, <1>3, <3>1
  <2> QED BY <2>2, <2>3, <2>4 DEF Comes
<1> QED BY <1>4, <1>5

(* The same for a FIN behind an acknowledgement. *)
LEMMA FinBehindAckKept ==
    ASSUME TypeOK, NEW e \in Ends, Step(e), FinBehindAck(e),
           network'[e] = network[e] \/ network[e][1].flags # "ACK"
    PROVE  FinBehindAck(e)'
<1>1. Len(network[e]) \in Nat
  BY EndTypes
<1>2. PICK j \in 1 .. Len(network[e]) :
          /\ network[e][j].flags = "FIN" /\ \A i \in 1 .. (j - 1) : network[e][i].flags # "ERROR"
          /\ \E l \in 1 .. (j - 1) : network[e][l].flags = "ACK"
  BY DEF FinBehindAck
<1>3. PICK l \in 1 .. (j - 1) : network[e][l].flags = "ACK"
  BY <1>2
<1>4. PICK k \in {0, 1} :
          /\ Len(network'[e]) = Len(network[e]) - k
          /\ \A i \in 1 .. Len(network'[e]) :
                 i + k \in 1 .. Len(network[e]) /\ network'[e][i] = network[e][i + k]
          /\ k = 0 => network'[e] = network[e]
          /\ k = 1 => network[e] # <<>> /\ network'[e] = Tail(network[e])
  BY Shift
<1>5. CASE network'[e] = network[e]
  BY <1>5 DEF FinBehindAck
<1>6. CASE network'[e] # network[e]
  <2>1. k = 1 /\ l # 1
    BY <1>3, <1>4, <1>6
  <2>2. /\ j - 1 \in 1 .. Len(network'[e]) /\ (j - 1) + k = j
        /\ l - 1 \in 1 .. ((j - 1) - 1) /\ l - 1 \in 1 .. Len(network'[e]) /\ (l - 1) + k = l
    BY <1>1, <1>4, <2>1
  <2>3. network'[e][j - 1].flags = "FIN" /\ network'[e][l - 1].flags = "ACK"
    BY <1>2, <1>3, <1>4, <2>2
  <2>4. ASSUME NEW i \in 1 .. ((j - 1) - 1) PROVE network'[e][i].flags # "ERROR"
    <3>1. i \in 1 .. Len(network'[e]) /\ i + k \in 1 .. (j - 1)
      BY <1>1, <1>4, <2>1
    <3> QED BY <1>2, <1>4, <3>1
  <2> QED BY <2>2, <2>3, <2>4 DEF FinBehindAck
<1> QED BY <1>5, <1>6

(* What comes to the peer still comes when another packet is sent. *)
LEMMA ComesBefore ==
    ASSUME TypeOK, NEW e \in Ends, Step(e)
    PROVE  LET d == Peer(e) IN
           /\ \A f : Comes(d, f) => Comes(d, f)'
           /\ FinBehindAck(d) => FinBehindAck(d)'
<1> DEFINE d == Peer(e)
<1>1. d \in Ends /\ network[d] \in Seq(Packet) /\ Len(network[d]) \in Nat
  BY PeerFacts, EndTypes
<1>2. CASE network'[d] = network[d]
  BY <1>2 DEF Comes, FinBehindAck
<1>3. ASSUME NEW p \in Packet, Sent(e, p)
      PROVE  /\ \A f : Comes(d, f) => Comes(d, f)'
             /\ FinBehindAck(d) => FinBehindAck(d)'
  <2> DEFINE s == Append(network[d], p)
  <2>1. network'[d] = s
    BY <1>3 DEF Sent
  <2>2. Len(s) = Len(network[d]) + 1 /\ \A i \in 1 .. Len(network[d]) : s[i] = network[d][i]
    BY <1>1, AppendFacts
  <2> HIDE DEF s
  <2>3. \A j \in 1 .. Len(network[d]) :
            /\ j \in 1 .. Len(s) /\ s[j] = network[d][j]
            /\ \A i \in 1 .. (j - 1) : s[i] = network[d][i]
    BY <1>1, <2>2
  <2> QED BY <2>1, <2>3 DEF Comes, FinBehindAck
<1> QED BY <1>2, <1>3, StepNetwork

(* A packet that is sent before the end of the TCP connection comes. *)
LEMMA ComesNew ==
    ASSUME TypeOK, NEW d \in Ends, NEW r \in Packet, network'[d] = Append(network[d], r),
           Without(network[d], {"ERROR"})
    PROVE  /\ Comes(d, r.flags)'
           /\ r.flags = "FIN" /\ Comes(d, "ACK") => FinBehindAck(d)'
<1> DEFINE s == Append(network[d], r)
           n == Len(network[d]) + 1
<1>1. network[d] \in Seq(Packet) /\ Len(network[d]) \in Nat
  BY EndTypes
<1>2. Len(s) = n /\ s[n] = r /\ \A i \in 1 .. Len(network[d]) : s[i] = network[d][i]
  BY <1>1, AppendFacts
<1>3. n \in 1 .. Len(s) /\ 1 .. (n - 1) = 1 .. Len(network[d])
  BY <1>1, <1>2
<1>4. network'[d] = s
  OBVIOUS
<1> HIDE DEF s, n
<1>5. \A i \in 1 .. (n - 1) : s[i].flags # "ERROR"
  BY <1>2, <1>3 DEF Without
<1>6. Comes(d, r.flags)'
  BY <1>2, <1>3, <1>4, <1>5 DEF Comes
<1>7. ASSUME r.flags = "FIN", Comes(d, "ACK") PROVE FinBehindAck(d)'
  <2>1. PICK k \in 1 .. Len(network[d]) : network[d][k].flags = "ACK"
    BY <1>7 DEF Comes
  <2>2. k \in 1 .. (n - 1) /\ s[k].flags = "ACK"
    BY <1>2, <1>3, <2>1
  <2> QED BY <1>2, <1>3, <1>4, <1>5, <1>7, <2>2 DEF FinBehindAck
<1> QED BY <1>6, <1>7

(* The ERROR buffer follows the end of the transport. *)
LEMMA ErrorSent ==
    ASSUME Known, Killable = {}, NEW e \in Ends, Step(e), NEW p \in Packet, Sent(e, p),
           p.flags = "ERROR"
    PROVE  state[e] = "EXITED"
<1> DEFINE d == Peer(e)
<1>1. /\ TypeOK /\ d \in Ends /\ d # e /\ DOMAIN network = Ends
      /\ network[d] \in Seq(Packet) /\ Len(network[d]) \in Nat
  BY PeerFacts, EndTypes DEF Known, TypeOK, NetworkTypeOK
<1>2. network'[d] = Append(network[d], p)
  BY DEF Sent
<1>3. network'[d] # network[d] /\ network'[d][Len(network[d]) + 1] = p
  <2>1. /\ Append(network[d], p)[Len(network[d]) + 1] = p
        /\ Len(Append(network[d], p)) = Len(network[d]) + 1
    BY <1>1, AppendFacts
  <2> QED BY <1>1, <1>2, <2>1
<1>4. ASSUME NEW f, NEW q, NEW a, NEW n, f # "ERROR",
             network' = NetworkSend(e, Pkt(e, f, q, a, n))
             \/ network' = NetworkRecvSend(e, Pkt(e, f, q, a, n))
      PROVE  FALSE
  <2> DEFINE r == Pkt(e, f, q, a, n)
  <2>1. network'[d] = Append(network[d], r)
    BY <1>1, <1>4 DEF NetworkSend, NetworkRecvSend
  <2>2. Append(network[d], r)[Len(network[d]) + 1] = r
    BY <1>1
  <2>3. r.flags = f
    BY DEF Pkt
  <2> HIDE DEF r
  <2>4. p = r
    BY <1>3, <2>1, <2>2
  <2> QED BY <1>4, <2>3, <2>4
<1>5. ~ RecvError(e) /\ ~ SendNegativeWindow(e) /\ ~ Kill(e)
  BY NoFault
<1>6. CASE Opens(e)
  <2>1. CASE e = "active" /\ SendSyn
    BY <1>4, <2>1 DEF SendSyn
  <2>2. CASE e = "active" /\ RecvSynAckSendAck
    BY <1>4, <2>2 DEF RecvSynAckSendAck
  <2>3. CASE e = "passive" /\ RecvSynSendSynAck
    BY <1>4, <2>3 DEF RecvSynSendSynAck
  <2>4. CASE e = "passive" /\ RecvHandshakeAck
    <3>1. network'[d] = network[d]
      BY <1>1, <2>4 DEF RecvHandshakeAck, NetworkRecv
    <3> QED BY <1>3, <3>1
  <2> QED BY <1>6, <2>1, <2>2, <2>3, <2>4 DEF Opens
<1>7. CASE Uses(e)
  BY <1>1, <1>3, <1>7, StepState
<1>8. CASE MyCloseReturns(e)
  BY <1>8 DEF MyCloseReturns
<1>9. CASE ControlLoop(e)
  <2>1. CASE WaitForEvent(e) \/ TransportExit(e) \/ RecvAck(e) \/ DropFin(e)
    <3>1. network'[d] = network[d]
      BY <1>1, <2>1 DEF WaitForEvent, TransportExit, RecvAck, DropFin, NetworkRecv
    <3> QED BY <1>3, <3>1
  <2>2. CASE RecvData(e)
    BY <1>4, <2>2 DEF RecvData
  <2>3. CASE \E junk \in Junk : RecvFirstFin(e, junk) \/ RecvLastFin(e, junk)
    BY <1>4, <2>3 DEF RecvFirstFin, RecvLastFin
  <2>4. CASE SendFin(e)
    BY <1>4, <2>4 DEF SendFin
  <2>5. ASSUME NEW m \in app_recv_queue[e], SendAppData(e, m) PROVE FALSE
    <3> DEFINE n == MIN(MIN(send_wind[e], MSS), m - taken[e])
    <3>1. CASE n = 0
      BY <1>3, <2>5, <3>1 DEF SendAppData
    <3>2. CASE n # 0
      <4>1. network' = NetworkSend(e, Pkt(e, "DATA", left[e], 0, n))
        BY <2>5, <3>2 DEF SendAppData
      <4> QED BY <1>4, <4>1
    <3> QED BY <3>1, <3>2
  <2> QED BY <1>5, <1>9, <2>1, <2>2, <2>3, <2>4, <2>5 DEF ControlLoop
<1> QED BY <1>5, <1>6, <1>7, <1>8, <1>9 DEF Step, Stops

(* The two ends do not have the same role. *)
LEMMA OneRole ==
    ASSUME Known, NEW e \in Ends
    PROVE  LET first == {"FIN_WAIT", "FIN_SENT_ACK_RECIEVED"}
               second == {"CLOSE_WAIT", "LAST_ACK"} IN
           /\ state[e] \in first => state[Peer(e)] \notin first
           /\ state[e] \in second => state[Peer(e)] \notin second
<1>1. Peer(e) \in Ends /\ turn \in Ends /\ Peer(e) # e
  BY PeerFacts DEF Known, TypeOK, AppTypeOK
<1>2. turn = e \/ turn = Peer(e)
  BY <1>1, OtherEnd
<1>3. Roles(e) /\ Roles(Peer(e))
  BY <1>1, KnownOf
<1> QED BY <1>1, <1>2, <1>3 DEF Roles, ClosesFirst, ClosesSecond, Early

(* What the end that takes the step waits for still comes. *)
LEMMA AnsweredOwn ==
    ASSUME Known, Killable = {}, NEW e \in Ends, Step(e)
    PROVE  Answered(e)'
<1> DEFINE d == Peer(e)
<1>1. TypeOK /\ d \in Ends /\ Peer(d) = e /\ Answered(e) /\ Roles(d)
  BY PeerFacts, KnownOf DEF Known
<1>2. state'[d] = state[d] /\ Moves(e) /\ ~ RecvError(e)
  BY <1>1, StepLocal, StepMoves, NoFault DEF Untouched
<1>3. (~ Without(network[e], {"ERROR"}))' => state'[d] = "EXITED"
  BY <1>1, <1>2, WithoutIn DEF Answered
<1>4. ASSUME Opens(e) PROVE state'[e] \in Early \cup {"ESTABLISHED"}
  BY <1>1, <1>4, StepEarly
<1>5. ASSUME state[d] \in FinReceived PROVE state[e] \in FinSent
  BY <1>1, <1>5 DEF Roles
<1>6. ASSUME state'[e] = state[e], state[e] \in {"FIN_WAIT", "LAST_ACK"}
      PROVE  network'[e] = network[e] \/ network[e][1].flags # "ACK"
  <2>1. ~ RecvAck(e)
    BY <1>1, <1>6 DEF RecvAck, AfterAck, TypeOK, CtxTypeOK
  <2>2. ~ Opens(e)
    BY <1>4, <1>6 DEF Early
  <2> QED BY <1>1, <1>2, <2>1, <2>2, Popped DEF Takes
<1>7. ASSUME state'[e] = state[e], state[e] = "FIN_SENT_ACK_RECIEVED"
      PROVE  network'[e] = network[e] \/ network[e][1].flags # "FIN"
  <2>1. ~ DropFin(e) /\ ~ \E junk \in Junk : RecvFirstFin(e, junk) \/ RecvLastFin(e, junk)
    BY <1>1, <1>7 DEF DropFin, RecvFirstFin, RecvLastFin, TypeOK, CtxTypeOK
  <2>2. ~ Opens(e)
    BY <1>4, <1>7 DEF Early
  <2> QED BY <1>1, <1>2, <2>1, <2>2, Popped DEF Takes
<1>8. ASSUME state'[e] = "LAST_ACK", state[d] \in {"DONE", "EXITED"}
      PROVE  Comes(e, "ACK")'
  <2>1. state[e] = "LAST_ACK"
    BY <1>2, <1>4, <1>5, <1>8 DEF Moves, Early, FinReceived, FinSent
  <2> QED BY <1>1, <1>6, <1>8, <2>1, ComesKept DEF Answered
<1>9. ASSUME state'[e] = "FIN_WAIT", state[d] = "CLOSE_WAIT"
      PROVE  Comes(e, "ACK")'
  <2>1. state[e] = "FIN_WAIT"
    BY <1>2, <1>4, <1>5, <1>9 DEF Moves, Early, FinReceived, FinSent
  <2> QED BY <1>1, <1>6, <1>9, <2>1, ComesKept DEF Answered
<1>10. ASSUME state'[e] = "FIN_WAIT", state[d] \in {"LAST_ACK", "DONE", "EXITED"}
       PROVE  FinBehindAck(e)'
  <2>1. state[e] = "FIN_WAIT"
    BY <1>2, <1>4, <1>5, <1>10 DEF Moves, Early, FinReceived, FinSent
  <2> QED BY <1>1, <1>6, <1>10, <2>1, FinBehindAckKept DEF Answered
<1>11. ASSUME state'[e] = "FIN_SENT_ACK_RECIEVED", state[d] \in {"LAST_ACK", "DONE", "EXITED"}
       PROVE  Comes(e, "FIN")'
  <2>1. CASE state[e] = "FIN_SENT_ACK_RECIEVED"
    BY <1>1, <1>7, <1>11, <2>1, ComesKept DEF Answered
  <2>2. CASE RecvAck(e) /\ state[e] = "FIN_WAIT"
    <3>1. Comes(e, "FIN")
      BY <1>1, <1>11, <2>2 DEF Answered, FinBehindAck, Comes
    <3>2. network[e][1].flags = "ACK"
      BY <1>1, <2>2, HeadFacts DEF RecvAck
    <3> QED BY <1>1, <3>1, <3>2, ComesKept
  <2>3. state[e] = "FIN_SENT_ACK_RECIEVED" \/ (RecvAck(e) /\ state[e] = "FIN_WAIT")
    BY <1>2, <1>4, <1>11 DEF Moves, Early
  <2> QED BY <2>1, <2>2, <2>3
<1> QED BY <1>2, <1>3, <1>8, <1>9, <1>10, <1>11 DEF Answered

(* What its peer waits for is sent, or still comes. *)
LEMMA AnsweredPeer ==
    ASSUME Known, Killable = {}, NEW e \in Ends, Step(e)
    PROVE  Answered(Peer(e))'
<1> DEFINE d == Peer(e)
<1>1. TypeOK /\ d \in Ends /\ Peer(d) = e /\ d # e /\ Answered(d) /\ DOMAIN network = Ends
  BY PeerFacts, KnownOf DEF Known, TypeOK, NetworkTypeOK
<1>2. state'[d] = state[d] /\ Moves(e)
  BY <1>1, StepLocal, StepMoves DEF Untouched
<1>3. /\ \A f : Comes(d, f) => Comes(d, f)'
      /\ FinBehindAck(d) => FinBehindAck(d)'
  BY <1>1, ComesBefore
<1>4. ASSUME Opens(e) PROVE state[e] \in Early /\ state'[e] \in Early \cup {"ESTABLISHED"}
  BY <1>1, <1>4, StepEarly
<1>5. state[e] = "EXITED" => state'[e] = "EXITED"
  BY <1>2, <1>4 DEF Moves, Early
<1>6. ASSUME (~ Without(network[d], {"ERROR"}))' PROVE state'[e] = "EXITED"
  <2>1. CASE ~ Without(network[d], {"ERROR"})
    BY <1>1, <1>5, <2>1 DEF Answered
  <2>2. CASE Without(network[d], {"ERROR"})
    <3>1. PICK i \in 1 .. Len(network'[d]) : network'[d][i].flags = "ERROR"
      BY <1>6 DEF Without
    <3>2. ~ (i \in 1 .. Len(network[d]) /\ network'[d][i] = network[d][i])
      BY <2>2, <3>1 DEF Without
    <3>3. network'[d][i] \in Packet /\ Sent(e, network'[d][i])
      BY <1>1, <3>1, <3>2, PacketsOut
    <3> QED BY <1>5, <3>1, <3>3, ErrorSent
  <2> QED BY <2>1, <2>2
<1>7. ASSUME state[e] # "EXITED" PROVE Without(network[d], {"ERROR"})
  BY <1>1, <1>7 DEF Answered
<1>8. ASSUME NEW f \in Flags, NEW q \in Int, NEW a \in Int, state[e] # "EXITED",
             network' = NetworkSend(e, Pkt(e, f, q, a, 0))
             \/ network' = NetworkRecvSend(e, Pkt(e, f, q, a, 0))
      PROVE  Comes(d, f)' /\ (f = "FIN" /\ Comes(d, "ACK") => FinBehindAck(d)')
  <2> DEFINE r == Pkt(e, f, q, a, 0)
  <2>1. network'[d] = Append(network[d], r)
    BY <1>1, <1>8 DEF NetworkSend, NetworkRecvSend
  <2>2. r \in Packet /\ r.flags = f
    BY <1>1, <1>8, TypePkt DEF TypeOK, Pkt
  <2> HIDE DEF r
  <2> QED BY <1>1, <1>7, <1>8, <2>1, <2>2, ComesNew
<1>9. "ACK" \in Flags /\ "FIN" \in Flags /\ left[e] \in Int /\ 0 \in Int
  BY <1>1, EndTypes DEF Flags
<1>10. ASSUME NEW junk \in Junk, RecvFirstFin(e, junk) \/ RecvLastFin(e, junk)
       PROVE  Comes(d, "ACK")'
  <2>1. /\ network' = NetworkRecvSend(e, Pkt(e, "ACK", left[e], junk, 0))
        /\ state[e] # "EXITED"
    BY <1>10 DEF RecvFirstFin, RecvLastFin
  <2>2. junk \in Int
    BY ConstantsAssumption
  <2> QED BY <1>8, <1>9, <2>1, <2>2
<1>11. ASSUME state[d] = "LAST_ACK", state'[e] \in {"DONE", "EXITED"}
       PROVE  Comes(d, "ACK")'
  <2>1. CASE state[e] \in {"DONE", "EXITED"}
    BY <1>1, <1>3, <1>11, <2>1 DEF Answered
  <2>2. CASE state[e] \notin {"DONE", "EXITED"}
    <3>1. \/ RecvAck(e) /\ state[e] = "LAST_ACK"
          \/ \E junk \in Junk : RecvLastFin(e, junk)
      BY <1>2, <1>4, <1>11, <2>2 DEF Moves, Early
    <3>2. state[e] # "LAST_ACK"
      BY <1>11, OneRole
    <3> QED BY <1>10, <3>1, <3>2
  <2> QED BY <2>1, <2>2
<1>12. ASSUME state[d] = "FIN_WAIT", state'[e] = "CLOSE_WAIT"
       PROVE  Comes(d, "ACK")'
  <2>1. state[e] = "CLOSE_WAIT" \/ \E junk \in Junk : RecvFirstFin(e, junk)
    BY <1>2, <1>4, <1>12 DEF Moves, Early
  <2> QED BY <1>1, <1>3, <1>10, <1>12, <2>1 DEF Answered
<1>13. ASSUME state[d] \in {"FIN_WAIT", "FIN_SENT_ACK_RECIEVED"},
              state'[e] \in {"LAST_ACK", "DONE", "EXITED"}
       PROVE  /\ state[d] = "FIN_SENT_ACK_RECIEVED" => Comes(d, "FIN")'
              /\ state[d] = "FIN_WAIT" => FinBehindAck(d)'
  <2>1. CASE state[e] \in {"LAST_ACK", "DONE", "EXITED"}
    BY <1>1, <1>3, <2>1 DEF Answered
  <2>2. CASE state[e] \notin {"LAST_ACK", "DONE", "EXITED"}
    <3>1. state[e] # "FIN_SENT_ACK_RECIEVED"
      BY <1>13, OneRole
    <3>2. SendFin(e) /\ state[e] = "CLOSE_WAIT"
      BY <1>2, <1>4, <1>13, <2>2, <3>1 DEF Moves, Early
    <3>3. network' = NetworkSend(e, Pkt(e, "FIN", left[e], 0, 0))
      BY <3>2 DEF SendFin
    <3>4. state[d] = "FIN_WAIT" => Comes(d, "ACK")
      BY <1>1, <3>2 DEF Answered
    <3> QED BY <1>8, <1>9, <3>2, <3>3, <3>4
  <2> QED BY <2>1, <2>2
<1> HIDE DEF d
<1>14. Answered(d)'
  BY <1>1, <1>2, <1>6, <1>11, <1>12, <1>13 DEF Answered
<1> QED BY <1>14 DEF d

(* The packets of a queue have sequence numbers. *)
LEMMA OfFacts ==
    ASSUME NEW q \in Seq(Packet), NEW f
    PROVE  /\ Of(q, f) \subseteq Packet /\ \A x \in Of(q, f) : x.flags = f /\ UpTo(x) \in Int
           /\ \A i \in 1 .. Len(q) : q[i].flags = f => q[i] \in Of(q, f)
<1>1. \A i \in 1 .. Len(q) : q[i] \in Packet
  OBVIOUS
<1>2. \A x \in Packet : UpTo(x) \in Int
  BY DEF Packet, UpTo
<1> QED BY <1>1, <1>2 DEF Of

(* A queue without its first packet. *)
LEMMA OfTail ==
    ASSUME NEW q \in Seq(Packet), q # <<>>, NEW f
    PROVE  /\ Of(Tail(q), f) \subseteq Of(q, f)
           /\ q[1].flags # f => Of(Tail(q), f) = Of(q, f)
           /\ Of(q, f) \subseteq Of(Tail(q), f) \cup {q[1]}
           /\ Rises(q, f) => Rises(Tail(q), f)
           /\ Rises(q, f) /\ q[1].flags = f =>
                  \A x \in Of(Tail(q), f) : UpTo(q[1]) <= UpTo(x)
<1> DEFINE s == Tail(q)
<1>1. /\ Len(q) \in Nat \ {0} /\ Len(s) = Len(q) - 1
      /\ \A i \in 1 .. Len(s) : s[i] = q[i + 1]
  BY TailFacts
<1> HIDE DEF s
<1>2. /\ \A i \in 1 .. Len(s) : i + 1 \in 1 .. Len(q) /\ 1 < i + 1
      /\ \A i \in 1 .. Len(q) : i = 1 \/ (i - 1 \in 1 .. Len(s) /\ s[i - 1] = q[i])
  BY <1>1
<1>3. Of(s, f) \subseteq Of(q, f)
  BY <1>1, <1>2 DEF Of
<1>4. Of(q, f) \subseteq Of(s, f) \cup {q[1]}
  BY <1>2 DEF Of
<1>5. q[1].flags # f => Of(q, f) \subseteq Of(s, f)
  BY <1>2 DEF Of
<1>6. ASSUME Rises(q, f) PROVE Rises(s, f)
  <2> SUFFICES ASSUME NEW i \in 1 .. Len(s), NEW j \in 1 .. Len(s), i < j,
                      s[i].flags = f, s[j].flags = f
               PROVE  UpTo(s[i]) <= UpTo(s[j])
    BY DEF Rises
  <2>1. i + 1 \in 1 .. Len(q) /\ j + 1 \in 1 .. Len(q) /\ i + 1 < j + 1
        /\ s[i] = q[i + 1] /\ s[j] = q[j + 1]
    BY <1>1
  <2> QED BY <1>6, <2>1 DEF Rises
<1>7. ASSUME Rises(q, f), q[1].flags = f, NEW x \in Of(s, f)
      PROVE  UpTo(q[1]) <= UpTo(x)
  <2>1. PICK i \in 1 .. Len(s) : x = s[i] /\ s[i].flags = f
    BY <1>7 DEF Of
  <2>2. 1 \in 1 .. Len(q) /\ i + 1 \in 1 .. Len(q) /\ 1 < i + 1 /\ s[i] = q[i + 1]
    BY <1>1
  <2> QED BY <1>7, <2>1, <2>2 DEF Rises
<1> QED BY <1>3, <1>4, <1>5, <1>6, <1>7 DEF s

(* A queue with one more packet. *)
LEMMA OfAppend ==
    ASSUME NEW q \in Seq(Packet), NEW p \in Packet, NEW f
    PROVE  /\ p.flags # f => Of(Append(q, p), f) = Of(q, f)
           /\ p.flags = f => Of(Append(q, p), f) = Of(q, f) \cup {p}
           /\ Rises(q, f) /\ (p.flags = f => \A x \in Of(q, f) : UpTo(x) <= UpTo(p)) =>
                  Rises(Append(q, p), f)
<1> DEFINE s == Append(q, p)
           n == Len(q) + 1
<1>1. Len(q) \in Nat /\ Len(s) = n /\ s[n] = p /\ \A i \in 1 .. Len(q) : s[i] = q[i]
  BY AppendFacts
<1>2. /\ n \in 1 .. Len(s) /\ \A i \in 1 .. Len(q) : i \in 1 .. Len(s)
      /\ \A i \in 1 .. Len(s) : i \in 1 .. Len(q) \/ i = n
      /\ \A i, j \in 1 .. Len(s) : i < j => i \in 1 .. Len(q)
  BY <1>1
<1> HIDE DEF s, n
<1>3. p.flags # f => Of(s, f) = Of(q, f)
  BY <1>1, <1>2 DEF Of
<1>4. p.flags = f => Of(s, f) = Of(q, f) \cup {p}
  BY <1>1, <1>2 DEF Of
<1>5. ASSUME Rises(q, f), p.flags = f => \A x \in Of(q, f) : UpTo(x) <= UpTo(p)
      PROVE  Rises(s, f)
  <2> SUFFICES ASSUME NEW i \in 1 .. Len(s), NEW j \in 1 .. Len(s), i < j,
                      s[i].flags = f, s[j].flags = f
               PROVE  UpTo(s[i]) <= UpTo(s[j])
    BY DEF Rises
  <2>1. i \in 1 .. Len(q) /\ s[i] = q[i]
    BY <1>1, <1>2
  <2>2. CASE j \in 1 .. Len(q)
    BY <1>1, <1>5, <2>1, <2>2 DEF Rises
  <2>3. CASE j = n
    <3>1. q[i] \in Of(q, f) /\ s[j] = p
      BY <1>1, <2>1, <2>3, OfFacts
    <3> QED BY <1>5, <2>1, <3>1
  <2> QED BY <1>2, <2>2, <2>3
<1> QED BY <1>3, <1>4, <1>5 DEF s

(* Without acknowledgements and data on their way, isn and left agree. *)
LEMMA CountNone ==
    ASSUME NEW q \in Seq(Packet), NEW r \in Seq(Packet), NEW b \in Int,
           Without(q, {"ACK"}), Without(r, {"DATA"})
    PROVE  CountUp(q, r, b, b) /\ \A a : CountUp(q, r, a, b) => a = b
<1>1. Of(q, "ACK") = {} /\ Of(r, "DATA") = {}
  BY DEF Of, Without
<1>2. Rises(q, "ACK") /\ Rises(r, "DATA")
  BY DEF Rises, Without
<1> QED BY <1>1, <1>2 DEF CountUp

(* An acknowledgement that is received moves isn up. *)
LEMMA CountAck ==
    ASSUME NEW q \in Seq(Packet), NEW r \in Seq(Packet), NEW a \in Int, NEW b \in Int,
           CountUp(q, r, a, b), q # <<>>, q[1].flags = "ACK"
    PROVE  CountUp(Tail(q), r, q[1].ack, b) /\ a <= q[1].ack /\ q[1].ack \in Int
<1> DEFINE s == Tail(q)
           c == q[1].ack
<1>1. /\ Of(s, "ACK") \subseteq Of(q, "ACK") /\ Of(q, "ACK") \subseteq Of(s, "ACK") \cup {q[1]}
      /\ Rises(s, "ACK") /\ \A x \in Of(s, "ACK") : UpTo(q[1]) <= UpTo(x)
  BY OfTail DEF CountUp
<1>2. 1 \in 1 .. Len(q) /\ q[1] \in Packet
  OBVIOUS
<1>3. q[1] \in Of(q, "ACK") /\ UpTo(q[1]) = c /\ c \in Int
  BY <1>2, OfFacts DEF UpTo, Packet
<1> HIDE DEF s, c
<1>4. a <= c /\ c <= b /\ \A y \in Of(r, "DATA") : c <= UpTo(y)
  BY <1>3 DEF CountUp
<1>5. c = b \/ \E x \in Of(s, "ACK") \cup Of(r, "DATA") : UpTo(x) = b
  <2>1. CASE a = b
    BY <1>3, <1>4, <2>1
  <2>2. ASSUME NEW x \in Of(q, "ACK") \cup Of(r, "DATA"), UpTo(x) = b
        PROVE  c = b \/ \E y \in Of(s, "ACK") \cup Of(r, "DATA") : UpTo(y) = b
    BY <1>1, <1>3, <2>2
  <2> QED BY <2>1, <2>2 DEF CountUp
<1>6. CountUp(s, r, c, b)
  <2>1. \A x \in Of(s, "ACK") \cup Of(r, "DATA") : c <= UpTo(x) /\ UpTo(x) <= b
    BY <1>1, <1>3, <1>4 DEF CountUp
  <2>2. \A x \in Of(s, "ACK"), y \in Of(r, "DATA") : UpTo(x) <= UpTo(y)
    BY <1>1 DEF CountUp
  <2>3. Rises(r, "DATA")
    BY DEF CountUp
  <2> QED BY <1>1, <1>4, <1>5, <2>1, <2>2, <2>3 DEF CountUp
<1> QED BY <1>3, <1>4, <1>6 DEF s, c

(* Other packets do not count. *)
LEMMA CountOther ==
    ASSUME NEW q \in Seq(Packet), NEW r \in Seq(Packet), NEW a \in Int, NEW b \in Int,
           CountUp(q, r, a, b)
    PROVE  /\ q # <<>> /\ q[1].flags # "ACK" => CountUp(Tail(q), r, a, b)
           /\ r # <<>> /\ r[1].flags # "DATA" => CountUp(q, Tail(r), a, b)
           /\ \A p \in Packet : p.flags # "ACK" => CountUp(Append(q, p), r, a, b)
           /\ \A p \in Packet : p.flags # "DATA" => CountUp(q, Append(r, p), a, b)
<1>1. ASSUME NEW s, NEW t, Of(s, "ACK") = Of(q, "ACK"), Of(t, "DATA") = Of(r, "DATA"),
             Rises(s, "ACK"), Rises(t, "DATA")
      PROVE  CountUp(s, t, a, b)
  BY <1>1 DEF CountUp
<1>2. Rises(q, "ACK") /\ Rises(r, "DATA")
  BY DEF CountUp
<1>3. ASSUME q # <<>>, q[1].flags # "ACK" PROVE CountUp(Tail(q), r, a, b)
  BY <1>1, <1>2, <1>3, OfTail
<1>4. ASSUME r # <<>>, r[1].flags # "DATA" PROVE CountUp(q, Tail(r), a, b)
  BY <1>1, <1>2, <1>4, OfTail
<1>5. ASSUME NEW p \in Packet, p.flags # "ACK" PROVE CountUp(Append(q, p), r, a, b)
  BY <1>1, <1>2, <1>5, OfAppend
<1>6. ASSUME NEW p \in Packet, p.flags # "DATA" PROVE CountUp(q, Append(r, p), a, b)
  BY <1>1, <1>2, <1>6, OfAppend
<1> QED BY <1>3, <1>4, <1>5, <1>6

(* Data that is received is acknowledged in its place. *)
LEMMA CountData ==
    ASSUME NEW q \in Seq(Packet), NEW r \in Seq(Packet), NEW a \in Int, NEW b \in Int,
           CountUp(q, r, a, b), r # <<>>, r[1].flags = "DATA",
           NEW p \in Packet, p.flags = "ACK", p.ack = r[1].seq + r[1].len
    PROVE  CountUp(Append(q, p), Tail(r), a, b)
<1> DEFINE s == Append(q, p)
           t == Tail(r)
           c == UpTo(r[1])
<1>1. /\ Of(t, "DATA") \subseteq Of(r, "DATA")
      /\ Of(r, "DATA") \subseteq Of(t, "DATA") \cup {r[1]}
      /\ Rises(t, "DATA") /\ \A y \in Of(t, "DATA") : c <= UpTo(y)
  BY OfTail DEF CountUp
<1>2. 1 \in 1 .. Len(r)
  OBVIOUS
<1>3. r[1] \in Of(r, "DATA") /\ c \in Int /\ UpTo(p) = c
  BY <1>2, OfFacts DEF UpTo
<1>4. Of(s, "ACK") = Of(q, "ACK") \cup {p}
  BY OfAppend
<1> HIDE DEF s, t, c
<1>5. a <= c /\ c <= b /\ \A x \in Of(q, "ACK") : UpTo(x) <= c
  BY <1>3 DEF CountUp, c
<1>6. Rises(s, "ACK")
  BY <1>3, <1>5, OfAppend DEF CountUp, s
<1>7. a = b \/ \E x \in Of(s, "ACK") \cup Of(t, "DATA") : UpTo(x) = b
  <2>1. ASSUME NEW x \in Of(q, "ACK") \cup Of(r, "DATA"), UpTo(x) = b
        PROVE  \E y \in Of(s, "ACK") \cup Of(t, "DATA") : UpTo(y) = b
    <3>1. CASE x = r[1]
      BY <1>3, <1>4, <2>1, <3>1 DEF c
    <3>2. CASE x # r[1]
      BY <1>1, <1>4, <2>1, <3>2
    <3> QED BY <3>1, <3>2
  <2> QED BY <2>1 DEF CountUp
<1>8. CountUp(s, t, a, b)
  <2>1. \A x \in Of(s, "ACK") \cup Of(t, "DATA") : a <= UpTo(x) /\ UpTo(x) <= b
    BY <1>1, <1>3, <1>4, <1>5 DEF CountUp
  <2>2. \A x \in Of(s, "ACK"), y \in Of(t, "DATA") : UpTo(x) <= UpTo(y)
    BY <1>1, <1>3, <1>4 DEF CountUp
  <2>3. a <= b
    BY DEF CountUp
  <2> QED BY <1>1, <1>6, <1>7, <2>1, <2>2, <2>3 DEF CountUp
<1> QED BY <1>8 DEF s, t

(* Data that is sent counts on from left. *)
LEMMA CountSent ==
    ASSUME NEW q \in Seq(Packet), NEW r \in Seq(Packet), NEW a \in Int, NEW b \in Int,
           CountUp(q, r, a, b), NEW p \in Packet, p.flags = "DATA", p.seq = b
    PROVE  CountUp(q, Append(r, p), a, b + p.len)
<1> DEFINE t == Append(r, p)
           c == b + p.len
<1>1. UpTo(p) = c /\ c \in Int /\ b <= c
  BY DEF UpTo, Packet
<1>2. Of(t, "DATA") = Of(r, "DATA") \cup {p}
  BY OfAppend
<1>3. /\ \A x \in Of(q, "ACK") : UpTo(x) \in Int
      /\ \A x \in Of(r, "DATA") : UpTo(x) \in Int
  BY OfFacts
<1>4. \A x \in Of(q, "ACK") \cup Of(r, "DATA") : a <= UpTo(x) /\ UpTo(x) <= b
  BY DEF CountUp
<1> HIDE DEF c, t
<1>5. \A x \in Of(q, "ACK") \cup Of(r, "DATA") : UpTo(x) <= c
  BY <1>1, <1>3, <1>4
<1>6. Rises(t, "DATA")
  BY <1>1, <1>5, OfAppend DEF CountUp, t
<1>7. a <= c
  BY <1>1 DEF CountUp
<1>8. \A x \in Of(q, "ACK") \cup Of(t, "DATA") : a <= UpTo(x) /\ UpTo(x) <= c
  BY <1>1, <1>2, <1>4, <1>5, <1>7
<1>9. \A x \in Of(q, "ACK"), y \in Of(t, "DATA") : UpTo(x) <= UpTo(y)
  BY <1>1, <1>2, <1>5 DEF CountUp
<1>10. \E x \in Of(q, "ACK") \cup Of(t, "DATA") : UpTo(x) = c
  BY <1>1, <1>2
<1>11. CountUp(q, t, a, c)
  BY <1>6, <1>7, <1>8, <1>9, <1>10 DEF CountUp
<1> QED BY <1>11 DEF c, t

(* An acknowledgement overtakes neither data nor FIN of its sender. *)
LEMMA AckSent ==
    ASSUME Known, NEW e \in Ends, Cause(e, "ACK"),
           state[Peer(e)] \in Early \cup {"ESTABLISHED"}
    PROVE  Without(network[Peer(e)], {"DATA"}) /\ Without(network[Peer(e)], {"FIN"})
<1> DEFINE d == Peer(e)
<1>1. TypeOK /\ d \in Ends /\ Peer(d) = e
  BY PeerFacts DEF Known
<1>2. CASE RecvData(e)
  <2>1. ~ Without(network[e], {"DATA"})
    BY <1>1, <1>2, HeadFacts DEF RecvData
  <2> QED BY <1>1, <2>1, DataTurn
<1>3. CASE \E junk \in Junk : RecvFirstFin(e, junk) \/ RecvLastFin(e, junk)
  <2>1. ~ Without(network[e], {"FIN"})
    BY <1>1, <1>3, HeadFacts DEF RecvFirstFin, RecvLastFin
  <2> QED BY <2>1, FinFrom DEF FinSent, Early
<1>4. CASE e = "active" /\ RecvSynAckSendAck
  <2>1. state[e] \in Early
    BY <1>4 DEF RecvSynAckSendAck, Early
  <2> QED BY <2>1, KnownOf DEF FinsLast, Without
<1> QED BY <1>2, <1>3, <1>4 DEF Cause

(* Acknowledgements stay in front of the peer's data. *)
LEMMA AcksFirstStep ==
    ASSUME Known, Killable = {}, NEW e \in Ends, Step(e)
    PROVE  AcksFirst(e)' /\ AcksFirst(Peer(e))'
<1> DEFINE d == Peer(e)
<1>1. TypeOK /\ d \in Ends /\ Peer(d) = e /\ AcksFirst(e) /\ AcksFirst(d)
  BY PeerFacts, KnownOf DEF Known
<1>2. Len(network[e]) \in Nat /\ Len(network[d]) \in Nat /\ state'[d] = state[d]
  BY <1>1, EndTypes, StepLocal DEF Untouched
<1>3. AcksFirst(e)'
  <2> SUFFICES ASSUME state'[e] \in Early \cup {"ESTABLISHED"},
                      NEW i \in 1 .. Len(network'[e]), NEW j \in 1 .. Len(network'[e]), i < j,
                      network'[e][i].flags \in {"DATA", "FIN"}
               PROVE  network'[e][j].flags # "ACK"
    BY DEF AcksFirst
  <2>1. state[e] \in Early \cup {"ESTABLISHED"}
    BY <1>1, StepMoves, StepEarly DEF Moves, Early
  <2>2. PICK k \in {0, 1} :
            \A l \in 1 .. Len(network'[e]) :
                l + k \in 1 .. Len(network[e]) /\ network'[e][l] = network[e][l + k]
    BY <1>1, Shift
  <2>3. i + k < j + k
    OBVIOUS
  <2> QED BY <1>1, <2>1, <2>2, <2>3 DEF AcksFirst
<1>4. AcksFirst(d)'
  <2> SUFFICES ASSUME state[d] \in Early \cup {"ESTABLISHED"},
                      NEW i \in 1 .. Len(network'[d]), NEW j \in 1 .. Len(network'[d]), i < j,
                      network'[d][i].flags \in {"DATA", "FIN"}, network'[d][j].flags = "ACK"
               PROVE  FALSE
    BY <1>2 DEF AcksFirst
  <2>1. CASE j \in 1 .. Len(network[d]) /\ network'[d][j] = network[d][j]
    <3>1. i \in 1 .. Len(network[d]) /\ i # Len(network[d]) + 1
      BY <1>2, <2>1
    <3>2. network'[d][i] = network[d][i]
      BY <1>1, <3>1, PacketsOut
    <3> QED BY <1>1, <2>1, <3>1, <3>2 DEF AcksFirst
  <2>2. CASE j = Len(network[d]) + 1 /\ Sent(e, network'[d][j])
    <3>1. Cause(e, "ACK")
      BY <2>2 DEF Sent
    <3>2. i \in 1 .. Len(network[d]) /\ i # Len(network[d]) + 1
      BY <1>2, <2>2
    <3>3. network'[d][i] = network[d][i]
      BY <1>1, <3>2, PacketsOut
    <3> QED BY <3>1, <3>2, <3>3, AckSent DEF Without
  <2> QED BY <1>1, <2>1, <2>2, PacketsOut
<1> QED BY <1>3, <1>4

(* When data or a FIN arrives, all that e has sent is acknowledged. *)
LEMMA Settled ==
    ASSUME Known, NEW e \in Ends, state[e] \in CanSend,
           HeadIs(e, "DATA") \/ (HeadIs(e, "FIN") /\ state[e] = "ESTABLISHED")
    PROVE  /\ isn[e] = left[e] /\ send_wind[e] = SWS
           /\ Without(network[e], {"ACK"}) /\ Without(network[Peer(e)], {"DATA"})
<1> DEFINE d == Peer(e)
<1>1. /\ TypeOK /\ d \in Ends /\ Peer(d) = e /\ network[e] \in Seq(Packet)
      /\ network[d] \in Seq(Packet) /\ Len(network[e]) \in Nat
      /\ isn[e] \in Int /\ left[e] \in Int /\ send_wind[e] \in Int /\ SWS \in Int
  BY PeerFacts, EndTypes, FlightTypes DEF Known
<1>2. /\ 1 \in 1 .. Len(network[e]) /\ network[e][1].flags \in {"DATA", "FIN"}
      /\ ~ Without(network[e], {"DATA"}) \/ ~ Without(network[e], {"FIN"})
  BY <1>1, HeadFacts
<1>3. state[e] = "ESTABLISHED"
  <2> SUFFICES ASSUME state[e] = "CLOSE_WAIT", HeadIs(e, "DATA") PROVE FALSE
    BY DEF CanSend
  <2>1. rcvd[e] = written[d]
    BY KnownOf DEF StreamEnded, FinReceived
  <2>2. taken[d] <= rcvd[e]
    BY <1>1, <2>1, EndTypes
  <2>3. Without(network[e], {"DATA"})
    BY <1>1, <2>2, KnownOf, NoDataLeft
  <2> QED BY <1>1, <2>3, HeadFacts
<1>4. Without(network[d], {"DATA"})
  BY <1>2, <1>3, DataTurn
<1>5. Without(network[e], {"ACK"})
  <2> SUFFICES ASSUME NEW j \in 1 .. Len(network[e]), network[e][j].flags = "ACK" PROVE FALSE
    BY DEF Without
  <2>1. 1 < j
    BY <1>1, <1>2
  <2> QED BY <1>2, <1>3, <2>1, KnownOf DEF AcksFirst
<1>6. /\ CountUp(network[e], network[d], isn[e], left[e])
      /\ send_wind[e] + left[e] - isn[e] = SWS
  BY KnownOf DEF Counted
<1>7. isn[e] = left[e]
  BY <1>1, <1>4, <1>5, <1>6, CountNone
<1> QED BY <1>1, <1>4, <1>5, <1>6, <1>7

(* A step that sends no data leaves the count of what was sent. *)
LEMMA CountSend ==
    ASSUME TypeOK, NEW e \in Ends, Step(e), ~ Cause(e, "DATA"),
           NEW s \in Seq(Packet), NEW a \in Int, NEW b \in Int,
           CountUp(s, network[Peer(e)], a, b)
    PROVE  CountUp(s, network'[Peer(e)], a, b)
<1> DEFINE d == Peer(e)
<1>1. network[d] \in Seq(Packet)
  BY PeerFacts, EndTypes
<1>2. CASE network'[d] = network[d]
  BY <1>2
<1>3. ASSUME NEW p \in Packet, Sent(e, p) PROVE CountUp(s, network'[d], a, b)
  <2>1. network'[d] = Append(network[d], p) /\ p.flags # "DATA"
    BY <1>3 DEF Sent
  <2> QED BY <1>1, <2>1, CountOther
<1> QED BY <1>2, <1>3, StepNetwork

(* A step that receives no acknowledgement leaves the count of what is       *)
(* acknowledged.                                                             *)
LEMMA CountKept ==
    ASSUME Known, NEW e \in Ends, Step(e), state[e] \in CanSend, ~ Cause(e, "DATA"),
           isn'[e] = isn[e], left'[e] = left[e], send_wind'[e] = send_wind[e],
           network'[e] = network[e] \/ network[e][1].flags # "ACK"
    PROVE  Counted(e)'
<1> DEFINE d == Peer(e)
<1>1. /\ TypeOK /\ d \in Ends /\ network[e] \in Seq(Packet) /\ network[d] \in Seq(Packet)
      /\ isn[e] \in Int /\ left[e] \in Int
  BY PeerFacts, EndTypes DEF Known
<1>2. /\ send_wind[e] >= 0 /\ send_wind[e] + left[e] - isn[e] = SWS
      /\ CountUp(network[e], network[d], isn[e], left[e])
  BY KnownOf DEF Counted
<1>3. network'[e] \in Seq(Packet) /\ CountUp(network'[e], network[d], isn[e], left[e])
  <2>1. CASE network'[e] = network[e]
    BY <1>1, <1>2, <2>1
  <2>2. CASE network'[e] # network[e]
    <3>1. network[e] # <<>> /\ network'[e] = Tail(network[e])
      BY <1>1, <2>2, StepNetwork
    <3> QED BY <1>1, <1>2, <2>2, <3>1, CountOther, TailFacts
  <2> QED BY <2>1, <2>2
<1>4. CountUp(network'[e], network'[d], isn[e], left[e])
  BY <1>1, <1>3, CountSend
<1> QED BY <1>2, <1>4 DEF Counted

(* The end that takes the step keeps its count. *)
LEMMA CountedOwn ==
    ASSUME Known, Killable = {}, NEW e \in Ends, Step(e)
    PROVE  Counted(e)'
<1> SUFFICES ASSUME state'[e] \in CanSend PROVE Counted(e)'
  BY DEF Counted
<1> DEFINE d == Peer(e)
<1>1. /\ TypeOK /\ d \in Ends /\ d # e /\ network[e] \in Seq(Packet) /\ network[d] \in Seq(Packet)
      /\ isn[e] \in Int /\ left[e] \in Int /\ send_wind[e] \in Int /\ SWS \in Nat
  BY PeerFacts, EndTypes, ConstantsAssumption DEF Known
<1>2. DOMAIN isn = Ends /\ DOMAIN left = Ends /\ DOMAIN send_wind = Ends /\ DOMAIN network = Ends
      /\ DOMAIN state = Ends
  BY <1>1 DEF TypeOK, CtxTypeOK, NetworkTypeOK
<1>t. network'[e] \in Seq(Packet) /\ network'[d] \in Seq(Packet)
  <2>1. network[e] # <<>> => Tail(network[e]) \in Seq(Packet)
    BY <1>1, TailFacts
  <2>2. \A p \in Packet : Append(network[d], p) \in Seq(Packet)
    BY <1>1, AppendFacts
  <2>3. network'[e] \in Seq(Packet)
    BY <1>1, <2>1, StepNetwork
  <2>4. network'[d] \in Seq(Packet)
    BY <1>1, <2>2, StepNetwork DEF Sent
  <2> QED BY <2>3, <2>4
<1>3. ASSUME NEW b \in Int, isn'[e] = b, left'[e] = b, send_wind'[e] = SWS,
             Without(network'[e], {"ACK"}), Without(network'[d], {"DATA"})
      PROVE  Counted(e)'
  <2>1. CountUp(network'[e], network'[d], b, b)
    BY <1>3, <1>t, CountNone
  <2>2. send_wind'[e] >= 0 /\ send_wind'[e] + left'[e] - isn'[e] = SWS
    BY <1>1, <1>3
  <2> QED BY <1>3, <2>1, <2>2 DEF Counted
<1>4. CASE Opens(e)
  <2>1. state[e] \in Early /\ state'[e] = "ESTABLISHED" /\ send_wind' = send_wind
    BY <1>1, <1>4, StepEarly DEF CanSend, Early
  <2>2. send_wind[e] = SWS /\ Without(network[d], {"FIN", "DATA"})
    BY <2>1, KnownOf DEF AppInOrder, FinsLast
  <2>3. ~ Cause(e, "DATA")
    BY <2>1 DEF Cause, SendAppData, Handle, Early, InControlLoop
  <2>4. Without(network[d], {"DATA"})'
    <3>1. Without(network[d], {"DATA"})
      BY <2>2 DEF Without
    <3> QED BY <1>1, <2>3, <3>1, WithoutOut
  <2>5. CASE e = "active" /\ RecvSynAckSendAck
    <3>1. isn'[e] = isn[e] + 1 /\ left'[e] = isn[e] + 1 /\ state["active"] = "SYN_SENT"
      BY <1>2, <2>5 DEF RecvSynAckSendAck, Establish
    <3>2. Without(network[e], {"ACK"})
      BY <2>5, <3>1 DEF Known, WindowInv, HandshakeAcks, AcksOfActive
    <3>3. Without(network[e], {"ACK"})'
      BY <1>1, <3>2, WithoutIn
    <3> QED BY <1>1, <1>3, <2>1, <2>2, <2>4, <3>1, <3>3
  <2>6. CASE e = "passive" /\ RecvHandshakeAck
    <3>1. /\ isn'[e] = isn[e] /\ left'[e] = isn[e] /\ state["passive"] = "SYN_RCVD"
          /\ network[e] # <<>> /\ network'[e] = Tail(network[e])
      BY <1>2, <2>6 DEF RecvHandshakeAck, Establish, NetworkRecv
    <3>2. \A i \in 2 .. Len(network[e]) : network[e][i].flags # "ACK"
      BY <2>6, <3>1 DEF Known, WindowInv, HandshakeAcks, AcksOfPassive
    <3>3. Without(network'[e], {"ACK"})
      <4> DEFINE s == Tail(network[e])
      <4>1. /\ Len(network[e]) \in Nat \ {0} /\ Len(s) = Len(network[e]) - 1
            /\ \A i \in 1 .. Len(s) : s[i] = network[e][i + 1]
        BY <1>1, <3>1, TailFacts
      <4>2. \A i \in 1 .. Len(s) : i + 1 \in 2 .. Len(network[e])
        BY <4>1
      <4>3. network'[e] = s
        BY <3>1
      <4> HIDE DEF s
      <4> QED BY <3>2, <4>1, <4>2, <4>3 DEF Without
    <3> QED BY <1>1, <1>3, <2>1, <2>2, <2>4, <3>1, <3>3
  <2>7. ~ (e = "active" /\ SendSyn) /\ ~ (e = "passive" /\ RecvSynSendSynAck)
    BY <1>2, <2>1 DEF SendSyn, RecvSynSendSynAck
  <2> QED BY <1>4, <2>5, <2>6, <2>7 DEF Opens
<1>5. CASE state[e] \in CanSend /\ ~ Opens(e)
  <2>1. ~ RecvError(e) /\ ~ SendNegativeWindow(e) /\ ~ Kill(e)
    BY NoFault
  <2>2. CASE Uses(e)
    <3>1. isn' = isn /\ left' = left /\ send_wind' = send_wind /\ network' = network
      BY <2>2 DEF Uses, AppCalls, AppReads, MyWrite, MyClose, PassTurn, MyRead, MyReadEof,
         ctxVars
    <3>2. send_wind[e] >= 0 /\ send_wind[e] + left[e] - isn[e] = SWS
          /\ CountUp(network[e], network[d], isn[e], left[e])
      BY <1>5, KnownOf DEF Counted
    <3> QED BY <3>1, <3>2 DEF Counted
  <2>3. CASE WaitForEvent(e) \/ DropFin(e)
    <3>1. isn' = isn /\ left' = left /\ send_wind' = send_wind
      BY <2>3 DEF WaitForEvent, DropFin, ctxVars
    <3>2. network'[e] = network[e] \/ network[e][1].flags # "ACK"
      <4>1. CASE WaitForEvent(e)
        BY <4>1 DEF WaitForEvent
      <4>2. CASE DropFin(e)
        BY <1>1, <4>2, HeadFacts DEF DropFin
      <4> QED BY <2>3, <4>1, <4>2
    <3>3. ~ Cause(e, "DATA")
      BY <2>3 DEF Cause, WaitForEvent, DropFin, SendAppData, Handle
    <3> QED BY <1>5, <3>1, <3>2, <3>3, CountKept
  <2>4. CASE RecvData(e)
    <3>1. HeadIs(e, "DATA") /\ isn'[e] = isn[e] + 1 /\ left'[e] = isn[e] + 1
          /\ send_wind' = send_wind
      BY <1>2, <2>4 DEF RecvData
    <3>2. /\ send_wind[e] = SWS /\ Without(network[e], {"ACK"}) /\ Without(network[d], {"DATA"})
      BY <1>5, <3>1, Settled
    <3>3. ~ Cause(e, "DATA")
      BY <2>4 DEF Cause, RecvData, SendAppData, Handle
    <3>4. Without(network'[d], {"DATA"})
      BY <1>1, <3>2, <3>3, WithoutOut
    <3>5. Without(network'[e], {"ACK"})
      BY <1>1, <3>2, WithoutIn
    <3> QED BY <1>1, <1>3, <3>1, <3>2, <3>4, <3>5
  <2>5. ASSUME NEW junk \in Junk, RecvFirstFin(e, junk)
        PROVE  Counted(e)'
    <3>1. HeadIs(e, "FIN") /\ isn'[e] = isn[e] + 1 /\ left'[e] = left[e] + 1
          /\ send_wind' = send_wind /\ state[e] = "ESTABLISHED"
      BY <1>2, <2>5 DEF RecvFirstFin
    <3>2. /\ isn[e] = left[e] /\ send_wind[e] = SWS
          /\ Without(network[e], {"ACK"}) /\ Without(network[d], {"DATA"})
      BY <1>5, <3>1, Settled
    <3>3. ~ Cause(e, "DATA")
      BY <2>5 DEF Cause, RecvFirstFin, SendAppData, Handle
    <3>4. Without(network'[d], {"DATA"})
      BY <1>1, <3>2, <3>3, WithoutOut
    <3>5. Without(network'[e], {"ACK"})
      BY <1>1, <3>2, WithoutIn
    <3> QED BY <1>1, <1>3, <3>1, <3>2, <3>4, <3>5
  <2>6. CASE RecvAck(e)
    <3> DEFINE c == network[e][1].ack
    <3>1. /\ HeadIs(e, "ACK") /\ network'[e] = Tail(network[e]) /\ network'[d] = network[d]
          /\ left' = left
      BY <1>1, <1>2, <2>6 DEF RecvAck, NetworkRecv
    <3>2. network[e] # <<>> /\ network[e][1].flags = "ACK" /\ Head(network[e]) = network[e][1]
      BY <1>1, <3>1, HeadFacts
    <3>3. state[e] # "LAST_ACK" /\ state[e] # "FIN_WAIT"
      BY <1>5 DEF CanSend
    <3>4. isn'[e] = c /\ send_wind'[e] = send_wind[e] + c - isn[e]
      BY <1>2, <2>6, <3>2, <3>3 DEF RecvAck, Reopened
    <3>5. /\ send_wind[e] >= 0 /\ send_wind[e] + left[e] - isn[e] = SWS
          /\ CountUp(network[e], network[d], isn[e], left[e])
      BY <1>5, KnownOf DEF Counted
    <3>6. CountUp(Tail(network[e]), network[d], c, left[e]) /\ isn[e] <= c /\ c \in Int
      BY <1>1, <3>2, <3>5, CountAck
    <3> HIDE DEF c
    <3>7. send_wind'[e] >= 0 /\ send_wind'[e] + left'[e] - isn'[e] = SWS
      BY <1>1, <3>1, <3>4, <3>5, <3>6
    <3> QED BY <3>1, <3>4, <3>6, <3>7 DEF Counted
  <2>7. ASSUME NEW m \in app_recv_queue[e], SendAppData(e, m)
        PROVE  Counted(e)'
    <3>0. /\ send_wind[e] >= 0 /\ send_wind[e] + left[e] - isn[e] = SWS
          /\ CountUp(network[e], network[d], isn[e], left[e])
      BY <1>5, KnownOf DEF Counted
    <3>1. CASE MIN(MIN(send_wind[e], MSS), m - taken[e]) = 0
      <4>1. isn' = isn /\ left' = left /\ send_wind' = send_wind /\ network' = network
        BY <2>7, <3>1 DEF SendAppData
      <4> QED BY <3>0, <4>1 DEF Counted
    <3>2. CASE MIN(MIN(send_wind[e], MSS), m - taken[e]) # 0
      <4> DEFINE n == MIN(MIN(send_wind[e], MSS), m - taken[e])
                 p == Pkt(e, "DATA", left[e], 0, n)
      <4>1. /\ network' = NetworkSend(e, p) /\ left'[e] = left[e] + n /\ isn' = isn
            /\ send_wind'[e] = send_wind[e] - n
        BY <1>2, <2>7, <3>2 DEF SendAppData
      <4>2. n \in Nat /\ n <= send_wind[e]
        BY <1>1, <3>0, SegmentFacts
      <4>3. p \in Packet /\ p.flags = "DATA" /\ p.seq = left[e] /\ p.len = n
        BY <1>1, <4>2, TypePkt DEF TypeOK, Flags, Pkt
      <4>4. network'[d] = Append(network[d], p) /\ network'[e] = network[e]
        BY <1>1, <1>2, <4>1 DEF NetworkSend
      <4> HIDE DEF n, p
      <4>5. CountUp(network[e], Append(network[d], p), isn[e], left[e] + p.len)
        BY <1>1, <3>0, <4>3, CountSent
      <4>6. send_wind'[e] >= 0 /\ send_wind'[e] + left'[e] - isn'[e] = SWS
        BY <1>1, <3>0, <4>1, <4>2
      <4> QED BY <4>1, <4>3, <4>4, <4>5, <4>6 DEF Counted
    <3> QED BY <3>1, <3>2
  <2>8. /\ ~ SendFin(e) /\ ~ TransportExit(e) /\ ~ MyCloseReturns(e)
        /\ ~ \E junk \in Junk : RecvLastFin(e, junk)
    BY <1>2, <1>5 DEF SendFin, TransportExit, MyCloseReturns, RecvLastFin, CanSend
  <2> QED BY <1>5, <2>1, <2>2, <2>3, <2>4, <2>5, <2>6, <2>7, <2>8
          DEF Step, Stops, ControlLoop
<1> QED BY <1>1, <1>4, <1>5, StepState

(* The peer of the end that takes the step keeps its count: data that is     *)
(* received gives way to its acknowledgement.                                *)
LEMMA CountedPeer ==
    ASSUME Known, Killable = {}, NEW e \in Ends, Step(e)
    PROVE  Counted(Peer(e))'
<1> DEFINE d == Peer(e)
<1>1. /\ TypeOK /\ d \in Ends /\ d # e /\ Peer(d) = e /\ network[e] \in Seq(Packet)
      /\ network[d] \in Seq(Packet) /\ isn[d] \in Int /\ left[d] \in Int
      /\ isn[e] \in Int /\ DOMAIN network = Ends
  BY PeerFacts, EndTypes DEF Known, TypeOK, NetworkTypeOK
<1>2. /\ state'[d] = state[d] /\ send_wind'[d] = send_wind[d] /\ isn'[d] = isn[d]
      /\ left'[d] = left[d]
  BY <1>1, StepLocal DEF Untouched
<1> SUFFICES ASSUME state[d] \in CanSend
             PROVE  Counted(d)'
  BY <1>2 DEF Counted
<1>3. /\ send_wind[d] >= 0 /\ send_wind[d] + left[d] - isn[d] = SWS
      /\ CountUp(network[d], network[e], isn[d], left[d])
  BY <1>1, KnownOf DEF Counted
<1>4. ASSUME CountUp(network'[d], network'[e], isn[d], left[d])
      PROVE  Counted(d)'
  BY <1>1, <1>2, <1>3, <1>4 DEF Counted
<1>5. CASE RecvData(e)
  <2> DEFINE c == Head(network[e]).seq + Head(network[e]).len
             p == Pkt(e, "ACK", isn[e], c, 0)
  <2>1. HeadIs(e, "DATA") /\ network' = NetworkRecvSend(e, p)
    BY <1>5 DEF RecvData
  <2>2. network'[e] = Tail(network[e]) /\ network'[d] = Append(network[d], p)
    BY <1>1, <2>1 DEF NetworkRecvSend
  <2>3. /\ network[e] # <<>> /\ network[e][1].flags = "DATA" /\ network[e][1] \in Packet
        /\ Head(network[e]) = network[e][1]
    BY <1>1, <2>1, HeadFacts
  <2>4. c \in Int /\ c = network[e][1].seq + network[e][1].len
    BY <2>3 DEF Packet
  <2>5. p \in Packet /\ p.flags = "ACK" /\ p.ack = c
    BY <1>1, <2>4, TypePkt DEF TypeOK, Flags, Pkt
  <2> HIDE DEF c, p
  <2>6. CountUp(Append(network[d], p), Tail(network[e]), isn[d], left[d])
    BY <1>1, <1>3, <2>3, <2>4, <2>5, CountData
  <2> QED BY <1>4, <2>2, <2>6
<1>6. CASE ~ RecvData(e)
  <2>1. ASSUME Opens(e) PROVE e = "passive" /\ RecvHandshakeAck
    <3>1. CASE e = "active"
      <4>1. state["active"] \in {"CLOSED", "SYN_SENT"} /\ d = "passive"
        BY <2>1, <3>1 DEF Opens, SendSyn, RecvSynAckSendAck, Peer
      <4> QED BY <4>1 DEF Known, WindowInv, HandshakeAcks, AcksOfActive
    <3>2. CASE e = "passive" /\ RecvSynSendSynAck
      <4>1. state["passive"] = "CLOSED" /\ d = "active"
        BY <3>2 DEF RecvSynSendSynAck, Peer
      <4> QED BY <4>1 DEF Known, StreamInv, Opening, BeforeSyn, CanSend
    <3> QED BY <2>1, <3>1, <3>2 DEF Opens
  <2>2. network'[e] = network[e] \/ network[e][1].flags # "DATA"
    <3>1. CASE Opens(e)
      <4>1. e = "passive" /\ RecvHandshakeAck
        BY <2>1, <3>1
      <4>2. state["passive"] = "SYN_RCVD" /\ network["passive"] # <<>>
        BY <4>1 DEF RecvHandshakeAck
      <4> QED BY <4>1, <4>2 DEF Known, StreamInv, Opening, BeforeAck, NoDataFirst
    <3>2. CASE ~ Opens(e)
      BY <1>1, <1>6, <3>2, Popped, NoFault DEF Takes
    <3> QED BY <3>1, <3>2
  <2>3. ~ Cause(e, "ACK")
    <3> SUFFICES ASSUME Cause(e, "ACK") PROVE FALSE
      OBVIOUS
    <3>1. CASE \E junk \in Junk : RecvFirstFin(e, junk) \/ RecvLastFin(e, junk)
      <4>1. ~ Without(network[e], {"FIN"})
        BY <1>1, <3>1, HeadFacts DEF RecvFirstFin, RecvLastFin
      <4> QED BY <1>1, <4>1, KnownOf DEF FinsLast
    <3>2. CASE e = "active" /\ RecvSynAckSendAck
      <4>1. Opens(e)
        BY <3>2 DEF Opens
      <4> QED BY <2>1, <3>2, <4>1
    <3> QED BY <1>6, <3>1, <3>2 DEF Cause
  <2>4. CountUp(network[d], network'[e], isn[d], left[d]) /\ network'[e] \in Seq(Packet)
    <3>1. CASE network'[e] = network[e]
      BY <1>1, <1>3, <3>1
    <3>2. CASE network'[e] # network[e]
      <4>1. network[e] # <<>> /\ network'[e] = Tail(network[e])
        BY <1>1, <3>2, StepNetwork
      <4> QED BY <1>1, <1>3, <2>2, <3>2, <4>1, CountOther, TailFacts
    <3> QED BY <3>1, <3>2
  <2>5. CountUp(network'[d], network'[e], isn[d], left[d])
    <3>1. CASE network'[d] = network[d]
      BY <2>4, <3>1
    <3>2. ASSUME NEW p \in Packet, Sent(e, p)
          PROVE  CountUp(network'[d], network'[e], isn[d], left[d])
      <4>1. network'[d] = Append(network[d], p) /\ p.flags # "ACK"
        BY <2>3, <3>2 DEF Sent
      <4> QED BY <1>1, <2>4, <4>1, CountOther
    <3> QED BY <1>1, <3>1, <3>2, StepNetwork
  <2> QED BY <1>4, <2>5
<1> QED BY <1>5, <1>6

(* One step keeps the invariant of exchanges in turns. *)
LEMMA ExchangeStep ==
    ASSUME RequestResponse, Killable = {}
    PROVE  Known /\ [Next]_vars => ExchangeInv'
<1> SUFFICES ASSUME Known, [Next]_vars
             PROVE  ExchangeInv'
  OBVIOUS
<1>1. ASSUME NEW e \in Ends, Step(e)
      PROVE  ExchangeInv'
  <2> DEFINE d == Peer(e)
  <2>1. TypeOK /\ d \in Ends /\ \A c \in Ends : c = e \/ c = d
    BY PeerFacts, OtherEnd DEF Known
  <2>2. Reported(e)' /\ Reported(d)'
    <3>1. Reported(d)'
      <4>1. Reported(d) /\ Untouched(d)
        BY <1>1, <2>1, KnownOf, StepLocal
      <4> QED BY <4>1 DEF Reported, Untouched
    <3> QED BY <1>1, <3>1, ReportedStep
  <2>3. InOrder(e)' /\ InOrder(d)'
    BY <1>1, InOrderStep
  <2>4. Roles(e)' /\ Roles(d)' /\ Listens(e)' /\ Listens(d)'
    <3>1. CASE turn' = turn
      BY <1>1, <3>1, RolesStep, ListensStep
    <3>2. CASE PassTurn(e)
      BY <2>1, <3>2, TurnPasses
    <3> QED BY <1>1, <2>1, <3>1, <3>2, StepTurn
  <2>5. Answered(e)' /\ Answered(d)'
    BY <1>1, AnsweredOwn, AnsweredPeer
  <2>6. AcksFirst(e)' /\ AcksFirst(d)'
    BY <1>1, AcksFirstStep
  <2>7. Counted(e)' /\ Counted(d)'
    BY <1>1, CountedOwn, CountedPeer
  <2> HIDE DEF d
  <2> QED BY <2>1, <2>2, <2>3, <2>4, <2>5, <2>6, <2>7 DEF ExchangeInv
<1>2. CASE UNCHANGED vars
  BY <1>2 DEF Known, ExchangeInv, Reported, InOrder, Roles, Listens, HasClosed, Answered,
     Comes, FinBehindAck, AcksFirst, Counted, Without, vars, ctxVars, writeVars, readVars,
     appVars
<1> QED BY <1>1, <1>2, NextIsStep DEF Known

(* The invariant holds before the handshake. *)
LEMMA ExchangeInit == Init => ExchangeInv
<1> SUFFICES ASSUME Init, NEW e \in Ends
             PROVE  /\ Reported(e) /\ InOrder(e) /\ Roles(e) /\ Listens(e) /\ Answered(e)
                    /\ AcksFirst(e) /\ Counted(e)
  BY DEF ExchangeInv
<1>1. Peer(e) \in Ends
  BY PeerFacts
<1>2. /\ state[e] = "CLOSED" /\ state[Peer(e)] = "CLOSED" /\ event[e] = {}
      /\ network[e] = <<>> /\ network[Peer(e)] = <<>> /\ ~ eof[e] /\ ~ eof_queued[e]
      /\ app[e] = "blocked" /\ taken[e] = written[e]
  BY <1>1 DEF Init
<1>3. Len(network[e]) = 0 /\ Len(network[Peer(e)]) = 0
  BY <1>2
<1>4. Without(network[e], {"ERROR"}) /\ Without(network[Peer(e)], {"DATA"})
  BY <1>3 DEF Without
<1>5. Reported(e) /\ Roles(e) /\ Counted(e)
  BY <1>2 DEF Reported, Roles, Counted, ClosesFirst, ClosesSecond, Early, FinSent,
     FinReceived, CanSend
<1>6. InOrder(e) /\ AcksFirst(e)
  BY <1>3 DEF InOrder, AcksFirst
<1>7. Listens(e) /\ Answered(e)
  BY <1>2, <1>4 DEF Listens, HasClosed, Answered
<1> QED BY <1>5, <1>6, <1>7

(* When the applications take turns and no process is killed, nothing is     *)
(* left of an exchange: once all data of an established end is received and  *)
(* acknowledged its window is whole again, and neither the ERROR buffer of a *)
(* closed connection nor a negative window stops a process, whatever th_ack  *)
(* an acknowledged FIN carries.                                              *)
THEOREM ExchangeSafety ==
    ASSUME RequestResponse, Killable = {}
    PROVE  Spec => []ExchangesClean
<1>1. Known => ExchangesClean
  <2> SUFFICES ASSUME Known PROVE WindowRestored /\ NoCrash
    BY DEF Known, ExchangesClean
  <2>1. NoCrash
    BY Places DEF NoCrash, Early, CanSend, FinSent
  <2>2. WindowRestored
    <3> SUFFICES ASSUME NEW e \in Ends, state[e] = "ESTABLISHED",
                        \A i \in DOMAIN network[Peer(e)] : network[Peer(e)][i].flags # "DATA",
                        \A i \in DOMAIN network[e] : network[e][i].flags # "ACK"
                 PROVE  send_wind[e] = SWS
      BY DEF WindowRestored
    <3>1. /\ Peer(e) \in Ends /\ network[e] \in Seq(Packet) /\ network[Peer(e)] \in Seq(Packet)
          /\ isn[e] \in Int /\ left[e] \in Int /\ send_wind[e] \in Int
      BY PeerFacts, EndTypes DEF Known
    <3>2. Without(network[e], {"ACK"}) /\ Without(network[Peer(e)], {"DATA"})
      BY <3>1 DEF Without
    <3>3. /\ send_wind[e] + left[e] - isn[e] = SWS
          /\ CountUp(network[e], network[Peer(e)], isn[e], left[e])
      BY KnownOf DEF Counted, CanSend
    <3>4. isn[e] = left[e]
      BY <3>1, <3>2, <3>3, CountNone
    <3> QED BY <3>1, <3>3, <3>4
  <2> QED BY <2>1, <2>2
<1>2. Known /\ [Next]_vars => ExchangeInv'
  BY ExchangeStep
<1> QED BY TypeInit, TypeStep, StreamInit, StreamStep, CloseInit, CloseStep, WindowInit,
           WindowStep, ExchangeInit, <1>1, <1>2, PTL DEF Spec, Known

=============================================================================
