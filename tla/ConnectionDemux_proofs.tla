---------------------- MODULE ConnectionDemux_proofs ----------------------
(* The listen queue of a mysocket, for any number of connection attempts,     *)
(* any backlog and any number of mysockets: QueueConsistent, although the     *)
(* receive thread, the transports and the accepting thread share its slots,   *)
(* its list of completed connections and its counter.                         *)
EXTENDS ConnectionDemux, FiniteSetTheorems, TLAPS

(* A connection without a transport is in no slot and was never accepted.    *)
Unborn ==
    \A c \in Conns : transport[c] = "none" =>
        /\ \A k \in Slots : connection_queue[k] # c
        /\ taking # c /\ accepted[c] = 0

(* What the kernel holds, and the socket the receive thread holds, belongs   *)
(* to connections that have no transport, each in one place.                 *)
Waiting(c) == \E i \in 1 .. Len(tcp_backlog) : tcp_backlog[i] = c

Fresh ==
    /\ \A c \in Conns :
          client[c] = "idle" => transport[c] = "none" /\ ~ Waiting(c) /\ new_socket # c
    /\ \A i \in 1 .. Len(tcp_backlog) :
          transport[tcp_backlog[i]] = "none" /\ new_socket # tcp_backlog[i]
    /\ \A i, j \in 1 .. Len(tcp_backlog) : tcp_backlog[i] = tcp_backlog[j] => i = j
    /\ new_socket # NoConn => transport[new_socket] = "none"

(* While a packet is handled its socket is the one in hand, and the slot     *)
(* that was found stays free.                                                *)
InHand ==
    /\ recv \notin {"poll", "exited"} => new_socket = current /\ current \in Conns
    /\ recv \in {"count", "launch"} => connection_queue[slot] = NoConn

(* Who has a connection that has a transport. *)
Placed ==
    /\ \A k \in Slots : connection_queue[k] # NoConn =>
          accepted[connection_queue[k]] = 0 /\ taking # connection_queue[k]
    /\ \A k, j \in Slots :
          connection_queue[k] = connection_queue[j] /\ connection_queue[k] # NoConn => k = j
    /\ \A c \in Conns : accepted[c] <= 1
    /\ app = "counting" => taking # NoConn /\ accepted[taking] = 0

Completed ==
    /\ \A i \in 1 .. Len(completed_queue) :
          LET c == connection_queue[completed_queue[i]] IN
          c # NoConn /\ transport[c] \in {"running", "finished"}
    /\ \A i, j \in 1 .. Len(completed_queue) :
          completed_queue[i] = completed_queue[j] => i = j

(* The counter is exact while myaccept has not been involved; in the middle  *)
(* of an enqueue it is ahead by one.                                         *)
Used == {k \in Slots : connection_queue[k] # NoConn}

Unaccepted == (\A c \in Conns : accepted[c] = 0) /\ app # "counting" /\ aborted = 0

CountOf ==
    /\ recv \notin {"launch", "uncount"} => cur_len = Cardinality(Used)
    /\ recv = "count" => recv_load = cur_len
    /\ recv = "launch" => cur_len = Cardinality(Used) + 1
    /\ recv = "uncount" => cur_len = Cardinality(Used) + 1 /\ recv_load = cur_len

Counted == Unaccepted => CountOf

DemuxInv == TypeOK /\ Unborn /\ Fresh /\ InHand /\ Placed /\ Completed /\ Counted

-----------------------------------------------------------------------------
(* Sequences, and the number of slots in use. *)

(* A queue without its first element. *)
LEMMA TailOf ==
    ASSUME NEW S, NEW q \in Seq(S), q # <<>>
    PROVE  /\ Tail(q) \in Seq(S) /\ Head(q) \in S /\ Head(q) = q[1]
           /\ Len(q) \in Nat \ {0} /\ Len(Tail(q)) = Len(q) - 1
           /\ \A i \in 1 .. Len(Tail(q)) : i + 1 \in 1 .. Len(q) /\ Tail(q)[i] = q[i + 1]
<1>1. Tail(q) \in Seq(S) /\ Len(q) \in Nat \ {0} /\ Len(Tail(q)) = Len(q) - 1
  OBVIOUS
<1>2. Head(q) \in S /\ Head(q) = q[1]
  OBVIOUS
<1>3. \A i \in 1 .. Len(Tail(q)) : i + 1 \in 1 .. Len(q) /\ Tail(q)[i] = q[i + 1]
  OBVIOUS
<1> QED BY <1>1, <1>2, <1>3

(* A queue with one more element. *)
LEMMA AppendOf ==
    ASSUME NEW S, NEW q \in Seq(S), NEW x \in S
    PROVE  /\ Append(q, x) \in Seq(S)
           /\ Len(q) \in Nat /\ Len(Append(q, x)) = Len(q) + 1
           /\ Append(q, x)[Len(q) + 1] = x
           /\ \A i \in 1 .. Len(q) : Append(q, x)[i] = q[i]
           /\ \A i \in 1 .. Len(Append(q, x)) : i \in 1 .. Len(q) \/ i = Len(q) + 1
OBVIOUS

(* The slots in use are finitely many, and no more than an unsigned int can  *)
(* count.                                                                    *)
LEMMA UsedFacts ==
    IsFiniteSet(Used) /\ Cardinality(Used) \in Nat /\ Cardinality(Used) <= MaxLen
<1>1. IsFiniteSet(Slots) /\ Cardinality(Slots) = MaxLen
  BY FS_Interval, DemuxAssumption DEF Slots
<1>2. Used \in SUBSET Slots
  BY DEF Used
<1>3. IsFiniteSet(Used) /\ Cardinality(Used) <= Cardinality(Slots)
  BY <1>1, <1>2, FS_Subset
<1> QED BY <1>1, <1>3, FS_CardinalityType

-----------------------------------------------------------------------------
(* Types. *)

(* The initial values are of their types. *)
LEMMA TypeInit == Init => TypeOK
<1> SUFFICES ASSUME Init PROVE TypeOK
  OBVIOUS
<1>1. 1 \in Slots /\ 0 \in 0 .. UIntMax
  BY DemuxAssumption DEF Slots
<1>2. <<>> \in Seq(Conns) /\ <<>> \in Seq(Slots)
  OBVIOUS
<1> QED BY <1>1, <1>2 DEF Init, TypeOK, RecvTypeOK, QueueTypeOK, AppTypeOK

(* Every step keeps the types; where it indexes a slot, the slot exists. *)
LEMMA TypeStep == TypeOK /\ InHand /\ Placed /\ [Next]_vars => TypeOK'
<1> SUFFICES ASSUME TypeOK, InHand, Placed, [Next]_vars PROVE TypeOK'
  OBVIOUS
<1> USE DEF TypeOK
<1>1. \A n \in 0 .. UIntMax : Inc(n) \in 0 .. UIntMax /\ Dec(n) \in 0 .. UIntMax
  BY DemuxAssumption DEF Inc, Dec
<1>2. ASSUME NEW c \in Conns, ClientConnect(c) PROVE TypeOK'
  <2>1. Append(tcp_backlog, c) \in Seq(Conns)
    BY AppendOf DEF RecvTypeOK
  <2> QED BY <1>2, <2>1 DEF ClientConnect, RecvTypeOK, QueueTypeOK, AppTypeOK, queueVars, appVars
<1>3. ASSUME NEW c \in Conns, ClientSendSyn(c) \/ ClientVanish(c) PROVE TypeOK'
  <2>1. client' \in [Conns -> {"idle", "connected", "syn_sent", "gone", "gone_silent"}]
    BY <1>3 DEF ClientSendSyn, ClientVanish
  <2>2. UNCHANGED <<recvVars, queueVars, appVars, transport, aborted>>
    BY <1>3 DEF ClientSendSyn, ClientVanish
  <2> QED BY <2>1, <2>2 DEF RecvTypeOK, QueueTypeOK, AppTypeOK, recvVars, queueVars, appVars
<1>4. CASE AcceptTcp
  <2>1. Tail(tcp_backlog) \in Seq(Conns) /\ Head(tcp_backlog) \in Conns
    BY <1>4, TailOf DEF AcceptTcp, RecvTypeOK
  <2> QED BY <1>4, <2>1 DEF AcceptTcp, RecvTypeOK, QueueTypeOK, AppTypeOK, queueVars, appVars
<1>5. CASE ReadSyn \/ EnqueueCheck \/ RecvExit \/ EnqueueNoSocket
  BY <1>5 DEF ReadSyn, EnqueueCheck, RecvExit, EnqueueNoSocket, RecvTypeOK, QueueTypeOK,
     AppTypeOK, queueVars, appVars
<1>6. CASE EnqueueFind
  BY <1>6 DEF EnqueueFind, FreeSlots, RecvTypeOK, QueueTypeOK, AppTypeOK, queueVars, appVars
<1>7. CASE EnqueueCount \/ EnqueueUncount
  <2>1. cur_len' \in 0 .. UIntMax /\ recv' \in {"launch", "poll"}
    <3>1. recv_load \in 0 .. UIntMax
      BY DEF RecvTypeOK
    <3> HIDE DEF TypeOK
    <3>2. CASE EnqueueCount
      BY <1>1, <3>1, <3>2 DEF EnqueueCount
    <3>3. CASE EnqueueUncount
      BY <1>1, <3>1, <3>3 DEF EnqueueUncount
    <3> QED BY <1>7, <3>2, <3>3
  <2>2. UNCHANGED <<client, tcp_backlog, current, new_socket, slot, recv_load,
                    connection_queue, completed_queue, appVars, transport, aborted>>
    BY <1>7 DEF EnqueueCount, EnqueueUncount
  <2> QED BY <2>1, <2>2 DEF RecvTypeOK, QueueTypeOK, AppTypeOK, appVars
<1>8. CASE EnqueueLaunch
  <2>1. current \in Conns
    BY <1>8 DEF EnqueueLaunch, InHand
  <2> QED BY <1>8, <2>1 DEF EnqueueLaunch, TransferSocket, RecvTypeOK, QueueTypeOK, AppTypeOK,
       appVars
<1>9. ASSUME NEW c \in Conns, ConnectionComplete(c) PROVE TypeOK'
  <2>1. completed_queue' \in Seq(Slots)
    BY <1>9, AppendOf DEF ConnectionComplete, SlotOf, AtTail, QueueTypeOK
  <2> QED BY <1>9, <2>1 DEF ConnectionComplete, RecvTypeOK, QueueTypeOK, AppTypeOK, recvVars,
       appVars
<1>10. ASSUME NEW c \in Conns, ConnectionEnds(c) PROVE TypeOK'
  BY <1>10 DEF ConnectionEnds, RecvTypeOK, QueueTypeOK, AppTypeOK, recvVars, queueVars, appVars
<1>11. CASE AcceptCall \/ ServeEnds \/ CloseCall \/ CloseLock
  BY <1>11 DEF AcceptCall, ServeEnds, CloseCall, CloseLock, RecvTypeOK, QueueTypeOK, AppTypeOK, recvVars,
     queueVars
<1>12. CASE AcceptPop
  <2>1. Tail(completed_queue) \in Seq(Slots) /\ Head(completed_queue) \in Slots
    BY <1>12, TailOf DEF AcceptPop, QueueTypeOK
  <2> QED BY <1>12, <2>1 DEF AcceptPop, Invalidate, RecvTypeOK, QueueTypeOK, AppTypeOK, recvVars
<1>13. CASE AcceptReturn
  <2>1. taking \in Conns /\ accepted[taking] + 1 \in Nat
    BY <1>13 DEF AcceptReturn, Placed, AppTypeOK
  <2> QED BY <1>1, <1>13, <2>1 DEF AcceptReturn, RecvTypeOK, QueueTypeOK, AppTypeOK, recvVars
<1>14. CASE CloseNext
  <2>1. ~ LastSlot(closing) => closing + 1 \in Slots
    BY DemuxAssumption DEF LastSlot, Slots, AppTypeOK
  <2>2. <<>> \in Seq(Slots)
    OBVIOUS
  <2>3. closing' \in Slots /\ app' \in {app, "closed"} /\ completed_queue' \in Seq(Slots)
    <3>1. closing \in Slots /\ completed_queue \in Seq(Slots)
      BY DEF AppTypeOK, QueueTypeOK
    <3> HIDE DEF TypeOK
    <3> QED BY <1>14, <2>1, <2>2, <3>1 DEF CloseNext
  <2>4. UNCHANGED <<client, recvVars, connection_queue, cur_len, app_load, taking,
                    accepted, transport, aborted>>
    BY <1>14 DEF CloseNext
  <2> QED BY <2>3, <2>4 DEF RecvTypeOK, QueueTypeOK, AppTypeOK, recvVars
<1>15. CASE UNCHANGED vars
  BY <1>15 DEF RecvTypeOK, QueueTypeOK, AppTypeOK, vars, recvVars, queueVars, appVars
<1> QED BY <1>2, <1>3, <1>4, <1>5, <1>6, <1>7, <1>8, <1>9, <1>10, <1>11, <1>12, <1>13,
           <1>14, <1>15 DEF Next, RecvThread, AppThread, Transport

-----------------------------------------------------------------------------
(* Whose connection it is. *)

(* The receive thread keeps the socket it handles, and its slot stays free. *)
LEMMA InHandStep == DemuxInv /\ [Next]_vars => InHand'
<1> SUFFICES ASSUME DemuxInv, [Next]_vars PROVE InHand'
  OBVIOUS
<1>1. TypeOK /\ InHand
  BY DEF DemuxInv
<1>2. DOMAIN connection_queue = Slots /\ slot \in Slots
  BY <1>1 DEF TypeOK, QueueTypeOK, RecvTypeOK
<1>3. ASSUME UNCHANGED <<recv, current, new_socket, slot>>,
             connection_queue[slot] = NoConn => connection_queue'[slot] = NoConn
      PROVE  InHand'
  BY <1>1, <1>3 DEF InHand
<1>4. ASSUME NEW c \in Conns, Transport(c) \/ ClientConnect(c) \/ ClientSendSyn(c) \/ ClientVanish(c)
      PROVE  InHand'
  BY <1>3, <1>4 DEF Transport, ConnectionComplete, ConnectionEnds, ClientConnect, ClientSendSyn,
     ClientVanish, recvVars, queueVars
<1>5. CASE \/ AcceptCall \/ ServeEnds \/ CloseCall \/ CloseLock \/ CloseNext \/ AcceptReturn
           \/ UNCHANGED vars
  BY <1>3, <1>5 DEF AcceptCall, ServeEnds, CloseCall, CloseLock, CloseNext, AcceptReturn, vars, recvVars,
     queueVars
<1>6. CASE AcceptPop
  BY <1>2, <1>3, <1>6 DEF AcceptPop, Invalidate, recvVars
<1>7. CASE AcceptTcp
  <2>1. Head(tcp_backlog) \in Conns
    BY <1>1, <1>7, TailOf DEF AcceptTcp, TypeOK, RecvTypeOK
  <2> QED BY <1>1, <1>7, <2>1 DEF AcceptTcp, InHand, queueVars
<1>8. CASE ReadSyn \/ EnqueueCheck \/ RecvExit \/ EnqueueNoSocket \/ EnqueueUncount
  BY <1>1, <1>8 DEF ReadSyn, EnqueueCheck, RecvExit, EnqueueNoSocket, EnqueueUncount, InHand,
     queueVars
<1>9. CASE EnqueueFind
  BY <1>1, <1>9 DEF EnqueueFind, FreeSlots, InHand, queueVars
<1>10. CASE EnqueueCount
  BY <1>1, <1>10 DEF EnqueueCount, InHand
<1>11. CASE EnqueueLaunch
  BY <1>11 DEF EnqueueLaunch, InHand
<1> QED BY <1>4, <1>5, <1>6, <1>7, <1>8, <1>9, <1>10, <1>11 DEF Next, RecvThread, AppThread

(* What the kernel or the receive thread holds has no transport yet. *)
LEMMA FreshStep == DemuxInv /\ [Next]_vars => Fresh'
<1> SUFFICES ASSUME DemuxInv, [Next]_vars PROVE Fresh'
  OBVIOUS
<1>1. TypeOK /\ InHand /\ Fresh
  BY DEF DemuxInv
<1>2. /\ DOMAIN transport = Conns /\ DOMAIN client = Conns /\ tcp_backlog \in Seq(Conns)
      /\ new_socket \in Conns \cup {NoConn} /\ NoConn \notin Conns
  BY <1>1, DemuxAssumption DEF TypeOK, RecvTypeOK
(* A step that neither accepts, launches nor connects. *)
<1>3. ASSUME UNCHANGED <<tcp_backlog, new_socket>>,
             \A c \in Conns : client'[c] = "idle" => client[c] = "idle",
             \A c \in Conns : transport[c] = "none" => transport'[c] = "none"
      PROVE  Fresh'
  <2>1. \A i \in 1 .. Len(tcp_backlog) : tcp_backlog[i] \in Conns
    BY <1>2
  <2> QED BY <1>1, <1>2, <1>3, <2>1 DEF Fresh, Waiting
<1>4. ASSUME NEW c \in Conns, Transport(c) \/ ClientSendSyn(c) \/ ClientVanish(c)
      PROVE  Fresh'
  BY <1>2, <1>3, <1>4 DEF Transport, ConnectionComplete, ConnectionEnds, ClientSendSyn,
     ClientVanish, recvVars
<1>5. CASE AppThread \/ CloseCall \/ UNCHANGED vars
  BY <1>3, <1>5 DEF AppThread, AcceptCall, AcceptPop, AcceptReturn, ServeEnds, CloseCall,
     CloseLock, CloseNext, vars, recvVars
<1>6. CASE ReadSyn \/ EnqueueCheck \/ EnqueueFind \/ EnqueueCount \/ EnqueueNoSocket
           \/ EnqueueUncount \/ RecvExit
  BY <1>3, <1>6 DEF ReadSyn, EnqueueCheck, EnqueueFind, EnqueueCount, EnqueueNoSocket,
     EnqueueUncount, RecvExit
<1>7. ASSUME NEW c \in Conns, ClientConnect(c)
      PROVE  Fresh'
  <2> DEFINE q == tcp_backlog
             s == Append(q, c)
  <2>1. /\ client[c] = "idle" /\ client' = [client EXCEPT ![c] = "connected"]
        /\ tcp_backlog' = s /\ transport' = transport /\ new_socket' = new_socket
    BY <1>7 DEF ClientConnect
  <2>2. transport[c] = "none" /\ new_socket # c /\ \A i \in 1 .. Len(q) : q[i] # c
    BY <1>1, <2>1 DEF Fresh, Waiting
  <2>3. /\ Len(q) \in Nat /\ Len(s) = Len(q) + 1 /\ s[Len(q) + 1] = c
        /\ \A i \in 1 .. Len(q) : s[i] = q[i]
        /\ \A i \in 1 .. Len(s) : i \in 1 .. Len(q) \/ i = Len(q) + 1
    BY <1>2, AppendOf
  <2> HIDE DEF s
  <2>4. ASSUME NEW d \in Conns, client'[d] = "idle"
        PROVE  transport[d] = "none" /\ new_socket # d /\ \A i \in 1 .. Len(s) : s[i] # d
    <3>1. d # c /\ client[d] = "idle"
      BY <1>2, <2>1, <2>4
    <3>2. transport[d] = "none" /\ new_socket # d /\ \A i \in 1 .. Len(q) : q[i] # d
      BY <1>1, <3>1 DEF Fresh, Waiting
    <3> QED BY <2>3, <3>1, <3>2
  <2>5. \A i \in 1 .. Len(s) : transport[s[i]] = "none" /\ new_socket # s[i]
    BY <1>1, <2>2, <2>3 DEF Fresh
  <2>6. \A i, j \in 1 .. Len(s) : s[i] = s[j] => i = j
    BY <1>1, <2>2, <2>3 DEF Fresh
  <2> QED BY <1>1, <2>1, <2>4, <2>5, <2>6 DEF Fresh, Waiting
<1>8. CASE AcceptTcp
  <2> DEFINE q == tcp_backlog
             s == Tail(q)
  <2>1. /\ q # <<>> /\ tcp_backlog' = s /\ transport' = transport /\ client' = client
        /\ new_socket' \in {new_socket, Head(q)}
    BY <1>8 DEF AcceptTcp
  <2>2. /\ Head(q) = q[1] /\ Len(q) \in Nat \ {0} /\ Len(s) = Len(q) - 1
        /\ \A i \in 1 .. Len(s) : i + 1 \in 1 .. Len(q) /\ s[i] = q[i + 1]
    BY <1>2, <2>1, TailOf
  <2>3. 1 \in 1 .. Len(q) /\ \A i \in 1 .. Len(s) : i + 1 # 1
    BY <2>2
  <2> HIDE DEF s
  <2>4. ASSUME NEW i \in 1 .. Len(s)
        PROVE  transport[s[i]] = "none" /\ new_socket # s[i] /\ s[i] # q[1]
    BY <1>1, <2>2, <2>3 DEF Fresh
  <2>5. \A i, j \in 1 .. Len(s) : s[i] = s[j] => i = j
    <3> SUFFICES ASSUME NEW i \in 1 .. Len(s), NEW j \in 1 .. Len(s), s[i] = s[j]
                 PROVE  i = j
      OBVIOUS
    <3>1. i + 1 = j + 1
      BY <1>1, <2>2 DEF Fresh
    <3> QED BY <3>1
  <2>6. ASSUME NEW d \in Conns, client[d] = "idle"
        PROVE  /\ transport[d] = "none" /\ new_socket # d /\ q[1] # d
               /\ \A i \in 1 .. Len(s) : s[i] # d
    BY <1>1, <2>2, <2>3, <2>6 DEF Fresh, Waiting
  <2>7. transport[q[1]] = "none"
    BY <1>1, <2>3 DEF Fresh
  <2> QED BY <1>1, <2>1, <2>2, <2>4, <2>5, <2>6, <2>7 DEF Fresh, Waiting
<1>9. CASE EnqueueLaunch
  <2>1. /\ new_socket' = NoConn /\ transport' = [transport EXCEPT ![current] = "handshake"]
        /\ tcp_backlog' = tcp_backlog /\ client' = client
        /\ new_socket = current /\ current \in Conns
    BY <1>1, <1>9 DEF EnqueueLaunch, TransferSocket, InHand
  <2>2. ASSUME NEW i \in 1 .. Len(tcp_backlog)
        PROVE  /\ transport'[tcp_backlog[i]] = "none" /\ NoConn # tcp_backlog[i]
    <3>1. tcp_backlog[i] \in Conns /\ tcp_backlog[i] # current
      BY <1>1, <1>2, <2>1 DEF Fresh
    <3> QED BY <1>1, <1>2, <2>1, <3>1 DEF Fresh
  <2>3. ASSUME NEW d \in Conns, client[d] = "idle"
        PROVE  transport'[d] = "none" /\ NoConn # d /\ ~ Waiting(d)
    BY <1>1, <1>2, <2>1, <2>3 DEF Fresh
  <2> QED BY <1>1, <2>1, <2>2, <2>3 DEF Fresh, Waiting
<1> QED BY <1>4, <1>5, <1>6, <1>7, <1>8, <1>9 DEF Next, RecvThread

(* The steps that change neither the slots nor who holds a connection, in    *)
(* terms of what they do to the transports and the accepting thread.         *)
Elsewhere ==
    /\ UNCHANGED <<connection_queue, accepted>>
    /\ taking' = taking \/ (taking' = NoConn /\ app' # "counting")
    /\ \A c \in Conns : transport'[c] = "none" <=> transport[c] = "none"
    /\ \A c \in Conns : transport[c] \in {"running", "finished"} =>
                           transport'[c] \in {"running", "finished"}
    /\ app' = app \/ (app # "counting" /\ app' # "counting" /\ aborted = 0)
    /\ aborted' = aborted \/ aborted' # 0

(* Three steps move a connection; the others leave slots and owners alone. *)
LEMMA StepElsewhere ==
    ASSUME TypeOK, [Next]_vars
    PROVE  EnqueueLaunch \/ AcceptPop \/ AcceptReturn \/ Elsewhere
<1>1. DOMAIN transport = Conns
  BY DEF TypeOK
<1>2. ASSUME NEW c \in Conns, Transport(c) \/ ClientConnect(c) \/ ClientSendSyn(c) \/ ClientVanish(c)
      PROVE  Elsewhere
  BY <1>1, <1>2 DEF Elsewhere, Transport, ConnectionComplete, ConnectionEnds, ClientConnect,
     ClientSendSyn, ClientVanish, queueVars, appVars
<1>3. CASE AcceptTcp \/ ReadSyn \/ EnqueueCheck \/ EnqueueFind \/ EnqueueCount
           \/ EnqueueNoSocket \/ EnqueueUncount \/ RecvExit
  BY <1>3 DEF Elsewhere, AcceptTcp, ReadSyn, EnqueueCheck, EnqueueFind, EnqueueCount,
     EnqueueNoSocket, EnqueueUncount, RecvExit, queueVars, appVars
<1>4. CASE AcceptCall \/ ServeEnds \/ CloseCall \/ CloseLock \/ CloseNext \/ UNCHANGED vars
  BY <1>4 DEF Elsewhere, AcceptCall, ServeEnds, CloseCall, CloseLock, CloseNext, Running, vars, queueVars,
     appVars
<1> QED BY <1>2, <1>3, <1>4 DEF Next, RecvThread, AppThread

(* What the receive thread is about to queue is new. *)
LEMMA LaunchFacts ==
    ASSUME DemuxInv, EnqueueLaunch
    PROVE  /\ current \in Conns /\ transport[current] = "none" /\ slot \in Slots
           /\ connection_queue[slot] = NoConn
           /\ \A k \in Slots : connection_queue[k] # current
           /\ taking # current /\ accepted[current] = 0
<1>1. current \in Conns /\ new_socket = current /\ connection_queue[slot] = NoConn
  BY DEF DemuxInv, InHand, EnqueueLaunch
<1>2. transport[current] = "none"
  BY <1>1, DemuxAssumption DEF DemuxInv, Fresh
<1>3. slot \in Slots
  BY DEF DemuxInv, TypeOK, RecvTypeOK
<1> QED BY <1>1, <1>2, <1>3 DEF DemuxInv, Unborn

(* What myaccept pops is an established connection in its slot. *)
LEMMA PopFacts ==
    ASSUME DemuxInv, AcceptPop
    PROVE  LET k == Head(completed_queue) IN
           /\ k \in Slots /\ connection_queue[k] \in Conns
           /\ transport[connection_queue[k]] # "none"
           /\ k = completed_queue[1] /\ 1 \in 1 .. Len(completed_queue)
<1> DEFINE k == Head(completed_queue)
<1>1. completed_queue # <<>> /\ completed_queue \in Seq(Slots)
  BY DEF DemuxInv, TypeOK, QueueTypeOK, AcceptPop
<1>2. k \in Slots /\ k = completed_queue[1] /\ 1 \in 1 .. Len(completed_queue)
  BY <1>1, TailOf
<1>3. connection_queue[k] # NoConn /\ transport[connection_queue[k]] # "none"
  BY <1>2 DEF DemuxInv, Completed
<1>4. connection_queue[k] \in Conns
  BY <1>2, <1>3 DEF DemuxInv, TypeOK, QueueTypeOK
<1> QED BY <1>2, <1>3, <1>4

(* A connection gets a transport when it gets its slot, not before. *)
LEMMA UnbornStep == DemuxInv /\ [Next]_vars => Unborn'
<1> SUFFICES ASSUME DemuxInv, [Next]_vars PROVE Unborn'
  OBVIOUS
<1>1. TypeOK /\ Unborn /\ Placed
  BY DEF DemuxInv
<1>2. /\ DOMAIN transport = Conns /\ DOMAIN connection_queue = Slots
      /\ DOMAIN accepted = Conns /\ NoConn \notin Conns
  BY <1>1, DemuxAssumption DEF TypeOK, QueueTypeOK, AppTypeOK
<1>3. CASE EnqueueLaunch
  <2>1. /\ connection_queue' = [connection_queue EXCEPT ![slot] = current]
        /\ transport' = [transport EXCEPT ![current] = "handshake"]
        /\ taking' = taking /\ accepted' = accepted
    BY <1>3 DEF EnqueueLaunch, appVars
  <2>2. current \in Conns
    BY <1>3, LaunchFacts
  <2>3. \A c \in Conns : transport'[c] = "none" => c # current /\ transport[c] = "none"
    BY <1>2, <2>1, <2>2
  <2> QED BY <1>1, <1>2, <2>1, <2>3 DEF Unborn
<1>4. CASE AcceptPop
  <2> DEFINE k == Head(completed_queue)
  <2>1. /\ connection_queue' = [connection_queue EXCEPT ![k] = NoConn]
        /\ taking' = connection_queue[k] /\ transport' = transport /\ accepted' = accepted
    BY <1>4 DEF AcceptPop, Invalidate
  <2>2. k \in Slots
    BY <1>4, PopFacts
  <2> HIDE DEF k
  <2> QED BY <1>1, <1>2, <2>1, <2>2 DEF Unborn
<1>5. CASE AcceptReturn
  <2>1. /\ accepted' = [accepted EXCEPT ![taking] = @ + 1] /\ taking' = taking
        /\ connection_queue' = connection_queue /\ transport' = transport
    BY <1>5 DEF AcceptReturn
  <2> QED BY <1>1, <1>2, <2>1 DEF Unborn
<1>6. CASE Elsewhere
  BY <1>1, <1>2, <1>6 DEF Elsewhere, Unborn
<1> QED BY <1>1, <1>3, <1>4, <1>5, <1>6, StepElsewhere

(* A connection stays in one place. *)
LEMMA PlacedStep == DemuxInv /\ [Next]_vars => Placed'
<1> SUFFICES ASSUME DemuxInv, [Next]_vars PROVE Placed'
  OBVIOUS
<1>1. TypeOK /\ Unborn /\ Placed
  BY DEF DemuxInv
<1>2. /\ connection_queue \in [Slots -> Conns \cup {NoConn}]
      /\ accepted \in [Conns -> Nat] /\ NoConn \notin Conns
      /\ taking \in Conns \cup {NoConn}
  BY <1>1, DemuxAssumption DEF TypeOK, QueueTypeOK, AppTypeOK
<1>3. CASE EnqueueLaunch
  <2>1. /\ connection_queue' = [connection_queue EXCEPT ![slot] = current]
        /\ taking' = taking /\ accepted' = accepted /\ app' = app /\ aborted' = aborted
    BY <1>3 DEF EnqueueLaunch, appVars
  <2>2. /\ current \in Conns /\ slot \in Slots /\ taking # current /\ accepted[current] = 0
        /\ \A k \in Slots : connection_queue[k] # current
    BY <1>3, LaunchFacts
  <2>3. \A k \in Slots : connection_queue'[k] = IF k = slot THEN current ELSE connection_queue[k]
    BY <1>2, <2>1
  <2> QED BY <1>1, <2>1, <2>2, <2>3 DEF Placed
<1>4. CASE AcceptPop
  <2> DEFINE k == Head(completed_queue)
             t == connection_queue[k]
  <2>1. /\ connection_queue' = [connection_queue EXCEPT ![k] = NoConn]
        /\ taking' = t /\ accepted' = accepted
        /\ (app' = "counting" \/ aborted' # 0)
    BY <1>4 DEF AcceptPop, Invalidate
  <2>2. k \in Slots /\ t \in Conns
    BY <1>4, PopFacts
  <2>3. accepted[t] = 0 /\ \A j \in Slots : connection_queue[j] = t => j = k
    BY <1>1, <1>2, <2>2 DEF Placed
  <2> HIDE DEF k
  <2>4. \A j \in Slots : connection_queue'[j] = IF j = k THEN NoConn ELSE connection_queue[j]
    BY <1>2, <2>1
  <2> HIDE DEF t
  <2> QED BY <1>1, <1>2, <2>1, <2>2, <2>3, <2>4 DEF Placed
<1>5. CASE AcceptReturn
  <2>1. /\ accepted' = [accepted EXCEPT ![taking] = @ + 1] /\ taking' = taking
        /\ connection_queue' = connection_queue /\ app' = "serving" /\ app = "counting"
    BY <1>5 DEF AcceptReturn
  <2>2. taking \in Conns /\ accepted[taking] = 0
    BY <1>1, <1>2, <2>1 DEF Placed
  <2>3. \A c \in Conns : accepted'[c] = IF c = taking THEN 1 ELSE accepted[c]
    BY <1>2, <2>1, <2>2
  <2>4. \A j \in Slots : connection_queue[j] # NoConn =>
            connection_queue[j] # taking /\ connection_queue[j] \in Conns
    BY <1>1, <1>2 DEF Placed
  <2> QED BY <1>1, <1>2, <2>1, <2>2, <2>3, <2>4 DEF Placed
<1>6. CASE Elsewhere
  BY <1>1, <1>6 DEF Elsewhere, Placed
<1> QED BY <1>1, <1>3, <1>4, <1>5, <1>6, StepElsewhere

(* The pointers of the completed queue. *)
LEMMA CompletedStep == DemuxInv /\ [Next]_vars => Completed'
<1> SUFFICES ASSUME DemuxInv, [Next]_vars PROVE Completed'
  OBVIOUS
<1> DEFINE q == completed_queue
           Good(k) == connection_queue[k] # NoConn
                      /\ transport[connection_queue[k]] \in {"running", "finished"}
<1>1. TypeOK /\ Placed /\ Completed
  BY DEF DemuxInv
<1>2. /\ connection_queue \in [Slots -> Conns \cup {NoConn}] /\ DOMAIN transport = Conns
      /\ q \in Seq(Slots)
  BY <1>1 DEF TypeOK, QueueTypeOK
<1>3. \A i \in 1 .. Len(q) : q[i] \in Slots /\ Good(q[i])
  BY <1>1, <1>2 DEF Completed
<1>4. \A i, j \in 1 .. Len(q) : q[i] = q[j] => i = j
  BY <1>1 DEF Completed
<1>5. ASSUME completed_queue' = q, \A k \in Slots : Good(k) => Good(k)'
      PROVE  Completed'
  BY <1>3, <1>4, <1>5 DEF Completed
<1>6. CASE EnqueueLaunch
  <2>1. /\ connection_queue' = [connection_queue EXCEPT ![slot] = current]
        /\ transport' = [transport EXCEPT ![current] = "handshake"]
        /\ completed_queue' = q
    BY <1>6 DEF EnqueueLaunch
  <2>2. current \in Conns /\ transport[current] = "none" /\ connection_queue[slot] = NoConn
    BY <1>6, LaunchFacts
  <2>3. ASSUME NEW k \in Slots, Good(k) PROVE Good(k)'
    BY <1>2, <2>1, <2>2, <2>3
  <2> QED BY <1>5, <2>1, <2>3
<1>7. CASE AcceptPop
  <2> DEFINE k == Head(q)
             s == Tail(q)
  <2>1. /\ completed_queue' = s /\ q # <<>> /\ transport' = transport
        /\ connection_queue' = [connection_queue EXCEPT ![k] = NoConn]
    BY <1>7 DEF AcceptPop, Invalidate
  <2>2. /\ k = q[1] /\ Len(q) \in Nat \ {0} /\ Len(s) = Len(q) - 1
        /\ \A i \in 1 .. Len(s) : i + 1 \in 1 .. Len(q) /\ s[i] = q[i + 1]
    BY <1>2, <2>1, TailOf
  <2>3. 1 \in 1 .. Len(q) /\ \A i \in 1 .. Len(s) : i + 1 # 1
    BY <2>2
  <2> HIDE DEF s, k
  <2>4. ASSUME NEW i \in 1 .. Len(s) PROVE s[i] \in Slots /\ s[i] # k /\ Good(s[i])
    <3>1. s[i] = q[i + 1] /\ i + 1 \in 1 .. Len(q) /\ i + 1 # 1
      BY <2>2, <2>3
    <3> QED BY <1>3, <1>4, <2>2, <2>3, <3>1
  <2>5. ASSUME NEW i \in 1 .. Len(s)
        PROVE  connection_queue'[s[i]] # NoConn
               /\ transport'[connection_queue'[s[i]]] \in {"running", "finished"}
    <3>1. connection_queue'[s[i]] = connection_queue[s[i]]
      BY <1>2, <2>1, <2>4
    <3> QED BY <2>1, <2>4, <3>1
  <2>6. \A i, j \in 1 .. Len(s) : s[i] = s[j] => i = j
    <3> SUFFICES ASSUME NEW i \in 1 .. Len(s), NEW j \in 1 .. Len(s), s[i] = s[j]
                 PROVE  i = j
      OBVIOUS
    <3>1. i + 1 = j + 1
      BY <1>4, <2>2
    <3> QED BY <3>1
  <2> QED BY <2>1, <2>5, <2>6 DEF Completed
<1>8. ASSUME NEW c \in Conns, ConnectionComplete(c)
      PROVE  Completed'
  <2>1. PICK k \in SlotOf(c) : completed_queue' = Append(q, k)
    BY <1>8 DEF ConnectionComplete, AtTail
  <2>2. /\ k \in Slots /\ connection_queue[k] = c /\ transport[c] = "handshake"
        /\ connection_queue' = connection_queue
        /\ transport' = [transport EXCEPT ![c] = "running"]
    BY <1>8, <2>1 DEF ConnectionComplete, SlotOf
  <2> DEFINE s == Append(q, k)
  <2>3. /\ Len(q) \in Nat /\ Len(s) = Len(q) + 1 /\ s[Len(q) + 1] = k
        /\ \A i \in 1 .. Len(q) : s[i] = q[i]
        /\ \A i \in 1 .. Len(s) : i \in 1 .. Len(q) \/ i = Len(q) + 1
    BY <1>2, <2>2, AppendOf
  <2> HIDE DEF s
  <2>4. \A i \in 1 .. Len(q) : q[i] # k
    BY <1>3, <2>2
  <2>5. ASSUME NEW j \in Slots, Good(j) \/ j = k PROVE Good(j)'
    BY <1>2, <2>2, <2>5, DemuxAssumption
  <2>6. ASSUME NEW i \in 1 .. Len(s)
        PROVE  connection_queue'[s[i]] # NoConn
               /\ transport'[connection_queue'[s[i]]] \in {"running", "finished"}
    <3>1. s[i] \in Slots /\ (Good(s[i]) \/ s[i] = k)
      BY <1>3, <2>2, <2>3
    <3> QED BY <2>5, <3>1
  <2>7. \A i, j \in 1 .. Len(s) : s[i] = s[j] => i = j
    BY <1>4, <2>3, <2>4
  <2>8. completed_queue' = s
    BY <2>1 DEF s
  <2> QED BY <2>6, <2>7, <2>8 DEF Completed
<1>9. CASE CloseNext
  <2>1. completed_queue' = q \/ completed_queue' = <<>>
    BY <1>9 DEF CloseNext
  <2>2. CASE completed_queue' = q
    BY <1>5, <1>9, <2>2 DEF CloseNext
  <2>3. CASE completed_queue' = <<>>
    <3>1. Len(completed_queue') = 0
      BY <2>3
    <3> QED BY <3>1 DEF Completed
  <2> QED BY <2>1, <2>2, <2>3
<1>10. ASSUME Elsewhere, completed_queue' = q
       PROVE  Completed'
  <2>1. ASSUME NEW k \in Slots, Good(k) PROVE Good(k)'
    BY <1>2, <1>10, <2>1 DEF Elsewhere
  <2> QED BY <1>5, <1>10, <2>1
<1>11. CASE AcceptReturn
  BY <1>5, <1>11 DEF AcceptReturn
<1>12. EnqueueLaunch \/ AcceptPop \/ (\E c \in Conns : ConnectionComplete(c)) \/ CloseNext
         \/ completed_queue' = q
  BY DEF Next, RecvThread, AcceptTcp, ReadSyn, EnqueueCheck, EnqueueFind, EnqueueCount,
     EnqueueNoSocket, EnqueueUncount, RecvExit, AppThread, AcceptCall, AcceptReturn, ServeEnds, CloseCall,
     CloseLock, Transport, ConnectionEnds, ClientConnect, ClientSendSyn, ClientVanish, vars,
     queueVars
<1> HIDE DEF q, Good
<1> QED BY <1>1, <1>6, <1>7, <1>8, <1>9, <1>10, <1>11, <1>12, StepElsewhere

-----------------------------------------------------------------------------
(* The counter. *)

(* The counter follows the slots until myaccept is involved. *)
LEMMA CountedStep == DemuxInv /\ [Next]_vars => Counted'
<1> SUFFICES ASSUME DemuxInv, [Next]_vars, Unaccepted' PROVE CountOf'
  BY DEF Counted
<1> DEFINE n == Cardinality(Used)
<1>1. TypeOK /\ InHand /\ Placed /\ Counted
  BY DEF DemuxInv
<1>2. /\ connection_queue \in [Slots -> Conns \cup {NoConn}] /\ cur_len \in 0 .. UIntMax
      /\ recv_load \in 0 .. UIntMax /\ accepted \in [Conns -> Nat]
      /\ taking \in Conns \cup {NoConn}
  BY <1>1 DEF TypeOK, QueueTypeOK, AppTypeOK, RecvTypeOK
<1>3. n \in Nat /\ n <= MaxLen /\ MaxLen \in Nat /\ UIntMax \in Nat /\ MaxLen < UIntMax
      /\ IsFiniteSet(Used)
  BY UsedFacts, DemuxAssumption
<1>4. ~ AcceptPop
  BY DEF AcceptPop, Unaccepted
<1>5. ~ AcceptReturn
  <2> SUFFICES ASSUME AcceptReturn PROVE FALSE
    OBVIOUS
  <2>1. taking \in Conns /\ accepted'[taking] = accepted[taking] + 1
    BY <1>1, <1>2 DEF AcceptReturn, Placed
  <2>2. accepted'[taking] = 0
    BY <2>1 DEF Unaccepted
  <2> QED BY <1>2, <2>1, <2>2
<1>6. ASSUME Elsewhere PROVE CountOf /\ Used' = Used
  BY <1>1, <1>6 DEF Elsewhere, Counted, Unaccepted, Used
<1>7. CASE EnqueueLaunch
  <2>1. /\ connection_queue' = [connection_queue EXCEPT ![slot] = current]
        /\ cur_len' = cur_len /\ recv' = "poll" /\ recv = "launch"
        /\ accepted' = accepted /\ app' = app /\ aborted' = aborted
    BY <1>7 DEF EnqueueLaunch, appVars
  <2>2. current \in Conns /\ connection_queue[slot] = NoConn /\ slot \in Slots
    BY <1>7, LaunchFacts
  <2>3. cur_len = n + 1
    BY <1>1, <2>1 DEF Counted, Unaccepted, CountOf
  <2>4. Used' = Used \cup {slot} /\ slot \notin Used
    BY <1>2, <2>1, <2>2, DemuxAssumption DEF Used
  <2>5. Cardinality(Used \cup {slot}) = n + 1
    BY <1>3, <2>4, FS_AddElement
  <2>6. Cardinality(Used)' = n + 1
    BY <2>4, <2>5
  <2> HIDE DEF n
  <2> QED BY <2>1, <2>3, <2>6 DEF CountOf
<1>8. CASE Elsewhere
  <2>1. CountOf /\ Cardinality(Used)' = n
    BY <1>6, <1>8
  <2> HIDE DEF n
  <2>2. CASE UNCHANGED <<recv, recv_load, cur_len>>
    BY <2>1, <2>2 DEF CountOf, n
  <2>3. CASE AcceptTcp \/ ReadSyn \/ EnqueueCheck \/ RecvExit
    <3>1. /\ cur_len' = cur_len /\ recv \notin {"launch", "uncount"}
          /\ recv' \notin {"count", "launch", "uncount"}
      BY <2>3 DEF AcceptTcp, ReadSyn, EnqueueCheck, RecvExit, queueVars
    <3> QED BY <2>1, <3>1 DEF CountOf, n
  <2>4. CASE EnqueueFind
    <3>1. cur_len' = cur_len /\ recv = "find" /\ recv' = "count" /\ recv_load' = cur_len
      BY <2>4 DEF EnqueueFind, Unaccepted, queueVars
    <3> QED BY <2>1, <3>1 DEF CountOf, n
  <2>5. CASE EnqueueCount
    <3>1. recv = "count" /\ recv' = "launch" /\ cur_len' = Inc(recv_load)
      BY <2>5 DEF EnqueueCount
    <3>2. recv_load = n
      BY <2>1, <3>1 DEF CountOf, n
    <3>3. cur_len' = n + 1
      BY <1>3, <3>1, <3>2 DEF Inc
    <3> QED BY <2>1, <3>1, <3>3 DEF CountOf
  <2>6. CASE EnqueueNoSocket
    <3>1. /\ cur_len' = cur_len /\ recv = "launch" /\ recv' = "uncount"
          /\ recv_load' = cur_len
      BY <2>6 DEF EnqueueNoSocket, queueVars
    <3> QED BY <2>1, <3>1 DEF CountOf, n
  <2>7. CASE EnqueueUncount
    <3>1. recv = "uncount" /\ recv' = "poll" /\ cur_len' = Dec(recv_load)
      BY <2>7 DEF EnqueueUncount
    <3>2. recv_load = n + 1
      BY <2>1, <3>1 DEF CountOf, n
    <3>3. cur_len' = n
      BY <1>3, <3>1, <3>2 DEF Dec
    <3> QED BY <2>1, <3>1, <3>3 DEF CountOf
  <2>8. CASE EnqueueLaunch
    BY <1>7, <2>8
  <2>9. \/ AcceptTcp \/ ReadSyn \/ EnqueueCheck \/ RecvExit \/ EnqueueFind \/ EnqueueCount
        \/ EnqueueNoSocket \/ EnqueueUncount \/ EnqueueLaunch
        \/ UNCHANGED <<recv, recv_load, cur_len>>
    BY <1>4, <1>5 DEF Next, RecvThread, AppThread, AcceptCall, ServeEnds, CloseCall, CloseLock, CloseNext,
       Transport, ConnectionComplete, ConnectionEnds, ClientConnect, ClientSendSyn,
       ClientVanish, vars, queueVars, recvVars
  <2> QED BY <2>2, <2>3, <2>4, <2>5, <2>6, <2>7, <2>8, <2>9
<1> QED BY <1>1, <1>4, <1>5, <1>7, <1>8, StepElsewhere

-----------------------------------------------------------------------------

(* The invariant holds of the empty queue. *)
LEMMA DemuxInit == Init => DemuxInv
<1> SUFFICES ASSUME Init PROVE DemuxInv
  OBVIOUS
<1>1. TypeOK
  BY TypeInit
<1>2. Used = {}
  BY DEF Init, Used
<1>3. Counted
  BY <1>2, FS_EmptySet DEF Init, Counted, CountOf
<1>4. Len(tcp_backlog) = 0 /\ Len(completed_queue) = 0
  BY DEF Init
<1>5. Fresh /\ Completed
  BY <1>4, DemuxAssumption DEF Init, Fresh, Waiting, Completed
<1>6. Unborn /\ InHand /\ Placed
  BY DemuxAssumption DEF Init, Unborn, InHand, Placed
<1> QED BY <1>1, <1>3, <1>5, <1>6 DEF DemuxInv

(* One step of any thread keeps the invariant. *)
LEMMA DemuxStep == DemuxInv /\ [Next]_vars => DemuxInv'
BY TypeStep, InHandStep, FreshStep, UnbornStep, PlacedStep, CompletedStep, CountedStep
   DEF DemuxInv

(* The listen queue stays consistent whatever the order of SYNs, handshakes  *)
(* and accepts: the pointers of the completed queue are good and distinct,   *)
(* a connection has one owner and is accepted at most once, and the counter  *)
(* is exact until the first myaccept.                                        *)
THEOREM QueueSafety == Spec => []QueueConsistent
<1>1. DemuxInv => QueueConsistent
  <2> SUFFICES ASSUME DemuxInv PROVE QueueConsistent
    OBVIOUS
  <2>1. TypeOK /\ Unborn /\ Fresh /\ Placed /\ Completed /\ Counted
    BY DEF DemuxInv
  <2>2. /\ connection_queue \in [Slots -> Conns \cup {NoConn}] /\ NoConn \notin Conns
        /\ completed_queue \in Seq(Slots) /\ accepted \in [Conns -> Nat]
    BY <2>1, DemuxAssumption DEF TypeOK, QueueTypeOK, AppTypeOK
  <2>3. CompletedValid
    <3>1. DOMAIN completed_queue = 1 .. Len(completed_queue)
      BY <2>2
    <3>2. \A i \in 1 .. Len(completed_queue) : completed_queue[i] \in Slots
      BY <2>2
    <3> QED BY <2>1, <3>1, <3>2 DEF CompletedValid, Completed, Placed
  <2>4. OneOwner
    <3> SUFFICES ASSUME NEW c \in Conns
                 PROVE  /\ Cardinality(SlotOf(c)) <= 1
                        /\ accepted[c] <= 1
                        /\ SlotOf(c) # {} => new_socket # c /\ taking # c /\ accepted[c] = 0
      BY DEF OneOwner
    <3>1. Cardinality(SlotOf(c)) <= 1
      <4>1. CASE SlotOf(c) = {}
        BY <4>1, FS_EmptySet
      <4>2. CASE SlotOf(c) # {}
        <5>1. PICK k \in Slots : connection_queue[k] = c
          BY <4>2 DEF SlotOf
        <5>2. SlotOf(c) = {k}
          BY <2>1, <2>2, <5>1 DEF SlotOf, Placed
        <5>3. Cardinality(SlotOf(c)) = 1
          BY <5>2, FS_Singleton
        <5> QED BY <5>3
      <4> QED BY <4>1, <4>2
    <3>2. SlotOf(c) # {} => new_socket # c /\ taking # c /\ accepted[c] = 0
      BY <2>1, <2>2 DEF SlotOf, Placed, Unborn, Fresh
    <3> QED BY <2>1, <3>1, <3>2 DEF Placed
  <2>5. CountExact
    BY <2>1 DEF CountExact, Counted, CountOf, Unaccepted, Used
  <2> QED BY <2>1, <2>3, <2>4, <2>5 DEF QueueConsistent
<1> QED BY DemuxInit, DemuxStep, <1>1, PTL DEF Spec

=============================================================================
