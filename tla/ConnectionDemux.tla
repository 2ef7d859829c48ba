-------------------------- MODULE ConnectionDemux --------------------------
(* A listening mysocket (Project-3): its receive thread accepts TCP           *)
(* connections and turns each SYN into a queued connection                    *)
(* (network_io_tcp.c, connection_demux.c), the transport thread of each       *)
(* connection reports the end of its handshake, and the application accepts   *)
(* completed connections, serves one at a time as server.c does, and may      *)
(* close the listener (mysock_api.c).                                         *)
(*                                                                            *)
(* cur_len is changed by the receive thread under listen_lock held for        *)
(* reading and by the application under connection_lock, so its increment     *)
(* and its decrement are a load and a store that interleave.                  *)
EXTENDS Integers, Sequences, FiniteSets

CONSTANTS
    Conns,       \* connection attempts, one TCP connection each
    NoConn,      \* an unused slot (sd = -1), or no half-open socket
    Addr,        \* Addr[c]: the peer address of attempt c
    MaxLen,      \* backlog + 1
    MaxSockets,  \* mysockets left for connections (MAX_NUM_CONNECTIONS - 1)
    Vanishing,   \* attempts whose client may die, before its SYN or after it
    Quiet,       \* attempts whose client may never send the SYN
    UIntMax,     \* the largest unsigned int, scaled down
    MayClose     \* whether the application ever closes the listener

ASSUME DemuxAssumption ==
    /\ NoConn \notin Conns
    /\ MaxLen \in Nat \ {0}
    /\ MaxSockets \in Nat
    /\ Vanishing \subseteq Conns
    /\ Quiet \subseteq Conns
    /\ UIntMax \in Nat /\ UIntMax > MaxLen
    /\ MayClose \in BOOLEAN

Slots == 1 .. MaxLen

VARIABLES
    client,            \* the client of each attempt
    tcp_backlog,       \* TCP connections the kernel holds for accept()
    recv,              \* where the listener's receive thread is
    current,           \* the connection whose packet the receive thread handles
    new_socket,        \* accepted socket not yet given to a context
    connection_queue,  \* the slots of the listen queue
    completed_queue,   \* slots whose connection is established, oldest first
    cur_len,           \* q->cur_len
    slot,              \* queue_entry of the receive thread
    recv_load,         \* cur_len as loaded by the receive thread
    app,               \* where the accepting thread is
    app_load,          \* cur_len as loaded by the accepting thread
    taking,            \* the connection the accepting thread has popped or serves
    closing,           \* the slot whose connection is being closed and joined
    transport,         \* the transport thread of each connection
    accepted,          \* how often myaccept has returned each connection
    aborted            \* line of the assert that stopped the process, or 0

recvVars == <<tcp_backlog, recv, current, new_socket, slot, recv_load>>
queueVars == <<connection_queue, completed_queue, cur_len>>
appVars == <<app, app_load, taking, closing, accepted>>
vars == <<client, recvVars, queueVars, appVars, transport, aborted>>

Init ==
    /\ client = [c \in Conns |-> "idle"]
    /\ tcp_backlog = <<>>
    /\ recv = "poll"
    /\ current = NoConn
    /\ new_socket = NoConn
    /\ connection_queue = [k \in Slots |-> NoConn]
    /\ completed_queue = <<>>
    /\ cur_len = 0
    /\ slot = 1
    /\ recv_load = 0
    /\ app = "idle"
    /\ app_load = 0
    /\ taking = NoConn
    /\ closing = 1
    /\ transport = [c \in Conns |-> "none"]
    /\ accepted = [c \in Conns |-> 0]
    /\ aborted = 0

Running == aborted = 0

(* ++ and -- of an unsigned int wrap. *)
Inc(n) == IF n = UIntMax THEN 0 ELSE n + 1

Dec(n) == IF n = 0 THEN UIntMax ELSE n - 1

(* listen_lock is held for writing from the moment the application closes    *)
(* the listen queue until the last queued connection is closed.              *)
WriteLocked == app = "joining"

-----------------------------------------------------------------------------
(* The clients. *)

(* connect(): the kernel completes the TCP handshake.  An address is in use  *)
(* for one connection at a time.                                             *)
ClientConnect(c) ==
    /\ client[c] = "idle"
    /\ \A d \in Conns \ {c} : Addr[d] = Addr[c] => client[d] \in {"idle", "gone"}
    /\ client' = [client EXCEPT ![c] = "connected"]
    /\ tcp_backlog' = Append(tcp_backlog, c)
    /\ UNCHANGED <<recv, current, new_socket, slot, recv_load, queueVars, appVars,
                   transport, aborted>>

ClientSendSyn(c) ==
    /\ client[c] = "connected"
    /\ client' = [client EXCEPT ![c] = "syn_sent"]
    /\ UNCHANGED <<recvVars, queueVars, appVars, transport, aborted>>

(* The client's process ends; its TCP connection closes. *)
ClientVanish(c) ==
    /\ c \in Vanishing
    /\ client[c] \in {"connected", "syn_sent"}
    /\ client' = [client EXCEPT ![c] =
                     IF @ = "connected" THEN "gone_silent" ELSE "gone"]
    /\ UNCHANGED <<recvVars, queueVars, appVars, transport, aborted>>

-----------------------------------------------------------------------------
(* The listener's receive thread. *)

(* _network_recv_packet: accept(), and the assertion that the socket of the  *)
(* previous SYN has been passed on.                                          *)
AcceptTcp ==
    /\ Running
    /\ recv = "poll"
    /\ tcp_backlog # <<>>
    /\ tcp_backlog' = Tail(tcp_backlog)
    /\ IF new_socket # NoConn
          THEN /\ aborted' = 203
               /\ UNCHANGED <<recv, current, new_socket>>
          ELSE /\ current' = Head(tcp_backlog)
               /\ new_socket' = Head(tcp_backlog)
               /\ recv' = "read"
               /\ UNCHANGED aborted
    /\ UNCHANGED <<client, slot, recv_load, queueVars, appVars, transport>>

(* The rest of _network_recv_packet: the thread blocks in read() until the   *)
(* SYN is there; end-of-file ends the thread, as any error does.             *)
ReadSyn ==
    /\ Running
    /\ recv = "read"
    /\ client[current] \in {"syn_sent", "gone", "gone_silent"}
    /\ recv' = IF client[current] = "gone_silent" THEN "exited" ELSE "check"
    /\ UNCHANGED <<client, tcp_backlog, current, new_socket, slot, recv_load,
                   queueVars, appVars, transport, aborted>>

(* cur_len < max_len as the receive thread reads it *)
RoomInQueue == cur_len < MaxLen

IsRetransmission(c) ==
    \E k \in Slots : connection_queue[k] # NoConn /\ Addr[connection_queue[k]] = Addr[c]

(* _mysock_enqueue_connection up to the test of cur_len: a retransmission or *)
(* a full queue drops the SYN and returns to the receive loop.               *)
EnqueueCheck ==
    /\ Running
    /\ recv = "check"
    /\ ~WriteLocked
    /\ recv' = IF IsRetransmission(current) \/ ~RoomInQueue THEN "poll" ELSE "find"
    /\ UNCHANGED <<client, tcp_backlog, current, new_socket, slot, recv_load,
                   queueVars, appVars, transport, aborted>>

FreeSlots == {k \in Slots : connection_queue[k] = NoConn}

(* The search for an empty slot, the assertion that there is one, and the    *)
(* load of ++cur_len.                                                        *)
EnqueueFind ==
    /\ Running
    /\ recv = "find"
    /\ IF FreeSlots = {}
          THEN /\ aborted' = 200
               /\ UNCHANGED <<recv, slot, recv_load>>
          ELSE /\ \E k \in FreeSlots : (\A j \in FreeSlots : k <= j) /\ slot' = k
               /\ recv_load' = cur_len
               /\ recv' = "count"
               /\ UNCHANGED aborted
    /\ UNCHANGED <<client, tcp_backlog, current, new_socket, queueVars, appVars, transport>>

EnqueueCount ==
    /\ Running
    /\ recv = "count"
    /\ cur_len' = Inc(recv_load)
    /\ recv' = "launch"
    /\ UNCHANGED <<client, tcp_backlog, current, new_socket, slot, recv_load,
                   connection_queue, completed_queue, appVars, transport, aborted>>

(* Mysockets of queued connections and of connections the application has    *)
(* accepted and not closed.                                                  *)
SocketsInUse == {c \in Conns : transport[c] \notin {"none", "finished"}}

(* _network_update_passive_state gives the accepted TCP socket to the new    *)
(* context.                                                                  *)
TransferSocket == new_socket' = NoConn

(* The new mysocket takes over the accepted TCP socket and its transport     *)
(* thread starts.                                                            *)
EnqueueLaunch ==
    /\ Running
    /\ recv = "launch"
    /\ Cardinality(SocketsInUse) < MaxSockets
    /\ connection_queue' = [connection_queue EXCEPT ![slot] = current]
    /\ TransferSocket
    /\ transport' = [transport EXCEPT ![current] = "handshake"]
    /\ recv' = "poll"
    /\ UNCHANGED <<client, tcp_backlog, current, slot, recv_load, completed_queue,
                   cur_len, appVars, aborted>>

(* No mysocket is left: the SYN is dropped and cur_len taken back, a load... *)
EnqueueNoSocket ==
    /\ Running
    /\ recv = "launch"
    /\ Cardinality(SocketsInUse) >= MaxSockets
    /\ recv_load' = cur_len
    /\ recv' = "uncount"
    /\ UNCHANGED <<client, tcp_backlog, current, new_socket, slot, queueVars, appVars,
                   transport, aborted>>

(* ... and a store. *)
EnqueueUncount ==
    /\ Running
    /\ recv = "uncount"
    /\ cur_len' = Dec(recv_load)
    /\ recv' = "poll"
    /\ UNCHANGED <<client, tcp_backlog, current, new_socket, slot, recv_load,
                   connection_queue, completed_queue, appVars, transport, aborted>>

(* The receive thread finds the exit pipe readable. *)
RecvExit ==
    /\ Running
    /\ recv = "poll"
    /\ app = "stopping"
    /\ recv' = "exited"
    /\ UNCHANGED <<client, tcp_backlog, current, new_socket, slot, recv_load,
                   queueVars, appVars, transport, aborted>>

-----------------------------------------------------------------------------
(* The transport threads. *)

SlotOf(c) == {k \in Slots : connection_queue[k] = c}

AsOnlyEntry(q, k) == <<k>>
(* The list of completed connections is appended to. *)
AtTail(q, k) == Append(q, k)

(* The handshake of c ends (an ACK, or the error buffer of a client that is  *)
(* gone) and _mysock_passive_connection_complete queues it for myaccept.  It *)
(* needs listen_lock for reading and connection_lock.                        *)
ConnectionComplete(c) ==
    /\ Running
    /\ transport[c] = "handshake"
    /\ ~WriteLocked
    /\ app # "counting"
    /\ \E k \in SlotOf(c) : completed_queue' = AtTail(completed_queue, k)
    /\ transport' = [transport EXCEPT ![c] = "running"]
    /\ UNCHANGED <<client, recvVars, connection_queue, cur_len, appVars, aborted>>


CloseRequested(c) == accepted[c] > 0 \/ (WriteLocked /\ closing \in SlotOf(c))

(* The connection ends and its transport thread returns: the application     *)
(* that accepted it, or the listener's close, closes its mysocket (see       *)
(* StcpTransport).  With a client that is gone this may happen or not: the   *)
(* error the receive thread reports once can be taken for the ACK of the     *)
(* handshake, and nothing else wakes the transport up.                       *)
ConnectionEnds(c) ==
    /\ Running
    /\ transport[c] = "running"
    /\ CloseRequested(c)
    /\ transport' = [transport EXCEPT ![c] = "finished"]
    /\ UNCHANGED <<client, recvVars, queueVars, appVars, aborted>>

-----------------------------------------------------------------------------
(* The application. *)

(* myaccept enters _mysock_dequeue_connection. *)
AcceptCall ==
    /\ Running
    /\ app = "idle"
    /\ app' = "waiting"
    /\ UNCHANGED <<client, recvVars, queueVars, app_load, taking, closing, accepted,
                   transport, aborted>>

PopKeepsSlot(q, k) == q

(* INVALIDATE_CONNECT_REQUEST of slot k *)
Invalidate(q, k) == [q EXCEPT ![k] = NoConn]

(* A completed connection is there: it is popped, its slot freed, and        *)
(* cur_len asserted positive and loaded.                                     *)
AcceptPop ==
    LET k == Head(completed_queue) IN
    /\ Running
    /\ app = "waiting"
    /\ completed_queue # <<>>
    /\ completed_queue' = Tail(completed_queue)
    /\ taking' = connection_queue[k]
    /\ connection_queue' = Invalidate(connection_queue, k)
    /\ IF cur_len = 0
          THEN aborted' = 113 /\ UNCHANGED <<app, app_load>>
          ELSE app' = "counting" /\ app_load' = cur_len /\ UNCHANGED aborted
    /\ UNCHANGED <<client, recvVars, cur_len, closing, accepted, transport>>

(* The store of --cur_len; myaccept returns and do_connection begins. *)
AcceptReturn ==
    /\ Running
    /\ app = "counting"
    /\ cur_len' = Dec(app_load)
    /\ accepted' = [accepted EXCEPT ![taking] = @ + 1]
    /\ app' = "serving"
    /\ UNCHANGED <<client, recvVars, connection_queue, completed_queue, app_load, taking,
                   closing, transport, aborted>>

(* do_connection reads until the client closes, and its myclose joins the    *)
(* transport thread of the connection.                                       *)
ServeEnds ==
    /\ Running
    /\ app = "serving"
    /\ transport[taking] = "finished"
    /\ taking' = NoConn
    /\ app' = "idle"
    /\ UNCHANGED <<client, recvVars, queueVars, app_load, closing, accepted, transport,
                   aborted>>

(* myclose of the listener: the receive thread is told to stop and joined. *)
CloseCall ==
    /\ Running
    /\ MayClose
    /\ app = "idle"
    /\ app' = "stopping"
    /\ UNCHANGED <<client, recvVars, queueVars, app_load, taking, closing, accepted,
                   transport, aborted>>

(* _mysock_close_passive_socket takes listen_lock for writing. *)
CloseLock ==
    /\ Running
    /\ app = "stopping"
    /\ recv = "exited"
    /\ app' = "joining"
    /\ UNCHANGED <<client, recvVars, queueVars, app_load, taking, closing, accepted,
                   transport, aborted>>

LastSlot(k) == k = MaxLen

(* The loop over the slots: a connection in the slot is closed and its       *)
(* transport thread joined; after the last one the queue is freed.           *)
CloseNext ==
    /\ Running
    /\ app = "joining"
    /\ \A c \in Conns : connection_queue[closing] = c => transport[c] = "finished"
    /\ IF LastSlot(closing)
          THEN /\ app' = "closed"
               /\ completed_queue' = <<>>
               /\ UNCHANGED closing
          ELSE /\ closing' = closing + 1
               /\ UNCHANGED <<app, completed_queue>>
    /\ UNCHANGED <<client, recvVars, connection_queue, cur_len, app_load, taking,
                   accepted, transport, aborted>>

-----------------------------------------------------------------------------

RecvThread ==
    \/ AcceptTcp \/ ReadSyn \/ EnqueueCheck \/ EnqueueFind \/ EnqueueCount
    \/ EnqueueLaunch \/ EnqueueNoSocket \/ EnqueueUncount \/ RecvExit

Transport(c) == ConnectionComplete(c) \/ ConnectionEnds(c)

AppThread == AcceptCall \/ AcceptPop \/ AcceptReturn \/ ServeEnds \/ CloseLock \/ CloseNext

Next ==
    \/ RecvThread
    \/ AppThread
    \/ CloseCall
    \/ \E c \in Conns :
          Transport(c) \/ ClientConnect(c) \/ ClientSendSyn(c) \/ ClientVanish(c)

Spec == Init /\ [][Next]_vars

(* The threads are scheduled, and a client that is not Quiet sends its SYN.  *)
(* A connection whose client is there ends in the end: the client closes     *)
(* when it has its files, and then both transports return (CloseTerminates   *)
(* of StcpTransport).  Nothing is assumed of one whose client is gone.       *)
Fairness ==
    /\ WF_vars(RecvThread)
    /\ WF_vars(AppThread)
    /\ \A c \in Conns : WF_vars(ConnectionComplete(c))
    /\ \A c \in Conns : WF_vars(client[c] # "gone" /\ ConnectionEnds(c))
    /\ \A c \in Conns \ Quiet : WF_vars(ClientSendSyn(c))

FairSpec == Spec /\ Fairness

-----------------------------------------------------------------------------
(* Properties. *)

RecvTypeOK ==
    /\ tcp_backlog \in Seq(Conns)
    /\ recv \in {"poll", "read", "check", "find", "count", "launch", "uncount", "exited"}
    /\ current \in Conns \cup {NoConn}
    /\ new_socket \in Conns \cup {NoConn}
    /\ slot \in Slots
    /\ recv_load \in 0 .. UIntMax

QueueTypeOK ==
    /\ connection_queue \in [Slots -> Conns \cup {NoConn}]
    /\ completed_queue \in Seq(Slots)
    /\ cur_len \in 0 .. UIntMax

AppTypeOK ==
    /\ app \in {"idle", "waiting", "counting", "serving", "stopping", "joining", "closed"}
    /\ app_load \in 0 .. UIntMax
    /\ taking \in Conns \cup {NoConn}
    /\ closing \in Slots
    /\ accepted \in [Conns -> Nat]

(* Every variable keeps to the values the code can store in it. *)
TypeOK ==
    /\ client \in [Conns -> {"idle", "connected", "syn_sent", "gone", "gone_silent"}]
    /\ transport \in [Conns -> {"none", "handshake", "running", "finished"}]
    /\ aborted \in {0, 113, 200, 203}
    /\ RecvTypeOK /\ QueueTypeOK /\ AppTypeOK

(* The pointers of the completed queue stay good however the receive thread, *)
(* the transports and myaccept interleave: each points to a slot that holds  *)
(* an established connection nobody has accepted, and no two to the same.    *)
CompletedValid ==
    app # "closed" =>
      /\ \A i \in DOMAIN completed_queue :
           LET c == connection_queue[completed_queue[i]] IN
           /\ c # NoConn
           /\ transport[c] \in {"running", "finished"}
           /\ accepted[c] = 0
      /\ \A i, j \in DOMAIN completed_queue :
           completed_queue[i] = completed_queue[j] => i = j

(* A connection has one owner: it is in at most one slot, and not at the     *)
(* same time in the receive thread's hand, being popped or accepted; and     *)
(* myaccept returns it at most once.                                         *)
OneOwner ==
    \A c \in Conns :
        /\ Cardinality(SlotOf(c)) <= 1
        /\ accepted[c] <= 1
        /\ SlotOf(c) # {} => new_socket # c /\ taking # c /\ accepted[c] = 0

(* The receive thread and the handshakes alone never miscount: until the     *)
(* first myaccept, cur_len is the number of slots in use.                    *)
CountExact ==
    /\ recv \in {"poll", "read", "check", "find"}
    /\ \A c \in Conns : accepted[c] = 0
    /\ app # "counting"
    /\ aborted = 0
    => cur_len = Cardinality({k \in Slots : connection_queue[k] # NoConn})

(* The queue of the listener is consistent: slots, the pointers into them    *)
(* and the counter, whatever the order of SYNs, handshakes and accepts.      *)
QueueConsistent == TypeOK /\ CompletedValid /\ OneOwner /\ CountExact

(* A transport that has nobody to talk to: it may never return, and then     *)
(* neither does the pthread_join of myclose.                                 *)
Abandoned(c) == transport[c] = "running" /\ client[c] = "gone"

(* A connection whose handshake is over is returned by myaccept, unless the  *)
(* process stops, the application closes the listener instead, or it serves  *)
(* a client that is gone and waits for that connection's end.                *)
EstablishedAccepted ==
    \A c \in Conns :
        transport[c] = "running" ~>
            \/ accepted[c] > 0
            \/ aborted # 0
            \/ app = "serving" /\ Abandoned(taking)
            \/ app \in {"stopping", "joining", "closed"}

(* network_io_tcp.c: "keep listening socket open for futher connection       *)
(* requests": a client that connects and sends its SYN is read by the        *)
(* listener, unless the listener is closed, the process has stopped, or some *)
(* client hung up before its SYN: that end-of-file ends the receive thread.  *)
ListenerStaysOpen ==
    \A c \in Conns :
        client[c] = "syn_sent" ~>
            \/ current = c
            \/ transport[c] # "none"
            \/ aborted # 0
            \/ client[c] = "gone"
            \/ \E d \in Conns : client[d] = "gone_silent"
            \/ app \in {"stopping", "joining", "closed"}

(* Both together: a client that goes on is served. *)
ClientsServed == EstablishedAccepted /\ ListenerStaysOpen

(* network_io_socket.c on the receive thread: "the system call will be       *)
(* interrupted by the transport layer thread if we're to exit".  The read()  *)
(* of the SYN is not, so the close of the listener gets past the receive     *)
(* thread only because every client sends its SYN or hangs up (Quiet = {}).  *)
StopEnds == app = "stopping" ~> (app = "joining" \/ aborted # 0)

(* connection_demux.c: "close any queued connections that haven't been       *)
(* passed up to the user via myaccept()": this ends when no queued           *)
(* connection is still in its handshake (one that is blocks on listen_lock)  *)
(* and the client of every queued connection is there to end it.             *)
CloseEndsAfterHandshakes ==
    app = "joining" /\ (\A c \in Conns : SlotOf(c) # {} => transport[c] # "handshake")
        ~> (app = "closed" \/ \E c \in Conns : SlotOf(c) # {} /\ Abandoned(c))


=============================================================================
