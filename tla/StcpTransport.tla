--------------------------- MODULE StcpTransport ---------------------------
(* One STCP connection (Project-3): the transport thread of each end          *)
(* (transport.c), the queues between it, the application and the network     *)
(* (mysock.c, stcp_api.c), and the application calls that drive it           *)
(* (mysock_api.c).  The ends exchange packets over one TCP connection        *)
(* (network_io_tcp.c), so each direction is reliable and FIFO.               *)
(*                                                                           *)
(* Payload bytes are numbered by their place in the stream the application   *)
(* wrote: `off' of a packet is the number of stream bytes sent before it and *)
(* `len' is its payload, so a packet carries bytes off+1 .. off+len.         *)
EXTENDS Integers, Sequences, FiniteSets

CONSTANTS
    SWS,              \* the send window: 3072 in control_loop
    MSS,              \* the payload of a full packet: 536 in control_loop
    WriteSizes,       \* lengths the applications pass to mywrite
    ActiveBytes,      \* bound: bytes the application of the active end writes
    PassiveBytes,     \* bound: bytes the application of the passive end writes
    Junk,             \* values an uninitialised th_ack may hold
    RequestResponse,  \* TRUE: the applications take turns, as client.c/server.c
    Killable          \* the ends whose process may be killed

Ends == {"active", "passive"}

Peer(e) == IF e = "active" THEN "passive" ELSE "active"

MaxBytes(e) == IF e = "active" THEN ActiveBytes ELSE PassiveBytes

ASSUME ConstantsAssumption ==
    /\ SWS \in Nat \ {0}
    /\ MSS \in Nat \ {0}
    /\ WriteSizes \subseteq Nat \ {0}
    /\ ActiveBytes \in Nat /\ PassiveBytes \in Nat
    /\ Junk \subseteq Int
    /\ RequestResponse \in BOOLEAN
    /\ Killable \subseteq Ends

VARIABLES
    state,            \* where the transport thread is (ctx->connection_state)
    isn,              \* ctx->initial_sequence_num
    left,             \* control_loop's left: sequence number of the next packet
    send_wind,        \* control_loop's send_wind
    event_chosen,     \* control_loop's event_chosen
    event,            \* the bits of event this iteration has still to handle
    network,          \* packets on their way to an end, network_recv_queue included
    app_recv_queue,   \* mywrite() -> transport: stream offsets where queued writes end
    written,          \* bytes passed to mywrite()
    taken,            \* bytes stcp_app_recv() has removed from app_recv_queue
    rcvd,             \* bytes stcp_app_send() has put into app_send_queue
    read,             \* bytes myread() has returned
    eof_queued,       \* app_send_queue holds an end-of-file entry
    eof,              \* ctx->eof: myread() has returned 0
    close_requested,  \* ctx->close_requested
    app,              \* where the application is in its use of the mysocket
    turn              \* whose turn it is to write, when the applications take turns

ctxVars == <<state, isn, left, send_wind, event_chosen>>
writeVars == <<app_recv_queue, written, taken>>
readVars == <<rcvd, read, eof_queued, eof>>
appVars == <<close_requested, app, turn>>
vars == <<ctxVars, event, network, writeVars, readVars, appVars>>

(* CLOSED is transport_init before its first packet, SYN_SENT and SYN_RCVD   *)
(* its two waits; DONE is ctx->done, EXITED a finished transport thread,     *)
(* CRASHED a process stopped by a fault of its own and KILLED by a signal.   *)
States == {"CLOSED", "SYN_SENT", "SYN_RCVD", "ESTABLISHED", "FIN_WAIT",
           "FIN_SENT_ACK_RECIEVED", "CLOSE_WAIT", "LAST_ACK",
           "DONE", "EXITED", "CRASHED", "KILLED"}

InControlLoop == {"ESTABLISHED", "FIN_WAIT", "FIN_SENT_ACK_RECIEVED",
                  "CLOSE_WAIT", "LAST_ACK"}

ANY_EVENT == {"NETWORK_DATA", "APP_DATA"}

EventBits == ANY_EVENT \cup {"APP_CLOSE_REQUESTED"}

(* ERROR is the zero-length buffer network_recv_thread_func queues once the  *)
(* TCP connection is gone; DATA packets carry th_flags = -1.                 *)
Flags == {"SYN", "SYN_ACK", "ACK", "FIN", "DATA", "ERROR"}

Packet == [flags : Flags, seq : Int, ack : Int, off : Nat, len : Nat]

MINSecond(a, b) == b

MIN(a, b) == IF a < b THEN a ELSE b

-----------------------------------------------------------------------------

(* A packet of end e; off records how much of e's stream precedes it. *)
Pkt(e, flags, seq, ack, len) ==
    [flags |-> flags, seq |-> seq, ack |-> ack, off |-> taken[e], len |-> len]

NetworkSendInFront(e, p) == [network EXCEPT ![Peer(e)] = <<p>> \o @]

(* stcp_network_send: the peer's receive thread will read the packet. *)
NetworkSend(e, p) == [network EXCEPT ![Peer(e)] = Append(@, p)]

(* stcp_network_recv by e, then a reply p of e. *)
NetworkRecvSend(e, p) ==
    [network EXCEPT ![e] = Tail(@), ![Peer(e)] = Append(@, p)]

NetworkRecv(e) == [network EXCEPT ![e] = Tail(@)]

HeadIs(e, flags) == network[e] # <<>> /\ Head(network[e]).flags = flags

Init ==
    /\ state = [e \in Ends |-> "CLOSED"]
    /\ isn = [e \in Ends |-> 0]
    /\ left = [e \in Ends |-> 0]
    /\ send_wind = [e \in Ends |-> SWS]
    /\ event_chosen = [e \in Ends |-> ANY_EVENT]
    /\ event = [e \in Ends |-> {}]
    /\ network = [e \in Ends |-> <<>>]
    /\ app_recv_queue = [e \in Ends |-> {}]
    /\ written = [e \in Ends |-> 0]
    /\ taken = [e \in Ends |-> 0]
    /\ rcvd = [e \in Ends |-> 0]
    /\ read = [e \in Ends |-> 0]
    /\ eof_queued = [e \in Ends |-> FALSE]
    /\ eof = [e \in Ends |-> FALSE]
    /\ close_requested = [e \in Ends |-> FALSE]
    /\ app = [e \in Ends |-> "blocked"]
    /\ turn = "active"

-----------------------------------------------------------------------------
(* transport_init: the handshake.  Neither side looks at the flags of what   *)
(* it receives, so an ERROR buffer is taken for the expected packet.         *)

(* The end of transport_init's handshake and the start of control_loop: the  *)
(* application is unblocked and left starts at the sequence number n.        *)
Establish(e, n) ==
    /\ isn' = [isn EXCEPT ![e] = n]
    /\ left' = [left EXCEPT ![e] = n]
    /\ state' = [state EXCEPT ![e] = "ESTABLISHED"]
    /\ app' = [app EXCEPT ![e] = "open"]

SendSyn ==
    LET e == "active" IN
    /\ state[e] = "CLOSED"
    /\ network' = NetworkSend(e, Pkt(e, "SYN", isn[e], 0, 0))
    /\ isn' = [isn EXCEPT ![e] = @ + 1]
    /\ state' = [state EXCEPT ![e] = "SYN_SENT"]
    /\ UNCHANGED <<left, send_wind, event_chosen, event, writeVars, readVars, appVars>>

RecvSynSendSynAck ==
    LET e == "passive" IN
    /\ state[e] = "CLOSED"
    /\ network[e] # <<>>
    /\ network' = NetworkRecvSend(e,
                     Pkt(e, "SYN_ACK", isn[e], Head(network[e]).seq + 1, 0))
    /\ isn' = [isn EXCEPT ![e] = @ + 1]
    /\ state' = [state EXCEPT ![e] = "SYN_RCVD"]
    /\ UNCHANGED <<left, send_wind, event_chosen, event, writeVars, readVars, appVars>>

RecvSynAckSendAck ==
    LET e == "active" IN
    /\ state[e] = "SYN_SENT"
    /\ network[e] # <<>>
    /\ network' = NetworkRecvSend(e,
                     Pkt(e, "ACK", isn[e], Head(network[e]).seq + 1, 0))
    /\ Establish(e, isn[e] + 1)
    /\ UNCHANGED <<send_wind, event_chosen, event, writeVars, readVars,
                   close_requested, turn>>

RecvHandshakeAck ==
    LET e == "passive" IN
    /\ state[e] = "SYN_RCVD"
    /\ network[e] # <<>>
    /\ network' = NetworkRecv(e)
    /\ Establish(e, isn[e])
    /\ UNCHANGED <<send_wind, event_chosen, event, writeVars, readVars,
                   close_requested, turn>>

-----------------------------------------------------------------------------
(* The application. *)

MayUse(e) == RequestResponse => turn = e \/ eof[e]

MyWrite(e, n) ==
    /\ app[e] = "open"
    /\ MayUse(e)
    /\ written[e] + n <= MaxBytes(e)
    /\ written' = [written EXCEPT ![e] = @ + n]
    /\ app_recv_queue' = [app_recv_queue EXCEPT ![e] = @ \cup {written[e] + n}]
    /\ UNCHANGED <<ctxVars, event, network, taken, readVars, appVars>>

MyRead(e, n) ==
    /\ app[e] = "open"
    /\ ~eof[e]
    /\ n <= rcvd[e] - read[e]
    /\ read' = [read EXCEPT ![e] = @ + n]
    /\ UNCHANGED <<ctxVars, event, network, writeVars, rcvd, eof_queued, eof, appVars>>

MyReadEof(e) ==
    /\ app[e] = "open"
    /\ ~eof[e]
    /\ read[e] = rcvd[e]
    /\ eof_queued[e]
    /\ eof' = [eof EXCEPT ![e] = TRUE]
    /\ UNCHANGED <<ctxVars, event, network, writeVars, rcvd, read, eof_queued, appVars>>

(* The request or the response is complete: the other side has read it all   *)
(* and answers now.                                                          *)
PassTurn(e) ==
    /\ RequestResponse
    /\ turn = e
    /\ app[e] = "open"
    /\ app[Peer(e)] = "open"
    /\ read[Peer(e)] = written[e]
    /\ turn' = Peer(e)
    /\ UNCHANGED <<ctxVars, event, network, writeVars, readVars, close_requested, app>>

MyClose(e) ==
    /\ app[e] = "open"
    /\ MayUse(e)
    /\ close_requested' = [close_requested EXCEPT ![e] = TRUE]
    /\ app' = [app EXCEPT ![e] = "closing"]
    /\ UNCHANGED <<ctxVars, event, network, writeVars, readVars, turn>>

(* myclose has joined the transport thread; freeing the context closes the   *)
(* TCP connection, which the peer's receive thread reports as ERROR.         *)
MyCloseReturns(e) ==
    /\ app[e] = "closing"
    /\ state[e] = "EXITED"
    /\ app' = [app EXCEPT ![e] = "closed"]
    /\ network' = NetworkSend(e, Pkt(e, "ERROR", 0, 0, 0))
    /\ UNCHANGED <<ctxVars, event, writeVars, readVars, close_requested, turn>>

-----------------------------------------------------------------------------
(* control_loop.  One iteration is one WaitForEvent and then one step for    *)
(* each bit of the event, in the order of the code: network, data, close.    *)

(* The bits stcp_wait_for_event would return to e: a close is reported       *)
(* whatever the flags, but only after all data of the application.           *)
Ready(e) ==
    {b \in EventBits :
        \/ b = "APP_DATA" /\ b \in event_chosen[e] /\ app_recv_queue[e] # {}
        \/ b = "NETWORK_DATA" /\ b \in event_chosen[e] /\ network[e] # <<>>
        \/ b = "APP_CLOSE_REQUESTED" /\ close_requested[e] /\ app_recv_queue[e] = {}}

WaitForEvent(e) ==
    /\ state[e] \in InControlLoop
    /\ event[e] = {}
    /\ Ready(e) # {}
    /\ event' = [event EXCEPT ![e] = Ready(e)]
    /\ close_requested' = [close_requested EXCEPT
                              ![e] = @ /\ "APP_CLOSE_REQUESTED" \notin Ready(e)]
    /\ UNCHANGED <<ctxVars, network, writeVars, readVars, app, turn>>

Handle(e, b) ==
    /\ state[e] \in InControlLoop
    /\ b \in event[e]
    /\ event' = [event EXCEPT ![e] = @ \ {b}]

(* A data packet: its payload goes up to the application and an ACK back.    *)
RecvData(e) ==
    LET p == Head(network[e]) IN
    /\ Handle(e, "NETWORK_DATA")
    /\ HeadIs(e, "DATA")
    /\ rcvd' = [rcvd EXCEPT ![e] = @ + p.len]
    /\ network' = NetworkRecvSend(e, Pkt(e, "ACK", isn[e], p.seq + p.len, 0))
    /\ isn' = [isn EXCEPT ![e] = @ + 1]
    /\ left' = [left EXCEPT ![e] = isn[e] + 1]
    /\ UNCHANGED <<state, send_wind, event_chosen, writeVars, read, eof_queued, eof,
                   appVars>>

AfterAckNoLastAck(s) == IF s = "FIN_WAIT" THEN "FIN_SENT_ACK_RECIEVED" ELSE s

AfterAckNoFinWait(s) == IF s = "LAST_ACK" THEN "DONE" ELSE s

AfterAckNoPeerFin(s) == IF s \in {"FIN_WAIT", "LAST_ACK"} THEN "DONE" ELSE s

(* Any ACK is taken for the FIN's in FIN_WAIT and ends the connection in     *)
(* LAST_ACK.                                                                 *)
AfterAck(s) ==
    CASE s = "FIN_WAIT" -> "FIN_SENT_ACK_RECIEVED"
      [] s = "LAST_ACK" -> "DONE"
      [] OTHER -> s

ReopenedNever(e, ack) == send_wind[e]

(* The window an ACK leaves: in FIN_WAIT isn is set to th_ack before the     *)
(* difference is taken, which is then 0.                                     *)
Reopened(e, ack) ==
    IF state[e] = "FIN_WAIT" THEN send_wind[e] ELSE send_wind[e] + ack - isn[e]

RecvAck(e) ==
    LET p == Head(network[e]) IN
    /\ Handle(e, "NETWORK_DATA")
    /\ HeadIs(e, "ACK")
    /\ network' = NetworkRecv(e)
    /\ state' = [state EXCEPT ![e] = AfterAck(@)]
    /\ IF state[e] = "LAST_ACK"
          THEN UNCHANGED <<isn, send_wind, event_chosen>>
          ELSE /\ isn' = [isn EXCEPT ![e] = p.ack]
               /\ send_wind' = [send_wind EXCEPT ![e] = Reopened(e, p.ack)]
               /\ event_chosen' = [event_chosen EXCEPT ![e] = ANY_EVENT]
    /\ UNCHANGED <<left, writeVars, readVars, appVars>>

(* A FIN in ESTABLISHED: it is acknowledged (with an uninitialised th_ack)   *)
(* and the application is told of the end of the stream.                     *)
RecvFirstFin(e, junk) ==
    /\ Handle(e, "NETWORK_DATA")
    /\ HeadIs(e, "FIN")
    /\ state[e] = "ESTABLISHED"
    /\ network' = NetworkRecvSend(e, Pkt(e, "ACK", left[e], junk, 0))
    /\ isn' = [isn EXCEPT ![e] = @ + 1]
    /\ left' = [left EXCEPT ![e] = @ + 1]
    /\ state' = [state EXCEPT ![e] = "CLOSE_WAIT"]
    /\ eof_queued' = [eof_queued EXCEPT ![e] = TRUE]
    /\ UNCHANGED <<send_wind, event_chosen, writeVars, rcvd, read, eof, appVars>>

(* The peer's FIN after the ACK of ours: acknowledge it and finish. *)
RecvLastFin(e, junk) ==
    /\ Handle(e, "NETWORK_DATA")
    /\ HeadIs(e, "FIN")
    /\ state[e] = "FIN_SENT_ACK_RECIEVED"
    /\ network' = NetworkRecvSend(e, Pkt(e, "ACK", left[e], junk, 0))
    /\ state' = [state EXCEPT ![e] = "DONE"]
    /\ UNCHANGED <<isn, left, send_wind, event_chosen, writeVars, readVars, appVars>>

(* A FIN in any other state, FIN_WAIT above all, is dropped without an ACK.  *)
DropFin(e) ==
    /\ Handle(e, "NETWORK_DATA")
    /\ HeadIs(e, "FIN")
    /\ state[e] \notin {"ESTABLISHED", "FIN_SENT_ACK_RECIEVED"}
    /\ network' = NetworkRecv(e)
    /\ UNCHANGED <<ctxVars, writeVars, readVars, appVars>>

(* The process of e stops; the kernel closes its TCP connection. *)
Fault(e, how) ==
    /\ state' = [state EXCEPT ![e] = how]
    /\ app' = [app EXCEPT ![e] = "closed"]
    /\ UNCHANGED <<isn, left, send_wind, event_chosen, writeVars, readVars,
                   close_requested, turn>>

(* The zero-length ERROR buffer is handled as data: memset of n1 - 20 bytes. *)
RecvError(e) ==
    /\ Handle(e, "NETWORK_DATA")
    /\ HeadIs(e, "ERROR")
    /\ network' = NetworkRecvSend(e, Pkt(e, "ERROR", 0, 0, 0))
    /\ Fault(e, "CRASHED")

(* m ends the oldest buffer of e's app_recv_queue. *)
FirstWriteEnds(e, m) ==
    /\ m \in app_recv_queue[e]
    /\ \A k \in app_recv_queue[e] : m <= k

(* stcp_app_recv of at most MIN(send_wind, MSS) bytes of the oldest buffer,  *)
(* sent as one packet; an empty result (closed window) sends nothing.        *)
SendAppData(e, m) ==
    LET n == MIN(MIN(send_wind[e], MSS), m - taken[e]) IN
    /\ "NETWORK_DATA" \notin event[e]
    /\ Handle(e, "APP_DATA")
    /\ send_wind[e] >= 0
    /\ FirstWriteEnds(e, m)
    /\ IF n = 0
          THEN UNCHANGED <<left, send_wind, event_chosen, network, taken, app_recv_queue>>
          ELSE /\ network' = NetworkSend(e, Pkt(e, "DATA", left[e], 0, n))
               /\ taken' = [taken EXCEPT ![e] = @ + n]
               /\ app_recv_queue' = [app_recv_queue EXCEPT
                                        ![e] = {k \in @ : k > taken[e] + n}]
               /\ left' = [left EXCEPT ![e] = @ + n]
               /\ send_wind' = [send_wind EXCEPT ![e] = @ - n]
               /\ event_chosen' = [event_chosen EXCEPT
                      ![e] = IF send_wind[e] = n THEN {"NETWORK_DATA"} ELSE @]
    /\ UNCHANGED <<state, isn, written, readVars, appVars>>

(* A negative window is converted to a huge size_t: the copy overruns. *)
SendNegativeWindow(e) ==
    /\ "NETWORK_DATA" \notin event[e]
    /\ Handle(e, "APP_DATA")
    /\ send_wind[e] < 0
    /\ network' = NetworkSend(e, Pkt(e, "ERROR", 0, 0, 0))
    /\ Fault(e, "CRASHED")

SendFin(e) ==
    /\ event[e] = {"APP_CLOSE_REQUESTED"}
    /\ Handle(e, "APP_CLOSE_REQUESTED")
    /\ network' = NetworkSend(e, Pkt(e, "FIN", left[e], 0, 0))
    /\ left' = [left EXCEPT ![e] = @ + 1]
    /\ state' = [state EXCEPT ![e] =
                    IF @ = "CLOSE_WAIT" THEN "LAST_ACK" ELSE "FIN_WAIT"]
    /\ UNCHANGED <<isn, send_wind, event_chosen, writeVars, readVars, appVars>>

(* control_loop and transport_init return; transport_thread_func queues the  *)
(* final end-of-file.                                                        *)
TransportExit(e) ==
    /\ state[e] = "DONE"
    /\ state' = [state EXCEPT ![e] = "EXITED"]
    /\ eof_queued' = [eof_queued EXCEPT ![e] = TRUE]
    /\ UNCHANGED <<isn, left, send_wind, event_chosen, event, network, writeVars,
                   rcvd, read, eof, appVars>>

(* Environment: the process of e is killed while its TCP connection is up. *)
Kill(e) ==
    /\ e \in Killable
    /\ state["active"] # "CLOSED"
    /\ state[e] \notin {"EXITED", "CRASHED", "KILLED"}
    /\ network' = NetworkSend(e, Pkt(e, "ERROR", 0, 0, 0))
    /\ Fault(e, "KILLED")
    /\ UNCHANGED event

-----------------------------------------------------------------------------

(* The steps of the transport thread of each end. *)
Handshake ==
    SendSyn \/ RecvSynSendSynAck \/ RecvSynAckSendAck \/ RecvHandshakeAck

ControlLoop(e) ==
    \/ WaitForEvent(e)
    \/ RecvData(e)
    \/ RecvAck(e)
    \/ \E junk \in Junk : RecvFirstFin(e, junk) \/ RecvLastFin(e, junk)
    \/ DropFin(e)
    \/ RecvError(e)
    \/ \E m \in app_recv_queue[e] : SendAppData(e, m)
    \/ SendNegativeWindow(e)
    \/ SendFin(e)
    \/ TransportExit(e)

(* The calls the application makes of its own accord, and the ones it always *)
(* gets to: it reads what there is, closes after end-of-file and comes back  *)
(* from myclose.                                                             *)
AppCalls(e) ==
    \/ \E n \in WriteSizes : MyWrite(e, n)
    \/ MyClose(e)
    \/ PassTurn(e)

AppReads(e) ==
    \/ \E n \in 1 .. (rcvd[e] - read[e]) : MyRead(e, n)
    \/ MyReadEof(e)

Next ==
    \/ Handshake
    \/ \E e \in Ends :
          \/ ControlLoop(e)
          \/ AppCalls(e)
          \/ AppReads(e)
          \/ MyCloseReturns(e)
          \/ Kill(e)

Spec == Init /\ [][Next]_vars

(* The threads are scheduled (pthreads), and client.c and server.c read      *)
(* until end-of-file and then call myclose.                                  *)
Fairness ==
    /\ WF_vars(Handshake)
    /\ \A e \in Ends :
          /\ WF_vars(ControlLoop(e))
          /\ WF_vars(AppReads(e))
          /\ WF_vars(eof[e] /\ MyClose(e))
          /\ WF_vars(MyCloseReturns(e))

FairSpec == Spec /\ Fairness

-----------------------------------------------------------------------------
(* Properties. *)

CtxTypeOK ==
    /\ state \in [Ends -> States]
    /\ isn \in [Ends -> Int]
    /\ left \in [Ends -> Int]
    /\ send_wind \in [Ends -> Int]
    /\ event_chosen \in [Ends -> SUBSET ANY_EVENT]

EventTypeOK == event \in [Ends -> SUBSET EventBits]

NetworkTypeOK == network \in [Ends -> Seq(Packet)]

WriteTypeOK ==
    /\ app_recv_queue \in [Ends -> SUBSET Nat]
    /\ written \in [Ends -> Nat]
    /\ taken \in [Ends -> Nat]
    /\ \A e \in Ends : app_recv_queue[e] \subseteq (taken[e] + 1) .. written[e]
    /\ \A e \in Ends : taken[e] <= written[e]

ReadTypeOK ==
    /\ rcvd \in [Ends -> Nat]
    /\ read \in [Ends -> Nat]
    /\ \A e \in Ends : read[e] <= rcvd[e]
    /\ eof_queued \in [Ends -> BOOLEAN]
    /\ eof \in [Ends -> BOOLEAN]

AppTypeOK ==
    /\ close_requested \in [Ends -> BOOLEAN]
    /\ app \in [Ends -> {"blocked", "open", "closing", "closed"}]
    /\ turn \in Ends

(* Every variable keeps to the values the code can store in it; the counters *)
(* of the byte streams are ordered: what is queued has been written and not  *)
(* taken, what is read has been received.                                    *)
TypeOK ==
    CtxTypeOK /\ EventTypeOK /\ NetworkTypeOK /\ WriteTypeOK /\ ReadTypeOK /\ AppTypeOK

(* Whatever the two applications do, the packets on the wire continue each   *)
(* other: the first one starts where the receiving application's stream      *)
(* ends and the last one ends where the sender has got to.  No byte is lost, *)
(* repeated or reordered by segmentation, partial dequeues or a crash.       *)
StreamIntact ==
    \A e \in Ends :
        LET q == network[Peer(e)] IN
        IF q = <<>>
          THEN rcvd[Peer(e)] = taken[e]
          ELSE /\ q[1].off = rcvd[Peer(e)]
               /\ q[Len(q)].off + q[Len(q)].len = taken[e]
               /\ \A i \in 1 .. (Len(q) - 1) : q[i].off + q[i].len = q[i+1].off

(* myread reports end-of-file only after every byte the peer ever wrote has  *)
(* been queued for reading, and only if the peer has closed.                 *)
EofMeansAll ==
    \A e \in Ends : eof_queued[e] =>
        /\ rcvd[e] = written[Peer(e)]
        /\ app[Peer(e)] \in {"closing", "closed"}

(* mysock.c: "transport_init() has returned; both sides have closed the      *)
(* connection": a transport that finishes has sent all of its application's  *)
(* data, has received all of the peer's, and both applications have closed.  *)
DoneMeansBothClosed ==
    \A e \in Ends : state[e] \in {"DONE", "EXITED"} =>
        /\ taken[e] = written[e]
        /\ rcvd[e] = written[Peer(e)]
        /\ app[e] # "open"
        /\ app[Peer(e)] \in {"closing", "closed"}

(* Closing loses nothing: the end of a stream is reported, and the end of a  *)
(* transport reached, only after all bytes of both applications.             *)
ClosingLosesNothing == EofMeansAll /\ DoneMeansBothClosed

(* The sender never has more than a window of bytes that the receiver has    *)
(* not taken yet, whatever the two directions do to each other's counters.   *)
WindowRespected == \A e \in Ends : taken[e] - rcvd[Peer(e)] <= SWS

(* In request/response use, once everything an established end sent has been *)
(* received and acknowledged, its window is whole again: no exchange leaks   *)
(* window.                                                                   *)
WindowRestored ==
    \A e \in Ends :
        /\ state[e] = "ESTABLISHED"
        /\ \A i \in DOMAIN network[Peer(e)] : network[Peer(e)][i].flags # "DATA"
        /\ \A i \in DOMAIN network[e] : network[e][i].flags # "ACK"
        => send_wind[e] = SWS

(* In request/response use no process runs into the ERROR buffer of a closed *)
(* connection or a negative window.                                          *)
NoCrash == \A e \in Ends : state[e] # "CRASHED"

(* An exchange in turns leaves nothing behind: the state is well-formed,     *)
(* the window is whole again and no process has stopped.                     *)
ExchangesClean == TypeOK /\ WindowRestored /\ NoCrash

(* A call of myclose returns. *)
CloseTerminates == \A e \in Ends : app[e] = "closing" ~> app[e] = "closed"

(* Every byte passed to mywrite reaches the peer's application queue. *)
WritesDelivered ==
    \A e \in Ends : \A n \in 1 .. MaxBytes(e) :
        written[e] >= n ~> rcvd[Peer(e)] >= n

=============================================================================
