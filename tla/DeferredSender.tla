--------------------------- MODULE DeferredSender ---------------------------
(***************************************************************************)
(* Sending on OpenFlow connections (of_01.py): Connection.send() writes to *)
(* the socket itself, unless the deferred sender is active; what the       *)
(* socket does not take is queued for the thread of class DeferredSender,  *)
(* in slices of PIPE_BUF bytes.  The flag "sending" is read by send()      *)
(* without the lock.  send() is called by the cooperative thread and, on a *)
(* connection that carries a VNS session, by Twisted's reactor thread too  *)
(* (srhandler.py raises SRPacketOut, whose listener ofhandler.py sends a   *)
(* packet_out).  The cooperative thread also closes connections (the peer  *)
(* hung up), which closes the socket but neither marks the connection as   *)
(* disconnected nor removes its queue.                                     *)
(*                                                                         *)
(* The bytes a caller gives to send() on a connection are numbered 1, 2,   *)
(* 3, ...; a slice says whose bytes it has.  Out-of-band data, the only    *)
(* reason for the error list of select() to hold a socket, is not part of  *)
(* OpenFlow and left out.                                                  *)
(***************************************************************************)
EXTENDS Integers, Sequences, FiniteSets, Functions

CONSTANTS Cons,      \* connections
          Callers,   \* the threads that call send()
          Coop,      \* the cooperative thread, one of them
          Shared,    \* connections the other callers send on as well
          NoCon,     \* no connection
          Sizes,     \* lengths of the messages passed to send()
          PIPE_BUF,  \* size of a slice
          SockBuf,   \* capacity of a socket's send buffer
          MaxBytes   \* bound on the bytes one caller sends

ASSUME DeferredAssumption ==
    /\ PIPE_BUF \in Nat \ {0} /\ SockBuf \in Nat \ {0} /\ MaxBytes \in Nat
    /\ Sizes \subseteq Nat \ {0} /\ NoCon \notin Cons
    /\ Coop \in Callers /\ Shared \subseteq Cons

VARIABLES given,         \* given[c][t]: bytes t has passed to send() so far
          out,           \* out[c][t]: the bytes of t the socket took, in order
          room,          \* room[c]: free space in the send buffer
          reset,         \* reset[c]: the peer is gone, writes fail
          closed,        \* closed[c]: Connection.close() was called
          disconnected,  \* disconnected[c]
          sending,       \* DeferredSender.sending
          queue,         \* _dataForConnection: a set of connections with slices
          lock,          \* holder of DeferredSender._lock
          call,          \* call[t]: what caller t is doing in send()
          snd            \* what the sender thread is doing

vars == <<given, out, room, reset, closed, disconnected, sending, queue, lock, call, snd>>

Idle == [at |-> "idle"]
Init ==
    /\ given = [c \in Cons |-> [t \in Callers |-> 0]]
    /\ out = [c \in Cons |-> [t \in Callers |-> <<>>]]
    /\ room = [c \in Cons |-> SockBuf]
    /\ reset = [c \in Cons |-> FALSE]
    /\ closed = [c \in Cons |-> FALSE]
    /\ disconnected = [c \in Cons |-> FALSE]
    /\ sending = FALSE
    /\ queue = [c \in {} |-> <<>>]
    /\ lock = "free"
    /\ call = [t \in Callers |-> Idle]
    /\ snd = [at |-> "keys"]

Upto(m, n) == [i \in 1 .. n - m |-> m + i]
Least(m, n) == IF m < n THEN m ELSE n
Without(q, c) == [d \in DOMAIN q \ {c} |-> q[d]]

(* _sliceup(data): slices of PIPE_BUF bytes and the rest. *)
SliceCount(data) == (Len(data) + PIPE_BUF - 1) \div PIPE_BUF
_sliceup(t, data) ==
    [i \in 1 .. SliceCount(data) |->
        [by |-> t,
         data |-> SubSeq(data, (i - 1) * PIPE_BUF + 1, Least(i * PIPE_BUF, Len(data)))]]

Broken(c) == reset[c] \/ closed[c]
Queued(c) == IF c \in DOMAIN queue THEN queue[c] ELSE <<>>

(* The threads that call send() on connection c. *)
Users(c) == IF c \in Shared THEN Callers ELSE {Coop}

(* What thread t has given to send() on all connections. *)
GivenBy(t) == FoldFunction(+, 0, [c \in Cons |-> given[c][t]])

-----------------------------------------------------------------------------
(* Connection.send(), called by thread t. *)

SendChecksNothing(t, c, n) ==
    /\ call[t].at = "idle"
    /\ t \in Users(c)
    /\ GivenBy(t) + n <= MaxBytes
    /\ given' = [given EXCEPT ![c][t] = @ + n]
    /\ call' = [call EXCEPT ![t] = [at |-> "direct", con |-> c,
                                    data |-> Upto(given[c][t], given[c][t] + n)]]
    /\ UNCHANGED <<out, room, reset, closed, disconnected, sending, queue, lock, snd>>
(* send(data) up to the test of deferredSender.sending. *)
SendStart(t, c, n) ==
    /\ call[t].at = "idle"
    /\ t \in Users(c)
    /\ ~ disconnected[c]
    /\ GivenBy(t) + n <= MaxBytes
    /\ given' = [given EXCEPT ![c][t] = @ + n]
    /\ call' = [call EXCEPT ![t] = [at |-> IF sending THEN "defer" ELSE "direct", con |-> c,
                                    data |-> Upto(given[c][t], given[c][t] + n)]]
    /\ UNCHANGED <<out, room, reset, closed, disconnected, sending, queue, lock, snd>>

(* self.sock.send(data) takes l bytes; what is left, or all of it when the *)
(* socket would block, goes to the deferred sender.  Between the two       *)
(* another thread may write.                                               *)
SendDirect(t) ==
    /\ call[t].at = "direct"
    /\ ~ Broken(call[t].con)
    /\ LET c == call[t].con
           data == call[t].data
           l == Least(Len(data), room[c])
       IN  /\ out' = [out EXCEPT ![c][t] = @ \o SubSeq(data, 1, l)]
           /\ room' = [room EXCEPT ![c] = @ - l]
           /\ call' = [call EXCEPT ![t] =
                          IF l = Len(data) THEN Idle
                          ELSE [at |-> "defer", con |-> c,
                                data |-> SubSeq(data, l + 1, Len(data))]]
    /\ UNCHANGED <<given, reset, closed, disconnected, sending, queue, lock, snd>>

(* Any other socket error: disconnect(). *)
SendFails(t) ==
    /\ call[t].at = "direct"
    /\ Broken(call[t].con)
    /\ disconnected' = [disconnected EXCEPT ![call[t].con] = TRUE]
    /\ call' = [call EXCEPT ![t] = Idle]
    /\ UNCHANGED <<given, out, room, reset, closed, sending, queue, lock, snd>>

DeferForgetsFlag(t) ==
    /\ call[t].at = "defer" /\ lock = "free"
    /\ LET c == call[t].con
       IN  queue' = [d \in DOMAIN queue \union {c} |->
                        IF d = c THEN Queued(c) \o _sliceup(t, call[t].data) ELSE queue[d]]
    /\ call' = [call EXCEPT ![t] = Idle]
    /\ UNCHANGED <<given, out, room, reset, closed, disconnected, sending, lock, snd>>
(* DeferredSender.send(con, data), under the lock. *)
Defer(t) ==
    /\ call[t].at = "defer" /\ lock = "free"
    /\ sending' = TRUE
    /\ LET c == call[t].con
       IN  queue' = [d \in DOMAIN queue \union {c} |->
                        IF d = c THEN Queued(c) \o _sliceup(t, call[t].data) ELSE queue[d]]
    /\ call' = [call EXCEPT ![t] = Idle]
    /\ UNCHANGED <<given, out, room, reset, closed, disconnected, lock, snd>>

(* OpenFlow_01_Task: the peer is gone, so read() is FALSE or raises, and   *)
(* the connection is closed.                                               *)
Close(c) ==
    /\ call[Coop].at = "idle"
    /\ reset[c] /\ ~ closed[c]
    /\ closed' = [closed EXCEPT ![c] = TRUE]
    /\ UNCHANGED <<given, out, room, reset, disconnected, sending, queue, lock, call, snd>>

-----------------------------------------------------------------------------
(* The thread of DeferredSender.run(). *)

(* cons = self._dataForConnection.keys(), under the lock. *)
SenderKeys ==
    /\ snd.at = "keys" /\ lock = "free"
    /\ snd' = [at |-> "select", cons |-> DOMAIN queue]
    /\ UNCHANGED <<given, out, room, reset, closed, disconnected, sending, queue, lock, call>>

(* select() asks every connection for its file number, which raises for a  *)
(* closed socket; nothing catches that and the thread ends.  Otherwise it  *)
(* returns the writable ones (none after the timeout), and the lock is     *)
(* taken for the whole of the loop over them.                              *)
SenderSelect ==
    /\ snd.at = "select"
    /\ IF \E c \in snd.cons : closed[c]
       THEN /\ snd' = [at |-> "dead"]
            /\ UNCHANGED lock
       ELSE /\ lock = "free"
            /\ lock' = "sender"
            /\ snd' = [at |-> "write", cur |-> NoCon,
                       wlist |-> {c \in snd.cons : room[c] > 0 \/ reset[c]}]
    /\ UNCHANGED <<given, out, room, reset, closed, disconnected, sending, queue, call>>

(* del alldata[0] of a slice taken whole, alldata[0] = data[l:] of another. *)
TakeBytes(slices, l) ==
    LET data == Head(slices).data
    IN  IF l = Len(data) THEN Tail(slices)
        ELSE [slices EXCEPT ![1].data = SubSeq(data, l + 1, Len(data))]

(* The loop is at connection c: it finishes one before it takes another. *)
At(c) ==
    /\ snd.at = "write" /\ c \in snd.wlist /\ c \in DOMAIN queue
    /\ snd.cur \in {c, NoCon}
DoneWith(c) == [snd EXCEPT !.wlist = @ \ {c}, !.cur = NoCon]

(* con.sock.send(data) with the first slice of c: a slice that was taken   *)
(* whole is deleted and the next one tried, one that was cut, or a full    *)
(* socket, ends the loop over the slices.  A connection without data is    *)
(* deleted, and the flag lowered when it was the last.                     *)
SenderWrite(c) ==
    /\ At(c) /\ ~ Broken(c)
    /\ LET who == Head(queue[c]).by
           first == Head(queue[c]).data
           l == Least(Len(first), room[c])
           rest == TakeBytes(queue[c], l)
           q == IF rest = <<>> THEN Without(queue, c) ELSE [queue EXCEPT ![c] = rest]
       IN  /\ out' = [out EXCEPT ![c][who] = @ \o SubSeq(first, 1, l)]
           /\ room' = [room EXCEPT ![c] = @ - l]
           /\ queue' = q
           /\ sending' = (sending /\ DOMAIN q # {})
           /\ snd' = IF l = Len(first) /\ rest # <<>> THEN [snd EXCEPT !.cur = c]
                     ELSE DoneWith(c)
    /\ UNCHANGED <<given, reset, closed, disconnected, lock, call>>

(* A socket error: disconnect and forget the data. *)
SenderError(c) ==
    /\ At(c) /\ Broken(c)
    /\ disconnected' = [disconnected EXCEPT ![c] = TRUE]
    /\ queue' = Without(queue, c)
    /\ snd' = DoneWith(c)
    /\ UNCHANGED <<given, out, room, reset, closed, sending, lock, call>>

KeysReadOnce ==
    /\ snd.at = "write" /\ snd.wlist = {}
    /\ lock' = "free"
    /\ snd' = [at |-> "select", cons |-> {}]
    /\ UNCHANGED <<given, out, room, reset, closed, disconnected, sending, queue, call>>
SenderUnlock ==
    /\ snd.at = "write" /\ snd.wlist = {}
    /\ lock' = "free"
    /\ snd' = [at |-> "keys"]
    /\ UNCHANGED <<given, out, room, reset, closed, disconnected, sending, queue, call>>

-----------------------------------------------------------------------------
(* The network: the peer reads from a connection, or goes away. *)

Drain(c) ==
    /\ room[c] < SockBuf /\ ~ Broken(c)
    /\ room' = [room EXCEPT ![c] = SockBuf]
    /\ UNCHANGED <<given, out, reset, closed, disconnected, sending, queue, lock, call, snd>>

Reset(c) ==
    /\ ~ reset[c]
    /\ reset' = [reset EXCEPT ![c] = TRUE]
    /\ UNCHANGED <<given, out, room, closed, disconnected, sending, queue, lock, call, snd>>

SocketWrite(t) == SendDirect(t) \/ SendFails(t)
Sender == SenderKeys \/ SenderSelect \/ SenderUnlock
          \/ \E c \in Cons : SenderWrite(c) \/ SenderError(c)

Next ==
    \/ \E t \in Callers, c \in Cons, n \in Sizes : SendStart(t, c, n)
    \/ \E t \in Callers : SendDirect(t) \/ SendFails(t) \/ Defer(t)
    \/ SenderKeys
    \/ SenderSelect
    \/ SenderUnlock
    \/ \E c \in Cons : SenderWrite(c) \/ SenderError(c) \/ Close(c) \/ Drain(c) \/ Reset(c)

(* A call of send() returns, the sender thread is scheduled (select() has  *)
(* a timeout of a second) and does not hold the lock while it waits, so    *)
(* that send() gets it in the end, and a peer that is there reads.         *)
Spec ==
    /\ Init /\ [][Next]_vars
    /\ \A t \in Callers : WF_vars(SocketWrite(t)) /\ SF_vars(Defer(t))
    /\ WF_vars(Sender)
    /\ \A c \in Cons : WF_vars(Drain(c))

-----------------------------------------------------------------------------
TypeOK ==
    /\ given \in [Cons -> [Callers -> 0 .. MaxBytes]]
    /\ room \in [Cons -> 0 .. SockBuf]
    /\ DOMAIN queue \subseteq Cons /\ \A c \in DOMAIN queue : queue[c] # <<>>
    /\ lock \in {"free", "sender"}
    /\ \A t \in Callers : call[t].at \in {"idle", "direct", "defer"}
    /\ snd.at \in {"keys", "select", "write", "dead"}

(* What a caller gives to send() on a connection reaches the socket in     *)
(* that order, with no byte skipped or repeated, although the sender's     *)
(* thread writes to it too and the flag that keeps them apart is read      *)
(* without the lock.  On a connection that is not shared this is the whole *)
(* stream; on one that is, bytes of the other caller may stand between the *)
(* parts of a message that was not taken in one write.                     *)
InOrder == \A c \in Cons, t \in Callers : out[c][t] = Upto(0, Len(out[c][t]))

(* When the flag is down no data waits: otherwise a direct write would     *)
(* overtake what its own caller gave before.                               *)
FlagCoversQueue == ~ sending => DOMAIN queue = {}

(* Unless its connection breaks, all that a caller gave to send() reaches  *)
(* the socket once the caller pauses (it sends MaxBytes at most); the one  *)
(* other reason is that a connection with queued data was closed, which    *)
(* ends the sender thread for all of them.                                 *)
EventuallySent ==
    \A c \in Cons : \A t \in Users(c) :
        []<>(\/ Len(out[c][t]) = given[c][t]
             \/ Broken(c)
             \/ \E d \in DOMAIN queue : closed[d])
=============================================================================
