--------------------------- MODULE OpenFlowStream ---------------------------
(***************************************************************************)
(* One direction of an OpenFlow connection: the writer packs objects into  *)
(* the TCP stream, recv() hands the reader chunks that are cut anywhere,   *)
(* and the reader's loop finds the messages in its buffer, unpacks them    *)
(* and calls their handlers.  The reader is the controller                 *)
(* (of_01.Connection.read) or the software switch                          *)
(* (switch_impl.ControllerConnection.read behind an I/O worker).           *)
(***************************************************************************)
EXTENDS OpenFlowCodec, FiniteSets

CONSTANTS Messages,  \* names of the objects that are sent
          Obj,       \* Obj[m]: the object, before pack()
          ReaderOf,  \* ReaderOf[m]: the end that m is sent to
          Chunks,    \* what one recv() may return at most
          Taken,     \* what the socket may take at most from the I/O loop
          Second     \* bound: Second[m] is what may be sent behind m, once

VARIABLES reader,    \* "controller" or "switch"
          sent,      \* names of the messages sent (history)
          send_buf,  \* bytes the switch's I/O worker has not written yet
          wire,      \* bytes in the socket
          buf,       \* the receive buffer
          got,       \* objects handed to handlers (history)
          open,      \* the connection has not been closed by the reader
          raised     \* the last read() ended in an exception of a handler

vars == <<reader, sent, send_buf, wire, buf, got, open, raised>>

Init ==
    /\ reader \in {"controller", "switch"}
    /\ sent = <<>> /\ send_buf = <<>> /\ wire = <<>> /\ buf = <<>> /\ got = <<>>
    /\ open = TRUE
    /\ raised = FALSE

(* The bytes of each message. *)
Packed == LET objects == Obj IN [m \in Messages |-> pack(objects[m])]

(* Connection.send(): pack() and the whole of the bytes to the socket (the *)
(* rest of them, when the socket is full, is DeferredSender's).            *)
ConnectionSend(m) ==
    /\ reader = "switch" /\ open
    /\ ReaderOf[m] = "switch"
    /\ sent' = Append(sent, m)
    /\ wire' = wire \o Packed[m]
    /\ UNCHANGED <<reader, send_buf, buf, got, open, raised>>

(* ControllerConnection.send(): pack() and IOWorker.send(). *)
ControllerConnectionSend(m) ==
    /\ reader = "controller" /\ open
    /\ ReaderOf[m] = "controller"
    /\ sent' = Append(sent, m)
    /\ send_buf' = send_buf \o Packed[m]
    /\ UNCHANGED <<reader, wire, buf, got, open, raised>>

_consume_send_buf(l) == From(send_buf, l)

(* RecocoIOLoop.run() finds the worker ready to send: the socket takes l   *)
(* bytes, or reports that the other end is gone, and the worker is closed. *)
IOLoopWrite(n) ==
    /\ send_buf # <<>>
    /\ LET l == IF n < Len(send_buf) THEN n ELSE Len(send_buf)
       IN  IF open THEN /\ wire' = wire \o SubSeq(send_buf, 1, l)
                        /\ send_buf' = _consume_send_buf(l)
           ELSE send_buf' = <<>> /\ UNCHANGED wire
    /\ UNCHANGED <<reader, sent, buf, got, open, raised>>

Received(k) == IF k < Len(wire) THEN k ELSE Len(wire)

(* Connection.read(): recv(2048) and the loop; FALSE or an exception makes *)
(* OpenFlow_01_Task close the connection.                                  *)
ConnectionRead ==
    /\ reader = "controller" /\ open /\ wire # <<>>
    /\ \E n \in {Received(k) : k \in Chunks} :
       \E r \in {ReadLoop(buf \o SubSeq(wire, 1, n), reader)} :
           /\ buf' = r.buf
           /\ got' = got \o r.msgs
           /\ open' = r.ok
           /\ wire' = From(wire, n)
    /\ UNCHANGED <<reader, sent, send_buf, raised>>

(* _push_receive_data(): the worker appends what it received and calls     *)
(* ControllerConnection.read(), which returns when a handler raises and    *)
(* leaves the messages behind it for the next call.                        *)
_push_receive_data(data) == ReadLoop(buf \o data, "switch")

(* RecocoIOLoop.run() finds the worker ready to be read. *)
IOLoopRead ==
    /\ reader = "switch" /\ open /\ wire # <<>>
    /\ \E n \in {Received(k) : k \in Chunks} :
       \E r \in {_push_receive_data(SubSeq(wire, 1, n))} :
           /\ buf' = r.buf
           /\ got' = got \o r.msgs
           /\ open' = r.ok
           /\ raised' = r.raised
           /\ wire' = From(wire, n)
    /\ UNCHANGED <<reader, sent, send_buf>>

MaySend ==
    CASE Len(sent) = 0 -> Messages
      [] Len(sent) = 1 -> Second[sent[1]]
      [] OTHER -> {}

Next ==
    \/ \E m \in MaySend : ConnectionSend(m) \/ ControllerConnectionSend(m)
    \/ \E n \in Taken : IOLoopWrite(n)
    \/ ConnectionRead
    \/ IOLoopRead

Spec == Init /\ [][Next]_vars

-----------------------------------------------------------------------------
(* What the reader should see of an object: pack()'s own assignments, the  *)
(* word for "no buffer" turned back, and the parts unpack() does not read  *)
(* (the data of an error, the queues of a configuration) missing.          *)
AsReceived(object) ==
    LET body(o) == Concat([i \in DOMAIN o.subs |-> Write(o.subs[i])]) \o o.data
        seen(o) ==
            CASE o.cls \in {"ofp_stats_request", "ofp_stats_reply", "ofp_vendor"} ->
                   [o EXCEPT !.subs = <<>>, !.data = body(o)]
              [] o.cls = "ofp_error" -> [o EXCEPT !.data = <<>>]
              [] o.cls = "ofp_queue_get_config_reply" -> [o EXCEPT !.subs = <<>>]
              [] OTHER -> [o EXCEPT !.val = [f \in DOMAIN o.val |->
                                IF o.val[f] = Ones THEN Num(-1) ELSE o.val[f]]]
    IN  Apply(seen, Prepared(object))

ReceivedAs == LET objects == Obj IN [m \in Messages |-> AsReceived(objects[m])]
Receivable == LET r == ReceivedAs IN {r[m] : m \in Messages}

(* A complete message waits in the buffer only when the handler of an      *)
(* earlier one raised in the switch, or the connection was closed.         *)
NothingLeftBehind ==
    (Len(buf) > 4 /\ open /\ ~ raised) => AsNat(ReadField(buf, 2, 2)) > Len(buf)

(* The bodies handed over divide into the objects that were packed into    *)
(* them: the entries of statistics, flows with their actions included, and *)
(* the roles in Nicira's vendor messages.                                  *)
BodiesParse ==
    \A i \in DOMAIN got : \A packed \in {Prepared(Obj[sent[i]]).subs} :
        /\ got[i].cls = "ofp_stats_reply" =>
              \A type \in {AsNat(got[i].val["type"])} \intersect DOMAIN stats_class :
                  _processStatsBody(got[i].data, stats_class[type]) = packed
        /\ (got[i].cls = "ofp_vendor" /\ packed # <<>> /\ packed[1].cls # "nx_data")
              => unpack_vendor_data_nx(got[i].data) = [ok |-> TRUE, obj |-> packed[1]]

(* The objects handed to the handlers are those that were sent, in order:  *)
(* the connection implements MessageFifo.                                  *)
Fifo == INSTANCE MessageFifo
            WITH Objects <- Receivable,
                 sent <- [i \in DOMAIN sent |-> ReceivedAs[sent[i]]]
ImplementsFifo == Fifo!Spec
=============================================================================
