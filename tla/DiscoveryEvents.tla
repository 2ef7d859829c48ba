---------------------------- MODULE DiscoveryEvents ----------------------------
(***************************************************************************)
(* openflow.discovery: the handlers that add and delete links, and tell    *)
(* the listeners of LinkEvent.                                             *)
(***************************************************************************)
EXTENDS Discovery

CONSTANT RaiseLinkEvent(_, _, _)   \* raiseEvent for a LinkEvent (st, added, link),
                                   \* with the exceptions of its listeners

(* Deletions stop at the first listener that raises, and at a link that a  *)
(* listener's own deletions have taken away already (KeyError).            *)
_deleteLinks(st, links) ==
    LET delete(before, link) ==
            IF before.raised THEN before
            ELSE IF link \notin DOMAIN before.c.adjacency THEN Raises(before)
            ELSE RaiseLinkEvent([before EXCEPT !.c.adjacency = [l \in DOMAIN @ \ {link} |-> @[l]]], FALSE, link)
    IN  Each(delete, st, links)

DiscoveryConnectionDown(st, dpid) ==
    IF dpid \notin st.c.dps THEN Raises(st)
    ELSE _deleteLinks(delSwitch([st EXCEPT !.c.dps = @ \ {dpid}], dpid),
            InDictOrder(st, {l \in DOMAIN st.c.adjacency : dpid \in {l[1], l[3]}}))

(* Called at every period: the ages grow by one before they are compared.  *)
_expireLinks(st) ==
    LET older == [l \in DOMAIN st.c.adjacency |-> st.c.adjacency[l] + 1]
    IN  _deleteLinks([st EXCEPT !.c.adjacency = older],
            InDictOrder(st, {l \in DOMAIN older : older[l] > LinkTimeout}))

(* The guards in the order of the code; every return but the last leaves   *)
(* the event to the other listeners.                                       *)
DiscoveryPacketIn(st, ev) ==
    LET tlvs == ev.packet.tlvs
        dpid == OriginatorDPID(tlvs)
        port == OriginatorPort(tlvs[2])
        link == <<dpid, port, ev.dpid, ev.port>>
        stamped == [st EXCEPT !.c.adjacency = (link :> 0) @@ @]
    IN  IF \/ ev.packet.type # "lldp"
           \/ ev.packet.dst # "ndp"
           \/ ~ev.packet.parsed
           \/ Len(tlvs) < 3
           \/ <<tlvs[1].tlv, tlvs[2].tlv, tlvs[3].tlv>> # <<"chassis_id", "port_id", "ttl">>
           \/ dpid = NoNumber
           \/ dpid \notin st.c.dps
           \/ tlvs[2].subtype # "port"
           \/ port = NoNumber
           \/ <<ev.dpid, ev.port>> = <<dpid, port>>
        THEN st
        ELSE Returns(IF link \in DOMAIN st.c.adjacency THEN stamped
                     ELSE [RaiseLinkEvent(stamped, TRUE, link) EXCEPT !.raised = FALSE], EventHalt)
================================================================================
