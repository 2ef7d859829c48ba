------------------------------ MODULE ArpRouter ------------------------------
(* The software router (Project-4/router): the thread that handles packets    *)
(* (sr_router.c) and the thread that ages the ARP cache and repeats requests  *)
(* (sr_arpcache.c), around one ARP cache and one list of requests, each with  *)
(* the packets that wait for its answer.  The route of a packet is the result *)
(* of RouteLookup and is a constant here.                                     *)
(*                                                                            *)
(* One step is what a thread does between taking and releasing cache->lock;   *)
(* handle_arpreq, which sr_handlepacket calls without the lock, is two.       *)
EXTENDS Integers, Sequences, FiniteSets, Functions

CONSTANTS
    Packets,       \* IP packets, each received once
    Addrs,         \* IP addresses as 32-bit words
    Macs,          \* Ethernet addresses
    Ntohl,         \* Ntohl[a]: the bytes of a in reverse order
    Hop,           \* Hop[p]: longs->dest in network byte order, or Unrouted
    Unrouted,      \* no route matches
    ToRouter,      \* packets for an address of the router
    Icmp,          \* packets with ip_protocol_icmp
    LastHop,       \* packets with a TTL of 1
    Announcements, \* ARP replies that hosts may send: records [ip, mac]
    MaxArps,       \* bound: ARP packets that arrive
    SR_ARPCACHE_SZ,
    SR_ARPCACHE_TO,
    MaxSends,      \* ARP requests sent before giving up (5 in the code)
    MaxTime,       \* bound of the clock
    None           \* a null pointer, or nothing in hand

Routed == {p \in Packets : Hop[p] # Unrouted}

ASSUME RouterAssumption ==
    /\ Ntohl \in [Addrs -> Addrs]
    /\ \A a \in Addrs : Ntohl[Ntohl[a]] = a
    /\ Hop \in [Packets -> Addrs \cup {Unrouted}]
    /\ Unrouted \notin Addrs
    /\ ToRouter \subseteq Routed /\ Icmp \subseteq Packets /\ LastHop \subseteq Packets
    /\ Announcements \subseteq [ip : Addrs, mac : Macs]
    /\ MaxArps \in Nat
    /\ SR_ARPCACHE_SZ \in Nat /\ SR_ARPCACHE_TO \in Nat
    /\ MaxSends \in Nat /\ MaxTime \in Nat /\ MaxTime >= 2   \* the clock starts at 2
    /\ IsFiniteSet(Packets)
    /\ None \notin Packets /\ None \notin Nat

(* Each packet creates at most one request. *)
Reqs == 1 .. Cardinality(Packets)
Entries == 1 .. SR_ARPCACHE_SZ

VARIABLES
    now,         \* time(NULL)
    arriving,    \* packets that have not been received
    main,        \* where the packet thread is
    packet,      \* the packet it handles
    hop,         \* longs->dest of that packet
    req,         \* the request it holds a pointer to
    reply,       \* the ARP reply it handles
    rest,        \* waiting packets that reply has still to release
    entries,     \* cache->entries
    requests,    \* cache->requests, first element first
    heap,        \* the sr_arpreq structures
    sweep,       \* where the time-out thread is
    start,       \* the request it is at
    woken,       \* when it last went to sleep
    out,         \* what has been sent on behalf of each packet
    announced,   \* the ARP replies received so far
    arps         \* number of ARP packets received

mainVars == <<arriving, main, packet, hop, req, reply, rest, announced, arps>>
cacheVars == <<entries, requests, heap>>
sweepVars == <<sweep, start, woken>>
vars == <<now, mainVars, cacheVars, sweepVars, out>>

Unused == [live |-> FALSE, ip |-> None, sent |-> 0, times_sent |-> 0, packets |-> <<>>]

Init ==
    /\ now = 2                 \* long after 0, the sent time of a new request
    /\ arriving = Packets
    /\ main = "idle"
    /\ packet = None
    /\ hop = Unrouted
    /\ req = None
    /\ reply = None
    /\ rest = <<>>
    /\ entries = [i \in Entries |-> None]
    /\ requests = <<>>
    /\ heap = [r \in Reqs |-> Unused]
    /\ sweep = "sleep"
    /\ start = None
    /\ woken = 2
    /\ out = [p \in Packets |-> <<>>]
    /\ announced = {}
    /\ arps = 0

Always == TRUE

(* cache->lock is free: the time-out thread holds it during a whole sweep. *)
LockFree == sweep = "sleep"

-----------------------------------------------------------------------------
(* What leaves the router. *)

Forward(p, m, h) == [kind |-> "forward", packet |-> p, mac |-> m, hop |-> h]
EchoReply == [kind |-> "echo"]
ICMP(type, code) == [kind |-> "icmp", type |-> type, code |-> code]

(* sr_send_packet of x, on behalf of packet p *)
Send(p, x) == out' = [out EXCEPT ![p] = Append(@, x)]

-----------------------------------------------------------------------------
(* The packet thread: sr_handlepacket for an IP packet. *)

TakePacket(p) ==
    /\ main = "idle"
    /\ p \in arriving
    /\ arriving' = arriving \ {p}

GoIdle == main' = "idle" /\ packet' = None /\ hop' = Unrouted

(* An echo request for the router is answered. *)
RecvEcho(p) ==
    /\ TakePacket(p)
    /\ p \in ToRouter \cap Icmp
    /\ Send(p, EchoReply)
    /\ UNCHANGED <<now, main, packet, hop, req, reply, rest, announced, arps,
                   cacheVars, sweepVars>>

(* ICMP messages for a packet that is not an echo request to the router: any *)
(* other packet to the router is answered with port unreachable and goes on  *)
(* to be forwarded; a TTL of 1 ends it.                                      *)
Errors(p) ==
    (IF p \in ToRouter THEN <<ICMP(3, 3)>> ELSE <<>>)
        \o (IF p \in LastHop THEN <<ICMP(11, 0)>> ELSE <<>>)

(* The route the pointer longs leads to; with no route it was never set and  *)
(* may lead to any of them, or nowhere.                                      *)
HopChoices(p) == IF Hop[p] # Unrouted THEN {Hop[p]} ELSE {Hop[q] : q \in Routed} \cup {Unrouted}

RecvIp(p) ==
    /\ TakePacket(p)
    /\ p \notin ToRouter \cap Icmp
    /\ out' = [out EXCEPT ![p] = @ \o Errors(p)]
    /\ IF p \in LastHop
          THEN UNCHANGED <<main, packet, hop>>
          ELSE \E h \in HopChoices(p) :
                 /\ main' = IF h = Unrouted THEN "crashed" ELSE "lookup"
                 /\ packet' = p
                 /\ hop' = h
    /\ UNCHANGED <<now, req, reply, rest, announced, arps, cacheVars, sweepVars>>

(* sr_arpcache_lookup returns the last valid entry for the word it is given. *)
Found(a) == {i \in Entries : entries[i] # None /\ entries[i].ip = a}

(* The lookup is made with longs->dest as it is. *)
LookupHit ==
    /\ main = "lookup"
    /\ LockFree
    /\ \E i \in Found(hop) :
          /\ \A j \in Found(hop) : j <= i
          /\ Send(packet, Forward(packet, entries[i].mac, hop))
    /\ GoIdle
    /\ UNCHANGED <<now, arriving, req, reply, rest, announced, arps, cacheVars, sweepVars>>

LookupMiss ==
    /\ main = "lookup"
    /\ LockFree
    /\ Found(hop) = {}
    /\ main' = "queue"
    /\ UNCHANGED <<now, arriving, packet, hop, req, reply, rest, announced, arps,
                   cacheVars, sweepVars, out>>

Listed == Range(requests)

NoRequest(a) == {}

(* The request on the list for the word a. *)
RequestFor(a) == {r \in Listed : heap[r].ip = a}

OnlyWaiting(ps, p) == <<p>>

(* The new packet is put before the ones that wait. *)
WaitFirst(ps, p) == <<p>> \o ps

(* sr_arpcache_queuereq, with the address in host byte order. *)
QueueReq ==
    /\ main = "queue"
    /\ LockFree
    /\ LET a == Ntohl[hop] IN
       \/ \E r \in RequestFor(a) :
            /\ heap' = [heap EXCEPT ![r].packets = WaitFirst(@, packet)]
            /\ req' = r
            /\ UNCHANGED requests
       \/ /\ RequestFor(a) = {}
          /\ \E r \in Reqs :
               /\ heap[r] = Unused /\ \A q \in Reqs : q < r => heap[q] # Unused
               /\ heap' = [heap EXCEPT ![r] = [Unused EXCEPT !.live = TRUE, !.ip = a,
                                                             !.packets = <<packet>>]]
               /\ req' = r
               /\ requests' = <<r>> \o requests
    /\ main' = "check"
    /\ packet' = None
    /\ hop' = Unrouted
    /\ UNCHANGED <<now, arriving, reply, rest, announced, arps, entries, sweepVars, out>>

-----------------------------------------------------------------------------
(* handle_arpreq: the test... *)

(* A request that has been sent MaxSends times is neither repeated nor given *)
(* up: the code that did so is commented out.                                *)
Due(r) == now - heap[r].sent > 1 /\ heap[r].times_sent < MaxSends

(* ... and the broadcast of the ARP request with what is recorded of it.     *)
(* handle_arpreq() holds no lock: when both threads are about to count a     *)
(* broadcast of the same request, the one that writes first may be undone.   *)
BothSend(r) == main = "send" /\ req = r /\ sweep = "send" /\ start = r
Counted(r) == {1} \cup (IF BothSend(r) THEN {0} ELSE {})
SendArpRequest(r) ==
    \E n \in Counted(r) : heap' = [heap EXCEPT ![r].sent = now, ![r].times_sent = @ + n]

MainCheck ==
    /\ main = "check"
    /\ IF Due(req) THEN main' = "send" /\ UNCHANGED req
                   ELSE main' = "idle" /\ req' = None
    /\ UNCHANGED <<now, arriving, packet, hop, reply, rest, announced, arps,
                   cacheVars, sweepVars, out>>

MainSend ==
    /\ main = "send"
    /\ SendArpRequest(req)
    /\ main' = "idle"
    /\ req' = None
    /\ UNCHANGED <<now, arriving, packet, hop, reply, rest, announced, arps,
                   entries, requests, sweepVars, out>>

-----------------------------------------------------------------------------
(* The packet thread: sr_handlepacket for an ARP packet. *)

(* A request for the address of the interface it came in by is answered.     *)
RecvArpRequest ==
    /\ main = "idle"
    /\ arps < MaxArps
    /\ arps' = arps + 1
    /\ UNCHANGED <<now, arriving, main, packet, hop, req, reply, rest, announced,
                   cacheVars, sweepVars, out>>

RecvArpReply(x) ==
    /\ main = "idle"
    /\ arps < MaxArps
    /\ arps' = arps + 1
    /\ announced' = announced \cup {x}
    /\ reply' = x
    /\ main' = "insert"
    /\ UNCHANGED <<now, arriving, packet, hop, req, rest, cacheVars, sweepVars, out>>

(* The first free entry takes the mapping; with none free it is dropped. *)
FreeEntries == {i \in Entries : entries[i] = None}

Cached(a, m) ==
    [i \in Entries |->
        IF i \in FreeEntries /\ \A j \in FreeEntries : i <= j
          THEN [ip |-> a, mac |-> m, added |-> now]
          ELSE entries[i]]

(* The element before r is linked to the one after it. *)
Unlink(r) ==
    IF r \notin Listed THEN requests
    ELSE LET i == CHOOSE k \in DOMAIN requests : requests[k] = r IN
         SubSeq(requests, 1, i - 1) \o SubSeq(requests, i + 1, Len(requests))

(* sr_arpcache_insert: the request for the address leaves the list. *)
Insert ==
    LET a == Ntohl[reply.ip] IN
    /\ main = "insert"
    /\ LockFree
    /\ entries' = Cached(a, reply.mac)
    /\ \/ \E r \in RequestFor(a) :
            /\ requests' = Unlink(r)
            /\ req' = r
            /\ rest' = heap[r].packets
            /\ main' = "release"
       \/ /\ RequestFor(a) = {}
          /\ main' = "destroy"
          /\ UNCHANGED <<requests, req, rest>>
    /\ UNCHANGED <<now, arriving, packet, hop, reply, announced, arps, heap,
                   sweepVars, out>>

(* The packets of the request are sent, one after the other. *)
Release ==
    /\ main = "release"
    /\ IF rest = <<>>
          THEN main' = "destroy" /\ UNCHANGED <<rest, out>>
          ELSE /\ Send(Head(rest), Forward(Head(rest), reply.mac, reply.ip))
               /\ rest' = Tail(rest)
               /\ UNCHANGED main
    /\ UNCHANGED <<now, arriving, packet, hop, req, reply, announced, arps,
                   cacheVars, sweepVars>>

(* sr_arpreq_destroy, with the request that was found or with NULL. *)
Destroy ==
    /\ main = "destroy"
    /\ LockFree
    /\ heap' = [r \in Reqs |->
                   IF r = req THEN [heap[r] EXCEPT !.live = FALSE, !.packets = <<>>]
                              ELSE heap[r]]
    /\ requests' = Unlink(req)
    /\ main' = "idle"
    /\ req' = None
    /\ reply' = None
    /\ UNCHANGED <<now, arriving, packet, hop, rest, announced, arps, entries,
                   sweepVars, out>>

-----------------------------------------------------------------------------
(* The time-out thread. *)

Tick ==
    /\ now < MaxTime
    /\ now' = now + 1
    /\ UNCHANGED <<mainVars, cacheVars, sweepVars, out>>

(* After a second of sleep the thread takes the lock, drops the entries that *)
(* are too old and, if there are requests, begins to sweep them.             *)
Wake ==
    /\ sweep = "sleep"
    /\ now > woken
    /\ entries' = [i \in Entries |->
                      IF entries[i] # None /\ now - entries[i].added > SR_ARPCACHE_TO
                        THEN None ELSE entries[i]]
    /\ IF requests = <<>>
          THEN woken' = now /\ UNCHANGED <<sweep, start>>
          ELSE sweep' = "check" /\ start' = Head(requests) /\ UNCHANGED woken
    /\ UNCHANGED <<now, mainVars, requests, heap, out>>

(* The loop of sr_arpcache_sweepreqs moves to the next request, and stays at *)
(* the last one.                                                             *)
NextOf(r) ==
    LET i == CHOOSE k \in DOMAIN requests : requests[k] = r IN
    IF i < Len(requests) THEN requests[i + 1] ELSE r

SweepCheck ==
    /\ sweep = "check"
    /\ IF Due(start) THEN sweep' = "send" /\ UNCHANGED start
                     ELSE start' = NextOf(start) /\ UNCHANGED sweep
    /\ UNCHANGED <<now, mainVars, cacheVars, woken, out>>

SweepSend ==
    /\ sweep = "send"
    /\ SendArpRequest(start)
    /\ start' = NextOf(start)
    /\ sweep' = "check"
    /\ UNCHANGED <<now, mainVars, entries, requests, woken, out>>

-----------------------------------------------------------------------------

Receive ==
    \/ \E p \in Packets : RecvEcho(p) \/ RecvIp(p)
    \/ \E x \in Announcements : RecvArpReply(x)
    \/ RecvArpRequest

Main ==
    \/ LookupHit \/ LookupMiss \/ QueueReq \/ MainCheck \/ MainSend
    \/ Insert \/ Release \/ Destroy

Sweep == main # "crashed" /\ (Wake \/ SweepCheck \/ SweepSend)

Next == Receive \/ Main \/ Sweep \/ Tick

Spec == Init /\ [][Next]_vars

(* Both threads are scheduled and time passes; packets need not arrive. *)
Fairness == WF_vars(Main) /\ WF_vars(Sweep) /\ WF_vars(Tick)

FairSpec == Spec /\ Fairness

-----------------------------------------------------------------------------
(* Properties. *)

Message ==
    [kind : {"forward"}, packet : Packets, mac : Macs, hop : Addrs]
        \cup {EchoReply, ICMP(3, 3), ICMP(11, 0)}

Request ==
    [live : BOOLEAN, ip : Addrs \cup {None}, sent : 0 .. MaxTime, times_sent : Nat,
     packets : Seq(Packets)]

MainTypeOK ==
    /\ arriving \subseteq Packets
    /\ main \in {"idle", "lookup", "queue", "check", "send", "insert", "release",
                  "destroy", "crashed"}
    /\ packet \in Packets \cup {None}
    /\ hop \in Addrs \cup {Unrouted}
    /\ req \in Reqs \cup {None}
    /\ reply \in Announcements \cup {None}
    /\ rest \in Seq(Packets)
    /\ announced \subseteq Announcements
    /\ arps \in 0 .. MaxArps

CacheTypeOK ==
    /\ entries \in [Entries -> [ip : Addrs, mac : Macs, added : 0 .. MaxTime] \cup {None}]
    /\ requests \in Seq(Reqs)
    /\ heap \in [Reqs -> Request]

(* Every variable keeps to the values the code can store in it; in           *)
(* particular the request the sweep is at is never NULL.                     *)
TypeOK ==
    /\ now \in 0 .. MaxTime
    /\ MainTypeOK
    /\ CacheTypeOK
    /\ sweep \in {"sleep", "check", "send"}
    /\ start \in Reqs \cup {None}
    /\ sweep # "sleep" => start \in Reqs
    /\ woken \in 0 .. MaxTime
    /\ out \in [Packets -> Seq(Message)]

Forwarded(p) == {i \in DOMAIN out[p] : out[p][i].kind = "forward"}

(* sr_arpcache.h: "use next_hop_ip->mac mapping in entry to send the packet":*)
(* a packet leaves only with an Ethernet address that its next hop announced.*)
MacAnnounced ==
    \A p \in Packets : \A i \in Forwarded(p) :
        [ip |-> out[p][i].hop, mac |-> out[p][i].mac] \in announced
            /\ out[p][i].hop \in HopChoices(p)

(* A packet to be forwarded is never lost and never sent twice: it is in the *)
(* packet thread's hands, waiting at one listed request, about to be         *)
(* released, or has been sent, and only one of these.                        *)
PacketHeldOnce ==
    \A p \in Packets \ (arriving \cup LastHop \cup (ToRouter \cap Icmp)) :
        1 = Cardinality({k \in {1} : packet = p})
          + Cardinality({x \in Listed \X (1 .. Cardinality(Packets)) :
                            x[2] \in DOMAIN heap[x[1]].packets /\ heap[x[1]].packets[x[2]] = p})
          + Cardinality({i \in DOMAIN rest : rest[i] = p})
          + Cardinality(Forwarded(p))

(* A packet to be forwarded is neither lost nor doubled, and goes to the     *)
(* station that answered for its next hop.                                   *)
PacketsForwarded == PacketHeldOnce /\ MacAnnounced

(* There is at most one request for an address on the list. *)
OneRequestPerIp ==
    /\ \A i, j \in DOMAIN requests :
          heap[requests[i]].ip = heap[requests[j]].ip => i = j
    /\ \A r \in Listed : heap[r].packets # <<>>

(* No thread follows a pointer to a request that was freed, or sweeps one    *)
(* that left the list, although handle_arpreq runs without the lock.         *)
PointersLive ==
    /\ \A r \in Listed : heap[r].live
    /\ sweep # "sleep" => start \in Listed
    /\ main \in {"check", "send"} => req \in Listed
    /\ main \in {"release", "destroy"} /\ req # None => heap[req].live /\ req \notin Listed

(* Both threads may find the last repetition due at the same moment, so one  *)
(* ARP request more than intended may be counted, and never two.             *)
RetryBound == \A r \in Reqs : heap[r].times_sent <= MaxSends + 1

(* The list of requests is sound while both threads work on it: one request  *)
(* for an address, none of them freed, none repeated without end.            *)
RequestsSound == TypeOK /\ OneRequestPerIp /\ PointersLive /\ RetryBound

(* "req = arpcache_insert(ip, mac); if req: send all packets on the          *)
(* req->packets linked list" (sr_arpcache.h): when the answer for an address *)
(* is handled, every packet that waits for it is sent, unless a sweep holds  *)
(* the cache.                                                                *)
WaitersReleased ==
    \A p \in Packets :
        (/\ main = "insert"
         /\ \E r \in Listed : Ntohl[heap[r].ip] = reply.ip /\ p \in Range(heap[r].packets))
            ~> (Forwarded(p) # {} \/ sweep # "sleep")

=============================================================================
