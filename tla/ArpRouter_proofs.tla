-------------------------- MODULE ArpRouter_proofs --------------------------
(* The router's ARP requests and the packets that wait for them, for any      *)
(* packets, routes, addresses, cache size and time-outs: RequestsSound and    *)
(* PacketsForwarded, although handle_arpreq runs without the lock in the      *)
(* packet thread while the time-out thread sweeps the list.                   *)
EXTENDS ArpRouter, FiniteSetTheorems, SequenceTheorems, TLAPS

(* What the packet thread holds at each place of sr_handlepacket. *)
MainSound ==
    /\ main \in {"lookup", "queue"} => packet \in Packets /\ hop \in Addrs
    /\ main \in {"idle", "lookup", "queue", "insert"} => req = None
    /\ main \in {"insert", "release", "destroy"} => reply \in Announcements

(* A thread that found a repetition due is counted as having sent it. *)
MainPending(r) == IF main = "send" /\ req = r THEN 1 ELSE 0
SweepPending(r) == IF sweep = "send" /\ start = r THEN 1 ELSE 0
Pending(r) == MainPending(r) + SweepPending(r)

Sends == \A r \in Reqs : heap[r].times_sent + Pending(r) <= MaxSends + 1

RouterInv == TypeOK /\ MainSound /\ OneRequestPerIp /\ PointersLive /\ Sends

-----------------------------------------------------------------------------
(* The list. *)

(* Requests are numbered; NULL is none of them. *)
LEMMA ReqsFacts == Reqs \subseteq Nat /\ None \notin Reqs
<1>1. Cardinality(Packets) \in Nat
  BY RouterAssumption, FS_CardinalityType
<1> QED BY <1>1, RouterAssumption DEF Reqs

(* Parts of a sequence. *)
LEMMA Upper ==
    ASSUME NEW S, NEW s \in Seq(S), NEW p \in 1 .. Len(s)
    PROVE  /\ SubSeq(s, p + 1, Len(s)) \in Seq(S)
           /\ Len(SubSeq(s, p + 1, Len(s))) = Len(s) - p
           /\ \A i \in 1 .. (Len(s) - p) : SubSeq(s, p + 1, Len(s))[i] = s[p + i]
<1>1. p \in Nat /\ Len(s) \in Nat /\ p >= 1 /\ p <= Len(s)
  OBVIOUS
<1>2. \A i \in (p + 1) .. Len(s) : s[i] \in S
  BY <1>1
<1>3. SubSeq(s, p + 1, Len(s)) \in Seq(S)
  BY <1>1, <1>2, SubSeqProperties
<1>4. Len(SubSeq(s, p + 1, Len(s))) = Len(s) - p
  BY <1>1
<1>5. \A i \in 1 .. (Len(s) - p) : SubSeq(s, p + 1, Len(s))[i] = s[p + i]
  BY <1>1
<1> QED BY <1>3, <1>4, <1>5

(* Two sequences in a row. *)
LEMMA Joined ==
    ASSUME NEW S, NEW a \in Seq(S), NEW b \in Seq(S)
    PROVE  a \o b \in Seq(S) /\ Len(a \o b) = Len(a) + Len(b)
OBVIOUS

(* The list of requests as a sequence and as a set. *)
LEMMA ListFacts ==
    ASSUME TypeOK
    PROVE  /\ requests \in Seq(Reqs) /\ Len(requests) \in Nat
           /\ DOMAIN requests = 1 .. Len(requests)
           /\ Listed = {requests[i] : i \in 1 .. Len(requests)} /\ Listed \subseteq Reqs
<1>1. requests \in Seq(Reqs)
  BY DEF TypeOK, CacheTypeOK
<1>2. DOMAIN requests = 1 .. Len(requests) /\ Len(requests) \in Nat
  BY <1>1
<1>3. Listed = {requests[i] : i \in 1 .. Len(requests)}
  BY <1>2 DEF Listed, Range
<1>4. \A i \in 1 .. Len(requests) : requests[i] \in Reqs
  BY <1>1
<1> QED BY <1>1, <1>2, <1>3, <1>4

(* A request that is put first. *)
LEMMA LinkFacts ==
    ASSUME TypeOK, NEW r \in Reqs
    PROVE  LET u == <<r>> \o requests IN
           /\ u \in Seq(Reqs) /\ DOMAIN u = 1 .. (Len(requests) + 1) /\ u[1] = r
           /\ \A i \in 1 .. (Len(requests) + 1) :
                 i # 1 => i - 1 \in 1 .. Len(requests) /\ u[i] = requests[i - 1]
           /\ Range(u) = Listed \cup {r}
<1> DEFINE u == <<r>> \o requests
<1>1. requests \in Seq(Reqs) /\ Len(requests) \in Nat /\ <<r>> \in Seq(Reqs) /\ Len(<<r>>) = 1
  BY ListFacts
<1>2. u \in Seq(Reqs) /\ Len(u) = Len(requests) + 1
  BY <1>1
<1>3. DOMAIN u = 1 .. (Len(requests) + 1)
  BY <1>2
<1>4. u[1] = r
  BY <1>1
<1>5. \A i \in 1 .. (Len(requests) + 1) :
          i # 1 => i - 1 \in 1 .. Len(requests) /\ u[i] = requests[i - 1]
  BY <1>1
<1> HIDE DEF u
<1>6. \A i \in 1 .. Len(requests) : i + 1 \in 1 .. (Len(requests) + 1) /\ i + 1 # 1
                                     /\ (i + 1) - 1 = i
  BY <1>1
<1>7. ASSUME NEW i \in 1 .. Len(requests) PROVE requests[i] = u[i + 1]
  BY <1>5, <1>6
<1>8. 1 \in 1 .. (Len(requests) + 1)
  BY <1>1
<1>9. Range(u) = {u[i] : i \in 1 .. (Len(requests) + 1)}
  BY <1>3 DEF Range
<1>10. Range(u) \subseteq Listed \cup {r}
  BY <1>4, <1>5, <1>9, ListFacts
<1>11. Listed \cup {r} \subseteq Range(u)
  BY <1>4, <1>6, <1>7, <1>8, <1>9, ListFacts
<1>12. Range(u) = Listed \cup {r}
  BY <1>10, <1>11
<1> QED BY <1>2, <1>3, <1>4, <1>5, <1>12 DEF u

(* A request that is taken off. *)
LEMMA UnlinkFacts ==
    ASSUME TypeOK, OneRequestPerIp, NEW r
    PROVE  /\ Unlink(r) \in Seq(Reqs)
           /\ Range(Unlink(r)) \subseteq Listed \ {r}
           /\ \A i, j \in DOMAIN Unlink(r) :
                 heap[Unlink(r)[i]].ip = heap[Unlink(r)[j]].ip => i = j
<1> DEFINE u == Unlink(r)
           n == Len(requests)
<1>1. /\ requests \in Seq(Reqs) /\ n \in Nat /\ DOMAIN requests = 1 .. n
      /\ Listed = {requests[i] : i \in 1 .. n} /\ Listed \subseteq Reqs
  BY ListFacts
<1>2. \A i, j \in 1 .. n : heap[requests[i]].ip = heap[requests[j]].ip => i = j
  BY <1>1 DEF OneRequestPerIp
<1>3. CASE r \notin Listed
  <2>1. u = requests
    BY <1>3 DEF Unlink
  <2>2. Range(u) = Listed
    BY <2>1 DEF Listed
  <2> HIDE DEF u
  <2> QED BY <1>1, <1>2, <1>3, <2>1, <2>2 DEF u
<1>4. CASE r \in Listed
  <2> DEFINE p == CHOOSE k \in DOMAIN requests : requests[k] = r
             a == SubSeq(requests, 1, p - 1)
             b == SubSeq(requests, p + 1, n)
  <2>1. \E k \in DOMAIN requests : requests[k] = r
    BY <1>1, <1>4
  <2>2. p \in 1 .. n /\ requests[p] = r
    BY <1>1, <2>1
  <2>3. u = a \o b
    BY <1>4 DEF Unlink
  <2> HIDE DEF p
  <2>4. a \in Seq(Reqs) /\ Len(a) = p - 1 /\ \A i \in 1 .. (p - 1) : a[i] = requests[i]
    BY <1>1, <2>2
  <2>5. b \in Seq(Reqs) /\ Len(b) = n - p /\ \A i \in 1 .. (n - p) : b[i] = requests[p + i]
    BY <1>1, <2>2, Upper
  <2> HIDE DEF a, b, u, n
  <2>s. a \o b \in Seq(Reqs) /\ Len(a \o b) = Len(a) + Len(b)
    BY <2>4, <2>5, Joined
  <2>t. (p - 1) + (n - p) = n - 1
    BY <1>1, <2>2
  <2>6. u \in Seq(Reqs) /\ Len(u) = n - 1
    BY <2>s, <2>t, <2>3, <2>4, <2>5
  <2>7. DOMAIN u = 1 .. (n - 1)
    BY <2>6
  <2> DEFINE f(i) == IF i < p THEN i ELSE i + 1
  <2>8. ASSUME NEW i \in 1 .. (n - 1)
        PROVE  f(i) \in 1 .. n /\ f(i) # p /\ u[i] = requests[f(i)]
    <3>1. CASE i < p
      <4>1. i \in 1 .. Len(a) /\ i \in 1 .. (p - 1)
        BY <2>2, <2>4, <3>1
      <4>2. u[i] = a[i]
        BY <2>3, <2>4, <2>5, <4>1
      <4> QED BY <1>1, <2>2, <2>4, <3>1, <4>1, <4>2
    <3>2. CASE ~ (i < p)
      <4> DEFINE j == i - (p - 1)
      <4>1. j \in 1 .. (n - p) /\ i = Len(a) + j /\ p + j = i + 1
        BY <1>1, <2>2, <2>4, <3>2
      <4>2. u[i] = b[j]
        BY <2>3, <2>4, <2>5, <4>1
      <4>3. b[j] = requests[p + j]
        BY <2>5, <4>1
      <4> HIDE DEF j
      <4>4. i + 1 \in 1 .. n /\ i + 1 # p
        BY <1>1, <2>2, <3>2
      <4> QED BY <3>2, <4>1, <4>2, <4>3, <4>4
    <3> QED BY <3>1, <3>2
  <2>9. \A i, j \in 1 .. (n - 1) : f(i) = f(j) => i = j
    BY <1>1, <2>2
  <2>r. Range(u) = {u[i] : i \in 1 .. (n - 1)}
    BY <2>7 DEF Range
  <2> HIDE DEF f
  <2>10. \A i, j \in 1 .. (n - 1) : heap[u[i]].ip = heap[u[j]].ip => i = j
    BY <1>2, <2>8, <2>9
  <2>11. \A i \in 1 .. (n - 1) : u[i] \in Listed /\ u[i] # r
    <3> SUFFICES ASSUME NEW i \in 1 .. (n - 1)
                 PROVE  u[i] \in Listed /\ u[i] # r
      OBVIOUS
    <3>1. f(i) \in 1 .. n /\ f(i) # p /\ u[i] = requests[f(i)]
      BY <2>8
    <3>2. requests[f(i)] # requests[p]
      BY <1>2, <2>2, <3>1
    <3> QED BY <1>1, <2>2, <3>1, <3>2
  <2> QED BY <2>6, <2>7, <2>r, <2>10, <2>11 DEF u
<1> QED BY <1>3, <1>4

(* The time-out thread goes on to a request of the list. *)
LEMMA NextOfFacts ==
    ASSUME TypeOK, NEW r \in Listed
    PROVE  NextOf(r) \in Listed
<1> DEFINE i == CHOOSE k \in DOMAIN requests : requests[k] = r
<1>1. \E k \in DOMAIN requests : requests[k] = r
  BY ListFacts
<1>2. i \in 1 .. Len(requests)
  BY <1>1, ListFacts
<1> HIDE DEF i
<1>3. i < Len(requests) => i + 1 \in 1 .. Len(requests)
  BY <1>2, ListFacts
<1>4. NextOf(r) = IF i < Len(requests) THEN requests[i + 1] ELSE r
  BY DEF NextOf, i
<1> QED BY <1>3, <1>4, ListFacts

(* One more broadcast is recorded, and counted unless the count is lost. *)
LEMMA RecordFacts ==
    ASSUME NEW h \in Request, NEW t \in 0 .. MaxTime, NEW n \in {0, 1}
    PROVE  LET k == [h EXCEPT !.sent = t, !.times_sent = @ + n] IN
           /\ k \in Request /\ k.ip = h.ip /\ k.live = h.live /\ k.packets = h.packets
           /\ k.times_sent = h.times_sent + n
<1>1. h.times_sent + n \in Nat
  BY DEF Request
<1> DEFINE m == h.times_sent + n
<1> HIDE DEF m
<1>2. ASSUME NEW k, k = [h EXCEPT !.sent = t, !.times_sent = m], m \in Nat
      PROVE  /\ k \in Request /\ k.ip = h.ip /\ k.live = h.live /\ k.packets = h.packets
             /\ k.times_sent = m
  BY <1>2 DEF Request
<1>3. [h EXCEPT !.sent = t, !.times_sent = @ + n] = [h EXCEPT !.sent = t, !.times_sent = m]
  BY DEF m
<1> QED BY <1>1, <1>2, <1>3 DEF m

(* Recording a broadcast changes nothing else of a request. *)
LEMMA SendFacts ==
    ASSUME TypeOK, NEW r \in Reqs, SendArpRequest(r)
    PROVE  /\ heap' \in [Reqs -> Request]
           /\ \A q \in Reqs :
                 /\ heap'[q].ip = heap[q].ip /\ heap'[q].live = heap[q].live
                 /\ heap'[q].packets = heap[q].packets
                 /\ heap'[q].times_sent \in Nat
                 /\ heap'[q].times_sent <= heap[q].times_sent + (IF q = r THEN 1 ELSE 0)
<1>1. heap \in [Reqs -> Request] /\ now \in 0 .. MaxTime
  BY DEF TypeOK, CacheTypeOK
<1>2. ASSUME NEW q \in Reqs PROVE heap[q] \in Request /\ heap[q].times_sent \in Nat
  BY <1>1 DEF Request
<1>3. PICK n \in {0, 1} : heap' = [heap EXCEPT ![r].sent = now, ![r].times_sent = @ + n]
  BY DEF SendArpRequest, Counted
<1>4. \A q \in Reqs : q # r => heap'[q] = heap[q]
  BY <1>1, <1>3
<1>5. heap'[r] = [heap[r] EXCEPT !.sent = now, !.times_sent = @ + n]
  BY <1>1, <1>3
<1>6. /\ heap'[r] \in Request /\ heap'[r].ip = heap[r].ip /\ heap'[r].live = heap[r].live
      /\ heap'[r].packets = heap[r].packets
      /\ heap'[r].times_sent = heap[r].times_sent + n
  <2> DEFINE h == heap[r]
             k == heap'[r]
  <2>1. h \in Request /\ now \in 0 .. MaxTime
    BY <1>1, <1>2
  <2>2. k = [h EXCEPT !.sent = now, !.times_sent = @ + n]
    BY <1>5
  <2> HIDE DEF h, k
  <2>3. /\ k \in Request /\ k.ip = h.ip /\ k.live = h.live /\ k.packets = h.packets
        /\ k.times_sent = h.times_sent + n
    BY <2>1, <2>2, RecordFacts
  <2> QED BY <2>3 DEF h, k
<1>7. heap' \in [Reqs -> Request]
  <2> DEFINE x == heap'[r]
  <2>1. heap' = [heap EXCEPT ![r] = x]
    BY <1>1, <1>3
  <2> HIDE DEF x
  <2> QED BY <1>1, <1>6, <2>1 DEF x
<1>8. heap'[r].times_sent \in Nat /\ heap'[r].times_sent <= heap[r].times_sent + 1
  BY <1>2, <1>6
<1> QED BY <1>2, <1>4, <1>6, <1>7, <1>8

-----------------------------------------------------------------------------
(* What the steps that change the list do to it and to the requests. *)

Distinct == \A i, j \in DOMAIN requests : heap[requests[i]].ip = heap[requests[j]].ip => i = j

(* A packet that waits behind an existing request. *)
LEMMA WaitFacts ==
    ASSUME NEW h \in Request, NEW p \in Packets
    PROVE  LET k == [h EXCEPT !.packets = WaitFirst(@, p)] IN
           /\ k \in Request /\ k.packets # <<>> /\ k.ip = h.ip /\ k.live = h.live
           /\ k.times_sent = h.times_sent
<1> DEFINE ps == <<p>> \o h.packets
<1>1. h.packets \in Seq(Packets)
  BY DEF Request
<1>2. ps \in Seq(Packets) /\ ps # <<>>
  <2>1. ps \in Seq(Packets) /\ Len(ps) = 1 + Len(h.packets) /\ Len(h.packets) \in Nat
    BY <1>1
  <2>2. Len(ps) # 0
    BY <2>1
  <2> QED BY <2>1, <2>2
<1>3. [h EXCEPT !.packets = WaitFirst(@, p)] = [h EXCEPT !.packets = ps]
  BY DEF WaitFirst
<1> HIDE DEF ps
<1>4. ASSUME NEW k, k = [h EXCEPT !.packets = ps]
      PROVE  /\ k \in Request /\ k.packets = ps /\ k.ip = h.ip /\ k.live = h.live
             /\ k.times_sent = h.times_sent
  BY <1>2, <1>4 DEF Request
<1> QED BY <1>2, <1>3, <1>4

(* A request that is created. *)
LEMMA NewFacts ==
    ASSUME NEW a \in Addrs, NEW p \in Packets
    PROVE  LET k == [Unused EXCEPT !.live = TRUE, !.ip = a, !.packets = <<p>>] IN
           k \in Request /\ k.packets # <<>> /\ k.ip = a /\ k.live /\ k.times_sent = 0
<1>1. 0 \in 0 .. MaxTime /\ 0 \in Nat
  BY RouterAssumption
<1>2. <<p>> \in Seq(Packets) /\ <<p>> # <<>>
  OBVIOUS
<1>3. Unused \in Request /\ Unused.times_sent = 0
  BY <1>1 DEF Unused, Request
<1> DEFINE ps == <<p>>
           u == Unused
           k == [u EXCEPT !.live = TRUE, !.ip = a, !.packets = ps]
<1>5. ps \in Seq(Packets) /\ u \in Request /\ ps # <<>> /\ u.times_sent = 0
  BY <1>2, <1>3
<1> HIDE DEF ps, u
<1>e. k = [u EXCEPT !.live = TRUE, !.ip = a, !.packets = ps]
  OBVIOUS
<1>6. k \in Request /\ k.packets = ps /\ k.ip = a /\ k.live /\ k.times_sent = u.times_sent
  <2> HIDE DEF k
  <2> QED BY <1>5, <1>e DEF Request
<1>7. k \in Request /\ k.packets # <<>> /\ k.ip = a /\ k.live /\ k.times_sent = 0
  <2> HIDE DEF k
  <2> QED BY <1>5, <1>6
<1>8. k = [Unused EXCEPT !.live = TRUE, !.ip = a, !.packets = <<p>>]
  BY DEF ps, u
<1> HIDE DEF k
<1> QED BY <1>7, <1>8

(* sr_arpcache_queuereq leaves its caller a request that is listed, alone    *)
(* for its address.                                                          *)
LEMMA QueueFacts ==
    ASSUME RouterInv, QueueReq
    PROVE  /\ heap' \in [Reqs -> Request] /\ requests' \in Seq(Reqs) /\ Distinct'
           /\ req' \in Reqs /\ Listed' = Listed \cup {req'}
           /\ heap'[req'].live /\ heap'[req'].packets # <<>>
           /\ \A q \in Reqs : q # req' => heap'[q] = heap[q]
           /\ \A q \in Reqs : heap'[q].times_sent = heap[q].times_sent
<1> DEFINE a == Ntohl[hop]
<1>1. heap \in [Reqs -> Request] /\ requests \in Seq(Reqs) /\ Listed \subseteq Reqs
  BY ListFacts DEF RouterInv, TypeOK, CacheTypeOK
<1>2. packet \in Packets /\ a \in Addrs
  BY RouterAssumption DEF RouterInv, MainSound, QueueReq
<1>3. Distinct /\ (\A r \in Listed : heap[r].live)
  BY DEF RouterInv, OneRequestPerIp, Distinct, PointersLive
<1>l. /\ DOMAIN requests = 1 .. Len(requests) /\ Len(requests) \in Nat
      /\ \A i \in DOMAIN requests : requests[i] \in Listed
  BY ListFacts DEF RouterInv
<1> HIDE DEF a
<1>4. CASE \E r \in RequestFor(a) :
             /\ heap' = [heap EXCEPT ![r].packets = WaitFirst(@, packet)]
             /\ req' = r
             /\ UNCHANGED requests
  <2> PICK r \in RequestFor(a) :
             /\ heap' = [heap EXCEPT ![r].packets = WaitFirst(@, packet)]
             /\ req' = r
             /\ UNCHANGED requests
    BY <1>4
  <2>1. r \in Listed /\ r \in Reqs
    BY <1>1 DEF RequestFor
  <2> DEFINE h == heap[r]
             k == [h EXCEPT !.packets = WaitFirst(@, packet)]
  <2>2. h \in Request
    BY <1>1, <2>1
  <2>3. heap' = [heap EXCEPT ![r] = k]
    BY <1>1, <2>1
  <2> HIDE DEF h
  <2>4. /\ k \in Request /\ k.packets # <<>> /\ k.ip = h.ip /\ k.live = h.live
        /\ k.times_sent = h.times_sent
    BY <1>2, <2>2, WaitFacts
  <2> HIDE DEF k
  <2>5. heap' \in [Reqs -> Request] /\ heap'[r] = k /\ \A q \in Reqs : q # r => heap'[q] = heap[q]
    BY <1>1, <2>1, <2>3, <2>4
  <2>6. \A q \in Reqs : heap'[q].ip = heap[q].ip /\ heap'[q].times_sent = heap[q].times_sent
    BY <2>4, <2>5 DEF h
  <2>7. Distinct'
    BY <1>1, <1>3, <1>l, <2>6 DEF Distinct
  <2>8. Listed' = Listed
    BY DEF Listed
  <2>9. heap'[r].live
    BY <1>3, <2>1, <2>4, <2>5 DEF h
  <2> QED BY <1>1, <2>1, <2>4, <2>5, <2>6, <2>7, <2>8, <2>9
<1>5. CASE /\ RequestFor(a) = {}
           /\ \E r \in Reqs :
               /\ heap[r] = Unused /\ \A q \in Reqs : q < r => heap[q] # Unused
               /\ heap' = [heap EXCEPT ![r] = [Unused EXCEPT !.live = TRUE, !.ip = a,
                                                             !.packets = <<packet>>]]
               /\ req' = r
               /\ requests' = <<r>> \o requests
  <2> DEFINE k == [Unused EXCEPT !.live = TRUE, !.ip = a, !.packets = <<packet>>]
  <2> PICK r \in Reqs :
               /\ heap[r] = Unused
               /\ heap' = [heap EXCEPT ![r] = k]
               /\ req' = r
               /\ requests' = <<r>> \o requests
    BY <1>5
  <2>1. k \in Request /\ k.packets # <<>> /\ k.ip = a /\ k.live /\ k.times_sent = 0
    BY <1>2, NewFacts
  <2> HIDE DEF k
  <2>2. heap' \in [Reqs -> Request] /\ heap'[r] = k /\ \A q \in Reqs : q # r => heap'[q] = heap[q]
    BY <1>1, <2>1
  <2>3. ~ heap[r].live /\ heap[r].times_sent = 0
    BY DEF Unused
  <2>4. r \notin Listed
    BY <1>3, <2>3
  <2>5. \A q \in Reqs : heap'[q].times_sent = heap[q].times_sent
    BY <2>1, <2>2, <2>3
  <2> DEFINE u == <<r>> \o requests
  <2>6. /\ u \in Seq(Reqs) /\ DOMAIN u = 1 .. (Len(requests) + 1) /\ u[1] = r
        /\ \A i \in 1 .. (Len(requests) + 1) :
              i # 1 => i - 1 \in 1 .. Len(requests) /\ u[i] = requests[i - 1]
        /\ Range(u) = Listed \cup {r}
    BY LinkFacts DEF RouterInv
  <2>7. requests' = u
    OBVIOUS
  <2> HIDE DEF u
  <2>8. Listed' = Listed \cup {r}
    BY <2>6, <2>7 DEF Listed
  <2>9. \A q \in Listed : heap'[q] = heap[q] /\ heap[q].ip # a
    BY <1>1, <1>5, <2>2, <2>4 DEF RequestFor
  <2>10. Distinct'
    <3> SUFFICES ASSUME NEW i \in 1 .. (Len(requests) + 1), NEW j \in 1 .. (Len(requests) + 1),
                        heap'[u[i]].ip = heap'[u[j]].ip
                 PROVE  i = j
      BY <2>6, <2>7 DEF Distinct
    <3>1. CASE i = 1 /\ j = 1
      BY <3>1
    <3>2. CASE i = 1 /\ j # 1
      <4>1. u[j] \in Listed
        BY <1>l, <2>6, <3>2
      <4> QED BY <2>1, <2>2, <2>6, <2>9, <3>2, <4>1
    <3>3. CASE i # 1 /\ j = 1
      <4>1. u[i] \in Listed
        BY <1>l, <2>6, <3>3
      <4> QED BY <2>1, <2>2, <2>6, <2>9, <3>3, <4>1
    <3>4. CASE i # 1 /\ j # 1
      <4>1. /\ i - 1 \in DOMAIN requests /\ u[i] = requests[i - 1] /\ u[i] \in Listed
            /\ j - 1 \in DOMAIN requests /\ u[j] = requests[j - 1] /\ u[j] \in Listed
        BY <1>l, <2>6, <3>4
      <4>2. heap[requests[i - 1]].ip = heap[requests[j - 1]].ip
        BY <2>9, <4>1
      <4>3. i - 1 = j - 1
        BY <1>3, <4>1, <4>2 DEF Distinct
      <4> QED BY <1>l, <4>3
    <3> QED BY <3>1, <3>2, <3>3, <3>4
  <2> QED BY <2>1, <2>2, <2>5, <2>6, <2>7, <2>8, <2>10
<1> QED BY <1>4, <1>5 DEF QueueReq, a

(* sr_arpcache_insert takes the request for the address off the list. *)
LEMMA InsertFacts ==
    ASSUME RouterInv, Insert
    PROVE  /\ requests' \in Seq(Reqs) /\ Distinct' /\ Listed' \subseteq Listed
           /\ entries' \in [Entries -> [ip : Addrs, mac : Macs, added : 0 .. MaxTime] \cup {None}]
           /\ \/ main' = "destroy" /\ req' = None /\ rest' = rest
              \/ /\ main' = "release" /\ req' \in Listed /\ req' \notin Listed'
                 /\ rest' = heap[req'].packets
<1> DEFINE a == Ntohl[reply.ip]
<1>1. TypeOK /\ OneRequestPerIp /\ Distinct /\ requests \in Seq(Reqs) /\ heap' = heap
  BY ListFacts DEF RouterInv, OneRequestPerIp, Distinct, Insert
<1>2. reply \in Announcements /\ req = None
  BY DEF RouterInv, MainSound, Insert
<1>3. a \in Addrs /\ reply.mac \in Macs
  BY <1>2, RouterAssumption
<1>4. entries' \in [Entries -> [ip : Addrs, mac : Macs, added : 0 .. MaxTime] \cup {None}]
  <2>1. /\ entries \in [Entries -> [ip : Addrs, mac : Macs, added : 0 .. MaxTime] \cup {None}]
        /\ now \in 0 .. MaxTime
    BY <1>1 DEF TypeOK, CacheTypeOK
  <2>2. entries' = Cached(a, reply.mac)
    BY DEF Insert
  <2> HIDE DEF a
  <2> QED BY <1>3, <2>1, <2>2 DEF Cached
<1> HIDE DEF a
<1>5. CASE \E r \in RequestFor(a) :
            /\ requests' = Unlink(r)
            /\ req' = r
            /\ rest' = heap[r].packets
            /\ main' = "release"
  <2> PICK r \in RequestFor(a) :
            /\ requests' = Unlink(r)
            /\ req' = r
            /\ rest' = heap[r].packets
            /\ main' = "release"
    BY <1>5
  <2>1. /\ Unlink(r) \in Seq(Reqs) /\ Range(Unlink(r)) \subseteq Listed \ {r}
        /\ \A i, j \in DOMAIN Unlink(r) :
              heap[Unlink(r)[i]].ip = heap[Unlink(r)[j]].ip => i = j
    BY <1>1, UnlinkFacts
  <2>2. Listed' \subseteq Listed \ {r}
    BY <2>1 DEF Listed
  <2>3. Distinct'
    BY <1>1, <2>1 DEF Distinct
  <2>4. r \in Listed
    BY DEF RequestFor
  <2> QED BY <1>4, <2>1, <2>2, <2>3, <2>4
<1>6. CASE RequestFor(a) = {} /\ main' = "destroy" /\ UNCHANGED <<requests, req, rest>>
  <2>1. Distinct' /\ Listed' = Listed
    BY <1>1, <1>6 DEF Distinct, Listed
  <2> QED BY <1>1, <1>2, <1>4, <1>6, <2>1
<1> QED BY <1>5, <1>6 DEF Insert, a

(* sr_arpreq_destroy frees a request that is no longer on the list. *)
LEMMA DestroyFacts ==
    ASSUME RouterInv, Destroy
    PROVE  /\ requests' = requests /\ Distinct' /\ Listed' = Listed
           /\ heap' \in [Reqs -> Request]
           /\ \A q \in Listed : heap'[q] = heap[q]
           /\ \A q \in Reqs : heap'[q].times_sent = heap[q].times_sent
<1>1. heap \in [Reqs -> Request] /\ Listed \subseteq Reqs /\ req \in Reqs \cup {None}
  BY ListFacts DEF RouterInv, TypeOK, MainTypeOK, CacheTypeOK
<1>2. req \notin Listed
  BY <1>1, ReqsFacts DEF RouterInv, PointersLive, Destroy
<1>3. requests' = requests /\ Listed' = Listed
  BY <1>2 DEF Destroy, Unlink, Listed
<1>4. heap' = [r \in Reqs |->
                   IF r = req THEN [heap[r] EXCEPT !.live = FALSE, !.packets = <<>>]
                              ELSE heap[r]]
  BY DEF Destroy
<1>5. ASSUME NEW h \in Request, NEW k, k = [h EXCEPT !.live = FALSE, !.packets = <<>>]
      PROVE  k \in Request /\ k.times_sent = h.times_sent
  <2>1. <<>> \in Seq(Packets)
    OBVIOUS
  <2>2. k.times_sent = h.times_sent
    BY <1>5 DEF Request
  <2>3. k \in Request
    BY <1>5, <2>1 DEF Request
  <2> QED BY <2>2, <2>3
<1>6. ASSUME NEW q \in Reqs
      PROVE  heap'[q] \in Request /\ heap'[q].times_sent = heap[q].times_sent
  <2>1. heap[q] \in Request
    BY <1>1
  <2>2. CASE q = req
    <3>1. heap'[q] = [heap[q] EXCEPT !.live = FALSE, !.packets = <<>>]
      BY <1>4, <2>2
    <3> QED BY <1>5, <2>1, <3>1
  <2>3. CASE q # req
    <3>1. heap'[q] = heap[q]
      BY <1>4, <2>3
    <3> QED BY <2>1, <3>1
  <2> QED BY <2>2, <2>3
<1>7. DOMAIN heap' = Reqs /\ heap' = [q \in Reqs |-> heap'[q]]
  BY <1>4
<1>8. heap' \in [Reqs -> Request]
  BY <1>6, <1>7
<1>9. \A q \in Listed : heap'[q] = heap[q]
  BY <1>1, <1>2, <1>4
<1>10. Distinct'
  <2>1. \A i \in DOMAIN requests : requests[i] \in Listed
    BY ListFacts DEF RouterInv
  <2> QED BY <1>3, <1>9, <2>1 DEF Distinct, RouterInv, OneRequestPerIp
<1> QED BY <1>3, <1>6, <1>8, <1>9, <1>10

-----------------------------------------------------------------------------
(* The parts of the invariant. *)

(* The router starts with nothing in hand and nothing listed. *)
LEMMA RouterInit == Init => RouterInv
<1> SUFFICES ASSUME Init PROVE RouterInv
  OBVIOUS
<1>1. 2 \in 0 .. MaxTime /\ 0 \in 0 .. MaxTime /\ 0 \in 0 .. MaxArps /\ 0 \in Nat
  BY RouterAssumption
<1>2. Unused \in Request /\ Unused.times_sent = 0
  BY <1>1 DEF Unused, Request
<1>3. Listed = {} /\ DOMAIN requests = {} /\ requests \in Seq(Reqs)
  BY DEF Init, Listed, Range
<1>4. heap \in [Reqs -> Request] /\ \A r \in Reqs : heap[r] = Unused
  BY <1>2 DEF Init
<1>5. TypeOK
  BY <1>1, <1>3, <1>4 DEF Init, TypeOK, MainTypeOK, CacheTypeOK
<1>6. MainSound /\ OneRequestPerIp /\ PointersLive
  BY <1>3 DEF Init, MainSound, OneRequestPerIp, PointersLive
<1>7. Sends
  <2> SUFFICES ASSUME NEW r \in Reqs PROVE heap[r].times_sent + Pending(r) <= MaxSends + 1
    BY DEF Sends
  <2>1. heap[r].times_sent = 0
    BY <1>2, <1>4
  <2>2. Pending(r) = 0
    BY DEF Init, Pending, MainPending, SweepPending
  <2> QED BY <2>1, <2>2, RouterAssumption
<1> QED BY <1>5, <1>6, <1>7 DEF RouterInv

(* sr_handlepacket holds a packet, a request or a reply only where it should. *)
LEMMA MainStep ==
    ASSUME RouterInv, Next
    PROVE  MainSound'
<1>1. MainSound
  BY DEF RouterInv
<1>2. CASE Receive
  <2>1. ASSUME NEW p \in Packets, RecvIp(p)
        PROVE  MainSound'
    <3>1. CASE p \in LastHop
      BY <1>1, <2>1, <3>1 DEF MainSound, RecvIp
    <3>2. CASE p \notin LastHop
      <4>1. HopChoices(p) \subseteq Addrs \cup {Unrouted}
        BY RouterAssumption DEF HopChoices, Routed
      <4> QED BY <1>1, <2>1, <3>2, <4>1 DEF MainSound, RecvIp, TakePacket
    <3> QED BY <3>1, <3>2
  <2> QED BY <1>1, <1>2, <2>1
          DEF MainSound, Receive, RecvEcho, TakePacket, RecvArpReply, RecvArpRequest
<1>3. CASE Main
  <2>1. CASE Insert
    BY <1>1, <2>1, InsertFacts DEF MainSound, Insert
  <2> QED BY <1>1, <1>3, <2>1 DEF MainSound, Main, LookupHit, LookupMiss, GoIdle, QueueReq,
                                  MainCheck, MainSend, Release, Destroy
<1>4. CASE Sweep \/ Tick
  BY <1>1, <1>4 DEF MainSound, Sweep, Tick, Wake, SweepCheck, SweepSend, mainVars
<1> QED BY <1>2, <1>3, <1>4 DEF Next

(* sr_send_packet on behalf of a packet. *)
LEMMA OutFacts ==
    ASSUME TypeOK, NEW p \in Packets, NEW x \in Message, Send(p, x)
    PROVE  out' \in [Packets -> Seq(Message)]
<1>1. out \in [Packets -> Seq(Message)]
  BY DEF TypeOK
<1>2. Append(out[p], x) \in Seq(Message)
  BY <1>1
<1>3. out' = [out EXCEPT ![p] = Append(out[p], x)]
  BY DEF Send
<1> QED BY <1>1, <1>2, <1>3

(* A forwarded packet is a message. *)
LEMMA ForwardFacts ==
    ASSUME NEW p \in Packets, NEW m \in Macs, NEW h \in Addrs
    PROVE  Forward(p, m, h) \in Message
BY DEF Forward, Message

(* What is sent has the form of a message. *)
LEMMA OutStep ==
    ASSUME RouterInv, Next
    PROVE  out' \in [Packets -> Seq(Message)]
<1>1. TypeOK /\ MainSound /\ out \in [Packets -> Seq(Message)]
  BY DEF RouterInv, TypeOK
<1>2. ASSUME NEW p \in Packets, RecvEcho(p)
      PROVE  out' \in [Packets -> Seq(Message)]
  BY <1>1, <1>2, OutFacts DEF RecvEcho, Message
<1>3. ASSUME NEW p \in Packets, RecvIp(p)
      PROVE  out' \in [Packets -> Seq(Message)]
  <2>1. ICMP(3, 3) \in Message /\ ICMP(11, 0) \in Message
    BY DEF Message
  <2>2. Errors(p) \in Seq(Message)
    <3> DEFINE m == ICMP(3, 3)
               n == ICMP(11, 0)
    <3>1. m \in Message /\ n \in Message
      BY <2>1
    <3>2. Errors(p) = (IF p \in ToRouter THEN <<m>> ELSE <<>>)
                        \o (IF p \in LastHop THEN <<n>> ELSE <<>>)
      BY DEF Errors
    <3> HIDE DEF m, n
    <3> DEFINE a == IF p \in ToRouter THEN <<m>> ELSE <<>>
               b == IF p \in LastHop THEN <<n>> ELSE <<>>
    <3>3. a \in Seq(Message) /\ b \in Seq(Message)
      BY <3>1
    <3> HIDE DEF a, b
    <3>4. a \o b \in Seq(Message)
      BY <3>3
    <3> QED BY <3>2, <3>4 DEF a, b
  <2>3. out[p] \o Errors(p) \in Seq(Message)
    BY <1>1, <2>2
  <2>4. out' = [out EXCEPT ![p] = out[p] \o Errors(p)]
    BY <1>3 DEF RecvIp
  <2> QED BY <1>1, <2>3, <2>4
<1>4. CASE LookupHit
  <2>1. packet \in Packets /\ hop \in Addrs
    BY <1>1, <1>4 DEF LookupHit, MainSound
  <2>2. PICK i \in Found(hop) : Send(packet, Forward(packet, entries[i].mac, hop))
    BY <1>4 DEF LookupHit
  <2>3. entries[i].mac \in Macs
    BY <1>1, <2>2 DEF Found, TypeOK, CacheTypeOK
  <2>4. Forward(packet, entries[i].mac, hop) \in Message
    BY <2>1, <2>3, ForwardFacts
  <2> QED BY <1>1, <2>1, <2>2, <2>4, OutFacts
<1>5. CASE Release
  <2>1. rest \in Seq(Packets) /\ reply.mac \in Macs /\ reply.ip \in Addrs
    BY <1>1, <1>5, RouterAssumption DEF Release, MainSound, TypeOK, MainTypeOK
  <2>2. CASE rest = <<>>
    BY <1>1, <1>5, <2>2 DEF Release
  <2>3. CASE rest # <<>>
    <3>1. Head(rest) \in Packets
      BY <2>1, <2>3
    <3>2. Forward(Head(rest), reply.mac, reply.ip) \in Message
      BY <2>1, <3>1, ForwardFacts
    <3>3. Send(Head(rest), Forward(Head(rest), reply.mac, reply.ip))
      BY <1>5, <2>3 DEF Release
    <3> QED BY <1>1, <3>1, <3>2, <3>3, OutFacts
  <2> QED BY <2>2, <2>3
<1>6. CASE \/ \E x \in Announcements : RecvArpReply(x)
           \/ RecvArpRequest \/ LookupMiss \/ QueueReq \/ MainCheck \/ MainSend
           \/ Insert \/ Destroy \/ Sweep \/ Tick
  <2>1. UNCHANGED out
    BY <1>6 DEF RecvArpReply, RecvArpRequest, LookupMiss, QueueReq, MainCheck, MainSend,
                Insert, Destroy, Sweep, Tick, Wake, SweepCheck, SweepSend
  <2> QED BY <1>1, <2>1
<1> QED BY <1>2, <1>3, <1>4, <1>5, <1>6 DEF Next, Receive, Main

(* The requests that the two threads hold are requests of the heap. *)
LEMMA HeldFacts ==
    ASSUME RouterInv
    PROVE  /\ main \in {"check", "send"} => req \in Listed /\ req \in Reqs
           /\ sweep # "sleep" => start \in Listed /\ start \in Reqs
BY ListFacts DEF RouterInv, PointersLive

(* The cache, the list and the requests keep their types. *)
LEMMA CacheStep ==
    ASSUME RouterInv, Next
    PROVE  CacheTypeOK'
<1>1. TypeOK /\ CacheTypeOK /\ now \in 0 .. MaxTime
  BY DEF RouterInv, TypeOK
<1>2. CASE QueueReq
  BY <1>1, <1>2, QueueFacts DEF QueueReq, CacheTypeOK
<1>3. CASE Insert
  <2>1. heap' = heap
    BY <1>3 DEF Insert
  <2> QED BY <1>1, <1>3, <2>1, InsertFacts DEF CacheTypeOK
<1>4. CASE Destroy
  <2>1. entries' = entries
    BY <1>4 DEF Destroy
  <2> QED BY <1>1, <1>4, <2>1, DestroyFacts DEF CacheTypeOK
<1>5. CASE MainSend
  <2>1. req \in Reqs /\ SendArpRequest(req) /\ UNCHANGED <<entries, requests>>
    BY <1>5, HeldFacts DEF MainSend
  <2> QED BY <1>1, <2>1, SendFacts DEF CacheTypeOK
<1>6. CASE SweepSend
  <2>1. start \in Reqs /\ SendArpRequest(start) /\ UNCHANGED <<entries, requests>>
    BY <1>6, HeldFacts DEF SweepSend
  <2> QED BY <1>1, <2>1, SendFacts DEF CacheTypeOK
<1>7. CASE Wake
  BY <1>1, <1>7 DEF Wake, CacheTypeOK
<1>8. CASE Receive \/ LookupHit \/ LookupMiss \/ MainCheck \/ Release \/ SweepCheck \/ Tick
  <2>1. UNCHANGED cacheVars
    BY <1>8 DEF Receive, RecvEcho, RecvIp, RecvArpReply, RecvArpRequest, LookupHit, LookupMiss,
                MainCheck, Release, SweepCheck, Tick
  <2> QED BY <1>1, <2>1 DEF cacheVars, CacheTypeOK
<1> QED BY <1>2, <1>3, <1>4, <1>5, <1>6, <1>7, <1>8 DEF Next, Main, Sweep

(* The variables of the packet thread keep their types. *)
LEMMA MainTypeStep ==
    ASSUME RouterInv, Next
    PROVE  MainTypeOK'
<1>1. TypeOK /\ MainTypeOK /\ MainSound
  BY DEF RouterInv, TypeOK
<1>2. CASE Receive
  <2>1. ASSUME NEW p \in Packets, RecvIp(p)
        PROVE  MainTypeOK'
    <3>1. CASE p \in LastHop
      BY <1>1, <2>1, <3>1 DEF MainTypeOK, RecvIp, TakePacket
    <3>2. CASE p \notin LastHop
      <4>1. HopChoices(p) \subseteq Addrs \cup {Unrouted}
        BY RouterAssumption DEF HopChoices, Routed
      <4> QED BY <1>1, <2>1, <3>2, <4>1 DEF MainTypeOK, RecvIp, TakePacket
    <3> QED BY <3>1, <3>2
  <2>2. CASE \E p \in Packets : RecvEcho(p)
    BY <1>1, <2>2 DEF MainTypeOK, RecvEcho, TakePacket
  <2>3. CASE RecvArpRequest \/ \E x \in Announcements : RecvArpReply(x)
    <3>1. arps' \in 0 .. MaxArps
      BY <1>1, <2>3, RouterAssumption DEF MainTypeOK, RecvArpRequest, RecvArpReply
    <3> QED BY <1>1, <2>3, <3>1 DEF MainTypeOK, RecvArpRequest, RecvArpReply
  <2> QED BY <1>2, <2>1, <2>2, <2>3 DEF Receive
<1>3. CASE QueueReq
  <2>1. req' \in Reqs
    BY <1>3, QueueFacts
  <2> QED BY <1>1, <1>3, <2>1 DEF MainTypeOK, QueueReq
<1>4. CASE Insert
  <2>1. /\ main' \in {"destroy", "release"} /\ req' \in Reqs \cup {None}
        /\ rest' \in Seq(Packets)
    <3>1. \A r \in Listed : r \in Reqs /\ heap[r].packets \in Seq(Packets)
      <4>1. heap \in [Reqs -> Request] /\ Listed \subseteq Reqs
        BY <1>1, ListFacts DEF TypeOK, CacheTypeOK
      <4> QED BY <4>1 DEF Request
    <3>2. rest \in Seq(Packets)
      BY <1>1 DEF MainTypeOK
    <3> QED BY <1>4, <3>1, <3>2, InsertFacts
  <2> QED BY <1>1, <1>4, <2>1 DEF MainTypeOK, Insert
<1>5. CASE Release
  <2>1. rest' \in Seq(Packets)
    <3>1. rest \in Seq(Packets)
      BY <1>1 DEF MainTypeOK
    <3>2. rest # <<>> => Tail(rest) \in Seq(Packets)
      BY <3>1
    <3> QED BY <1>5, <3>1, <3>2 DEF Release
  <2> QED BY <1>1, <1>5, <2>1 DEF MainTypeOK, Release
<1>6. CASE LookupHit \/ LookupMiss \/ MainCheck \/ MainSend \/ Destroy
  BY <1>1, <1>6 DEF MainTypeOK, LookupHit, LookupMiss, GoIdle, MainCheck, MainSend, Destroy
<1>7. CASE Sweep \/ Tick
  BY <1>1, <1>7 DEF MainTypeOK, Sweep, Tick, Wake, SweepCheck, SweepSend, mainVars
<1> QED BY <1>2, <1>3, <1>4, <1>5, <1>6, <1>7 DEF Next, Main

(* The sweep begins at the first request of the list. *)
LEMMA HeadFacts ==
    ASSUME TypeOK, requests # <<>>
    PROVE  Head(requests) \in Listed /\ Head(requests) \in Reqs
<1>1. requests \in Seq(Reqs) /\ Len(requests) \in Nat
  BY ListFacts
<1>2. 1 \in 1 .. Len(requests) /\ Head(requests) = requests[1]
  BY <1>1
<1> QED BY <1>2, ListFacts

(* Every variable keeps its type. *)
LEMMA TypeStep ==
    ASSUME RouterInv, Next
    PROVE  TypeOK'
<1>1. TypeOK /\ now \in 0 .. MaxTime /\ woken \in 0 .. MaxTime
  BY DEF RouterInv, TypeOK
<1>2. now' \in 0 .. MaxTime
  <2>1. CASE Tick
    BY <1>1, <2>1, RouterAssumption DEF Tick
  <2>2. CASE Receive \/ Main \/ Sweep
    <3>1. now' = now
      BY <2>2 DEF Receive, RecvEcho, RecvIp, RecvArpReply, RecvArpRequest, Main, LookupHit,
                  LookupMiss, QueueReq, MainCheck, MainSend, Insert, Release, Destroy,
                  Sweep, Wake, SweepCheck, SweepSend
    <3> QED BY <1>1, <3>1
  <2> QED BY <2>1, <2>2 DEF Next
<1>3. /\ sweep' \in {"sleep", "check", "send"} /\ start' \in Reqs \cup {None}
      /\ sweep' # "sleep" => start' \in Reqs
      /\ woken' \in 0 .. MaxTime
  <2>1. CASE Wake
    BY <1>1, <2>1, HeadFacts DEF Wake, TypeOK
  <2>2. CASE SweepCheck \/ SweepSend
    <3>1. start \in Listed /\ start \in Reqs
      BY <2>2, HeldFacts DEF SweepCheck, SweepSend
    <3>2. NextOf(start) \in Reqs
      BY <1>1, <3>1, NextOfFacts, ListFacts
    <3> QED BY <1>1, <2>2, <3>1, <3>2 DEF SweepCheck, SweepSend, TypeOK
  <2>3. CASE Receive \/ Main \/ Tick
    <3>1. UNCHANGED sweepVars
      BY <2>3 DEF Receive, RecvEcho, RecvIp, RecvArpReply, RecvArpRequest, Main, LookupHit,
                  LookupMiss, QueueReq, MainCheck, MainSend, Insert, Release, Destroy, Tick
    <3> QED BY <1>1, <3>1 DEF sweepVars, TypeOK
  <2> QED BY <2>1, <2>2, <2>3 DEF Next, Sweep
<1> QED BY <1>2, <1>3, MainTypeStep, CacheStep, OutStep DEF TypeOK

(* The steps that leave the list and the requests alone. *)
Elsewhere == Receive \/ LookupHit \/ LookupMiss \/ MainCheck \/ Release \/ Wake \/ SweepCheck \/ Tick

(* A step elsewhere changes neither the list nor a request. *)
LEMMA ElsewhereFacts == ASSUME Elsewhere PROVE UNCHANGED <<requests, heap>> /\ Listed' = Listed
<1>1. UNCHANGED <<requests, heap>>
  BY DEF Elsewhere, Receive, RecvEcho, RecvIp, RecvArpReply, RecvArpRequest, LookupHit,
         LookupMiss, MainCheck, Release, Wake, SweepCheck, Tick, cacheVars
<1> QED BY <1>1 DEF Listed

(* A broadcast leaves the list alone and what the list is judged by. *)
LEMMA BroadcastFacts ==
    ASSUME RouterInv, MainSend \/ SweepSend
    PROVE  /\ requests' = requests /\ Listed' = Listed
           /\ \A q \in Reqs : /\ heap'[q].ip = heap[q].ip /\ heap'[q].live = heap[q].live
                              /\ heap'[q].packets = heap[q].packets
<1>1. TypeOK
  BY DEF RouterInv
<1>2. CASE MainSend
  <2>1. req \in Reqs /\ SendArpRequest(req) /\ UNCHANGED requests
    BY <1>2, HeldFacts DEF MainSend
  <2> QED BY <1>1, <2>1, SendFacts DEF Listed
<1>3. CASE SweepSend
  <2>1. start \in Reqs /\ SendArpRequest(start) /\ UNCHANGED requests
    BY <1>3, HeldFacts DEF SweepSend
  <2> QED BY <1>1, <2>1, SendFacts DEF Listed
<1> QED BY <1>2, <1>3

(* No step lists a second request for an address, or one nobody waits for. *)
LEMMA OneRequestStep ==
    ASSUME RouterInv, Next
    PROVE  OneRequestPerIp'
<1>1. Distinct /\ \A r \in Listed : r \in Reqs /\ heap[r].packets # <<>>
  BY ListFacts DEF RouterInv, OneRequestPerIp, Distinct
<1>2. \A i \in DOMAIN requests : requests[i] \in Listed
  BY ListFacts DEF RouterInv
<1>3. CASE Elsewhere
  BY <1>1, <1>3, ElsewhereFacts DEF OneRequestPerIp, Distinct
<1>4. CASE MainSend \/ SweepSend
  BY <1>1, <1>2, <1>4, BroadcastFacts DEF OneRequestPerIp, Distinct
<1>5. CASE QueueReq
  BY <1>1, <1>5, QueueFacts DEF OneRequestPerIp, Distinct
<1>6. CASE Insert
  <2>1. heap' = heap
    BY <1>6 DEF Insert
  <2> QED BY <1>1, <1>6, <2>1, InsertFacts DEF OneRequestPerIp, Distinct
<1>7. CASE Destroy
  BY <1>1, <1>7, DestroyFacts DEF OneRequestPerIp, Distinct
<1> QED BY <1>3, <1>4, <1>5, <1>6, <1>7 DEF Next, Main, Sweep, Elsewhere

(* No step leaves a thread with a request that was freed. *)
LEMMA PointersStep ==
    ASSUME RouterInv, Next
    PROVE  PointersLive'
<1>1. TypeOK /\ PointersLive /\ MainSound
  BY DEF RouterInv
<1>2. Listed \subseteq Reqs /\ req \in Reqs \cup {None}
  BY <1>1, ListFacts DEF TypeOK, MainTypeOK
<1>3. CASE Elsewhere
  <2>1. UNCHANGED heap /\ Listed' = Listed
    BY <1>3, ElsewhereFacts
  <2>2. CASE Wake
    <3>1. requests # <<>> => Head(requests) \in Listed
      BY <1>1, HeadFacts
    <3> QED BY <1>1, <2>1, <2>2, <3>1 DEF PointersLive, Wake, mainVars
  <2>3. CASE SweepCheck
    <3>1. start \in Listed
      BY <2>3, HeldFacts DEF SweepCheck
    <3>2. NextOf(start) \in Listed
      BY <1>1, <3>1, NextOfFacts
    <3> QED BY <1>1, <2>1, <2>3, <3>1, <3>2 DEF PointersLive, SweepCheck, mainVars
  <2>4. CASE \/ Receive \/ LookupHit \/ LookupMiss \/ MainCheck \/ Release \/ Tick
    <3>1. UNCHANGED <<sweep, start>>
      BY <2>4 DEF Receive, RecvEcho, RecvIp, RecvArpReply, RecvArpRequest, LookupHit,
                  LookupMiss, MainCheck, Release, Tick, sweepVars
    <3>2. \/ main' = main /\ req' = req
          \/ main' \in {"idle", "lookup", "queue", "insert", "crashed"}
          \/ main = "check" /\ main' = "send" /\ req' = req
          \/ main = "release" /\ main' = "destroy" /\ req' = req
      BY <2>4 DEF Receive, RecvEcho, RecvIp, RecvArpReply, RecvArpRequest, LookupHit, GoIdle,
                  LookupMiss, MainCheck, Release, Tick, mainVars
    <3> QED BY <1>1, <2>1, <3>1, <3>2 DEF PointersLive
  <2> QED BY <1>3, <2>2, <2>3, <2>4 DEF Elsewhere
<1>4. CASE MainSend \/ SweepSend
  <2>1. Listed' = Listed /\ \A q \in Reqs : heap'[q].live = heap[q].live
    BY <1>4, BroadcastFacts
  <2>2. CASE MainSend
    BY <1>1, <1>2, <2>1, <2>2 DEF PointersLive, MainSend, sweepVars
  <2>3. CASE SweepSend
    <3>1. start \in Listed
      BY <2>3, HeldFacts DEF SweepSend
    <3>2. NextOf(start) \in Listed
      BY <1>1, <3>1, NextOfFacts
    <3> QED BY <1>1, <1>2, <2>1, <2>3, <3>2 DEF PointersLive, SweepSend, mainVars
  <2> QED BY <1>4, <2>2, <2>3
<1>5. CASE QueueReq
  <2>1. main' = "check" /\ sweep' = "sleep"
    BY <1>5 DEF QueueReq, LockFree, sweepVars
  <2> QED BY <1>1, <1>2, <1>5, <2>1, QueueFacts DEF PointersLive
<1>6. CASE Insert
  <2>1. heap' = heap /\ sweep' = "sleep"
    BY <1>6 DEF Insert, LockFree, sweepVars
  <2> QED BY <1>1, <1>6, <2>1, InsertFacts DEF PointersLive
<1>7. CASE Destroy
  <2>1. main' = "idle" /\ sweep' = "sleep"
    BY <1>7 DEF Destroy, LockFree, sweepVars
  <2> QED BY <1>1, <1>7, <2>1, DestroyFacts DEF PointersLive
<1> QED BY <1>3, <1>4, <1>5, <1>6, <1>7 DEF Next, Main, Sweep, Elsewhere

(* Of two threads that are about to send, both found fewer than MaxSends. *)
LEMMA SendsStep ==
    ASSUME RouterInv, Next
    PROVE  Sends'
<1>1. /\ TypeOK /\ heap \in [Reqs -> Request] /\ MaxSends \in Nat
      /\ \A r \in Reqs : heap[r].times_sent \in Nat
  BY RouterAssumption DEF RouterInv, TypeOK, CacheTypeOK, Request
<1> SUFFICES ASSUME NEW r \in Reqs
             PROVE  heap'[r].times_sent + (MainPending(r)' + SweepPending(r)') <= MaxSends + 1
  BY DEF Sends, Pending
<1> DEFINE n == heap[r].times_sent
           x == MainPending(r)
           y == SweepPending(r)
<1>2. n \in Nat /\ x \in {0, 1} /\ y \in {0, 1} /\ n + (x + y) <= MaxSends + 1
  BY <1>1 DEF RouterInv, Sends, Pending, MainPending, SweepPending
<1>3. MainPending(r)' \in {0, 1} /\ SweepPending(r)' \in {0, 1}
  BY DEF MainPending, SweepPending
<1>4. CASE MainCheck
  <2>1. heap' = heap /\ SweepPending(r)' = y
    BY <1>4 DEF MainCheck, cacheVars, sweepVars, SweepPending
  <2>2. CASE n < MaxSends
    <3> DEFINE v == MainPending(r)'
    <3>1. v \in {0, 1}
      BY <1>3
    <3>2. heap'[r].times_sent = n
      BY <2>1
    <3> HIDE DEF v, n, x, y
    <3>3. n + (v + y) <= MaxSends + 1
      BY <1>1, <1>2, <2>2, <3>1
    <3> QED BY <2>1, <3>2, <3>3 DEF v
  <2>3. CASE ~ (n < MaxSends)
    <3>1. MainPending(r)' = 0
      BY <1>4, <2>3 DEF MainCheck, Due, MainPending
    <3>2. heap'[r].times_sent = n
      BY <2>1
    <3> HIDE DEF n, x, y
    <3>3. n + (0 + y) <= MaxSends + 1
      BY <1>1, <1>2
    <3> QED BY <2>1, <3>1, <3>2, <3>3
  <2> QED BY <2>2, <2>3
<1>5. CASE SweepCheck
  <2>1. heap' = heap /\ MainPending(r)' = x
    BY <1>5 DEF SweepCheck, cacheVars, mainVars, MainPending
  <2>2. CASE n < MaxSends
    <3> DEFINE v == SweepPending(r)'
    <3>1. v \in {0, 1}
      BY <1>3
    <3>2. heap'[r].times_sent = n
      BY <2>1
    <3> HIDE DEF v, n, x, y
    <3>3. n + (x + v) <= MaxSends + 1
      BY <1>1, <1>2, <2>2, <3>1
    <3> QED BY <2>1, <3>2, <3>3 DEF v
  <2>3. CASE ~ (n < MaxSends)
    <3>1. SweepPending(r)' = 0
      BY <1>5, <2>3 DEF SweepCheck, Due, SweepPending
    <3>2. heap'[r].times_sent = n
      BY <2>1
    <3> HIDE DEF n, x, y
    <3>3. n + (x + 0) <= MaxSends + 1
      BY <1>1, <1>2
    <3> QED BY <2>1, <3>1, <3>2, <3>3
  <2> QED BY <2>2, <2>3
<1>6. CASE MainSend
  <2>1. req \in Reqs /\ SendArpRequest(req)
    BY <1>6, HeldFacts DEF MainSend
  <2>2. heap'[r].times_sent \in Nat /\ heap'[r].times_sent <= n + (IF r = req THEN 1 ELSE 0)
    BY <1>1, <2>1, SendFacts
  <2>3. /\ MainPending(r)' = 0 /\ SweepPending(r)' = y /\ x = IF r = req THEN 1 ELSE 0
    BY <1>6 DEF MainSend, sweepVars, MainPending, SweepPending
  <2> HIDE DEF n, x, y
  <2>4. heap'[r].times_sent \in Nat /\ heap'[r].times_sent <= n + x
    BY <2>2, <2>3
  <2> QED BY <1>1, <1>2, <2>3, <2>4
<1>7. CASE SweepSend
  <2>1. start \in Reqs /\ SendArpRequest(start)
    BY <1>7, HeldFacts DEF SweepSend
  <2>2. heap'[r].times_sent \in Nat /\ heap'[r].times_sent <= n + (IF r = start THEN 1 ELSE 0)
    BY <1>1, <2>1, SendFacts
  <2>3. /\ MainPending(r)' = x /\ SweepPending(r)' = 0 /\ y = IF r = start THEN 1 ELSE 0
    BY <1>7 DEF SweepSend, mainVars, MainPending, SweepPending
  <2> HIDE DEF n, x, y
  <2>4. heap'[r].times_sent \in Nat /\ heap'[r].times_sent <= n + y
    BY <2>2, <2>3
  <2> QED BY <1>1, <1>2, <2>3, <2>4
<1>8. CASE \/ Receive \/ LookupHit \/ LookupMiss \/ QueueReq \/ Insert \/ Release \/ Destroy
           \/ Wake \/ Tick
  <2>1. heap'[r].times_sent = n
    <3>1. CASE QueueReq
      BY <3>1, QueueFacts
    <3>2. CASE Destroy
      BY <3>2, DestroyFacts
    <3>3. CASE Insert
      BY <3>3 DEF Insert
    <3>4. CASE Receive \/ LookupHit \/ LookupMiss \/ Release \/ Wake \/ Tick
      BY <3>4, ElsewhereFacts DEF Elsewhere
    <3> QED BY <1>8, <3>1, <3>2, <3>3, <3>4
  <2>2. MainPending(r)' \in {0, x}
    <3>1. main' # "send" \/ (main' = main /\ req' = req)
      BY <1>8 DEF Receive, RecvEcho, RecvIp, RecvArpReply, RecvArpRequest, LookupHit, GoIdle,
                  LookupMiss, QueueReq, Insert, Release, Destroy, Wake, Tick, mainVars
    <3> QED BY <3>1 DEF MainPending
  <2>3. SweepPending(r)' \in {0, y}
    <3>1. sweep' # "send" \/ (sweep' = sweep /\ start' = start)
      BY <1>8 DEF Receive, RecvEcho, RecvIp, RecvArpReply, RecvArpRequest, LookupHit,
                  LookupMiss, QueueReq, Insert, Release, Destroy, Wake, Tick, sweepVars
    <3> QED BY <3>1 DEF SweepPending
  <2> DEFINE v == MainPending(r)'
             w == SweepPending(r)'
  <2>4. v \in {0, x} /\ w \in {0, y}
    BY <2>2, <2>3
  <2> HIDE DEF n, x, y, v, w
  <2>5. n + (v + w) <= MaxSends + 1
    BY <1>1, <1>2, <2>4
  <2> QED BY <2>1, <2>5 DEF v, w
<1> QED BY <1>4, <1>5, <1>6, <1>7, <1>8 DEF Next, Main, Sweep

(* The invariant is inductive. *)
LEMMA RouterStep ==
    ASSUME RouterInv, [Next]_vars
    PROVE  RouterInv'
<1>1. CASE Next
  BY <1>1, TypeStep, MainStep, OneRequestStep, PointersStep, SendsStep DEF RouterInv
<1>2. CASE UNCHANGED vars
  BY <1>2 DEF vars, mainVars, cacheVars, sweepVars, RouterInv, TypeOK, MainTypeOK, CacheTypeOK,
              MainSound, OneRequestPerIp, PointersLive, Sends, Pending, MainPending,
              SweepPending, Listed
<1> QED BY <1>1, <1>2

(* The list of requests is sound although handle_arpreq runs without the     *)
(* lock: there is one request for an address, each with a packet that waits; *)
(* no thread holds a request that was freed; the two threads send at most    *)
(* one ARP request more than handle_arpreq means to.                         *)
THEOREM RequestsSafety == Spec => []RequestsSound
<1>1. RouterInv => RequestsSound
  <2> SUFFICES ASSUME RouterInv PROVE RequestsSound
    OBVIOUS
  <2>1. RetryBound
    <3> SUFFICES ASSUME NEW r \in Reqs PROVE heap[r].times_sent <= MaxSends + 1
      BY DEF RetryBound
    <3> DEFINE n == heap[r].times_sent
               x == Pending(r)
    <3>1. n \in Nat /\ x \in {0, 1, 2} /\ n + x <= MaxSends + 1 /\ MaxSends \in Nat
      BY RouterAssumption DEF RouterInv, TypeOK, CacheTypeOK, Request, Sends, Pending,
                              MainPending, SweepPending
    <3> HIDE DEF n, x
    <3>2. n <= MaxSends + 1
      BY <3>1
    <3> QED BY <3>2 DEF n
  <2> QED BY <2>1 DEF RouterInv, RequestsSound
<1> QED BY <1>1, RouterInit, RouterStep, PTL DEF Spec

-----------------------------------------------------------------------------
(* The packets: none is lost or doubled, and each goes to the station that    *)
(* answered for its next hop.                                                 *)

(* The packets received so far that are to be forwarded. *)
Onward == Packets \ (arriving \cup LastHop \cup (ToRouter \cap Icmp))

(* No element occurs twice. *)
Single(s) == \A i, j \in DOMAIN s : s[i] = s[j] => i = j

(* The packets that wait at request r. *)
Waiting(r) == Range(heap[r].packets)

Waits(p) == \E r \in Listed : p \in Waiting(r)

(* A packet to be forwarded is in one place, any other is nowhere. *)
OnePlace(p) ==
    /\ p \in Onward <=> packet = p \/ Waits(p) \/ p \in Range(rest) \/ Forwarded(p) # {}
    /\ packet = p => ~ Waits(p) /\ p \notin Range(rest) /\ Forwarded(p) = {}
    /\ Waits(p) => p \notin Range(rest) /\ Forwarded(p) = {}
    /\ p \in Range(rest) => Forwarded(p) = {}

(* It is there once. *)
OncePerPlace ==
    /\ \A r \in Listed : Single(heap[r].packets)
    /\ \A r, q \in Listed : r # q => Waiting(r) \cap Waiting(q) = {}
    /\ Single(rest)
    /\ \A p \in Packets : \A i, j \in Forwarded(p) : i = j

(* The packet thread has a packet, or packets to release, only where it       *)
(* passes them on.                                                            *)
HandsEmpty ==
    /\ main \notin {"lookup", "queue", "crashed"} => packet = None
    /\ main # "release" => rest = <<>>

HeldInv == OncePerPlace /\ HandsEmpty /\ \A p \in Packets : OnePlace(p)

(* The cache, the list and the packet thread know an address only from an     *)
(* announcement, and a packet only with a next hop of its own.                *)
Heard ==
    /\ \A i \in Entries : entries[i] # None =>
          [ip |-> Ntohl[entries[i].ip], mac |-> entries[i].mac] \in announced
    /\ main \in {"insert", "release", "destroy"} => reply \in announced

Bound ==
    /\ main \in {"lookup", "queue"} => hop \in HopChoices(packet)
    /\ \A r \in Listed : \A p \in Waiting(r) : Ntohl[heap[r].ip] \in HopChoices(p)
    /\ \A p \in Range(rest) : reply.ip \in HopChoices(p)

MacInv == Heard /\ Bound /\ MacAnnounced

(* No station that answers has the address of a next hop in reverse, unless   *)
(* that is the same address.  The cache stores addresses in host byte order   *)
(* and is asked for them in network byte order.                               *)
NoReversedNeighbour ==
    \A x \in Announcements, p \in Routed : Ntohl[x.ip] = Hop[p] => x.ip = Hop[p]

(* A sequence and its elements. *)
LEMMA RangeFacts ==
    ASSUME NEW S, NEW s \in Seq(S)
    PROVE  /\ DOMAIN s = 1 .. Len(s) /\ Len(s) \in Nat /\ Range(s) \subseteq S
           /\ \A x : x \in Range(s) <=> \E i \in 1 .. Len(s) : s[i] = x
<1>1. DOMAIN s = 1 .. Len(s) /\ Len(s) \in Nat /\ \A i \in 1 .. Len(s) : s[i] \in S
  OBVIOUS
<1>2. \A x : x \in Range(s) <=> \E i \in 1 .. Len(s) : s[i] = x
  BY <1>1 DEF Range
<1> QED BY <1>1, <1>2

(* An element that is put first. *)
LEMMA FirstFacts ==
    ASSUME NEW S, NEW s \in Seq(S), NEW p \in S, p \notin Range(s), Single(s)
    PROVE  /\ <<p>> \o s \in Seq(S) /\ Single(<<p>> \o s)
           /\ Range(<<p>> \o s) = Range(s) \cup {p}
<1> DEFINE u == <<p>> \o s
<1>1. Len(s) \in Nat /\ <<p>> \in Seq(S) /\ Len(<<p>>) = 1 /\ DOMAIN s = 1 .. Len(s)
  OBVIOUS
<1>2. u \in Seq(S) /\ Len(u) = Len(s) + 1
  BY <1>1
<1>3. u[1] = p
  BY <1>1
<1>4. \A i \in 1 .. (Len(s) + 1) : i # 1 => i - 1 \in 1 .. Len(s) /\ u[i] = s[i - 1]
  BY <1>1
<1>5. DOMAIN u = 1 .. (Len(s) + 1)
  BY <1>2
<1> HIDE DEF u
<1>6. ASSUME NEW i \in 1 .. Len(s)
      PROVE  i + 1 \in 1 .. (Len(s) + 1) /\ u[i + 1] = s[i]
  <2>1. i + 1 \in 1 .. (Len(s) + 1) /\ i + 1 # 1 /\ (i + 1) - 1 = i
    BY <1>1
  <2> QED BY <1>4, <2>1
<1>7. \A x : x \in Range(u) <=> \E i \in 1 .. (Len(s) + 1) : u[i] = x
  BY <1>5 DEF Range
<1>8. \A x : x \in Range(s) <=> \E i \in 1 .. Len(s) : s[i] = x
  BY RangeFacts
<1>9. 1 \in 1 .. (Len(s) + 1)
  BY <1>1
<1>10. Range(u) = Range(s) \cup {p}
  BY <1>3, <1>4, <1>6, <1>7, <1>8, <1>9
<1>11. ASSUME NEW i \in 1 .. (Len(s) + 1), NEW j \in 1 .. (Len(s) + 1), u[i] = u[j]
       PROVE  i = j
  <2>1. \A k \in 1 .. (Len(s) + 1) : k # 1 => u[k] # p
    BY <1>4, <1>8
  <2>2. CASE i = 1 \/ j = 1
    BY <1>3, <1>11, <2>1, <2>2
  <2>3. CASE i # 1 /\ j # 1
    <3>1. i - 1 \in 1 .. Len(s) /\ j - 1 \in 1 .. Len(s) /\ s[i - 1] = s[j - 1]
      BY <1>4, <1>11, <2>3
    <3>2. i - 1 = j - 1
      BY <1>1, <3>1 DEF Single
    <3> QED BY <1>1, <3>2
  <2> QED BY <2>2, <2>3
<1>12. Single(u)
  BY <1>5, <1>11 DEF Single
<1> QED BY <1>2, <1>10, <1>12 DEF u

(* The first element is taken off. *)
LEMMA TailFacts ==
    ASSUME NEW S, NEW s \in Seq(S), s # <<>>, Single(s)
    PROVE  /\ Head(s) \in S /\ Tail(s) \in Seq(S) /\ Single(Tail(s))
           /\ Head(s) \in Range(s) /\ Range(Tail(s)) = Range(s) \ {Head(s)}
<1> DEFINE t == Tail(s)
           n == Len(s)
<1>1. n \in Nat /\ n # 0 /\ DOMAIN s = 1 .. n
  OBVIOUS
<1>2. Head(s) = s[1] /\ 1 \in 1 .. n /\ Head(s) \in S
  BY <1>1
<1>3. t \in Seq(S) /\ Len(t) = n - 1
  BY <1>1
<1>4. \A i \in 1 .. (n - 1) : i + 1 \in 1 .. n /\ i + 1 # 1 /\ t[i] = s[i + 1]
  BY <1>1
<1>5. DOMAIN t = 1 .. (n - 1)
  BY <1>3
<1>6. \A x : x \in Range(s) <=> \E i \in 1 .. n : s[i] = x
  BY RangeFacts
<1> HIDE DEF t, n
<1>7. \A x : x \in Range(t) <=> \E i \in 1 .. (n - 1) : t[i] = x
  BY <1>5 DEF Range
<1>8. \A i, j \in 1 .. n : s[i] = s[j] => i = j
  BY <1>1 DEF Single
<1>9. ASSUME NEW i \in 1 .. n, i # 1 PROVE s[i] \in Range(t)
  <2>1. i - 1 \in 1 .. (n - 1) /\ (i - 1) + 1 = i
    BY <1>1, <1>9
  <2> QED BY <1>4, <1>7, <2>1
<1>10. Range(t) = Range(s) \ {Head(s)}
  BY <1>2, <1>4, <1>6, <1>7, <1>8, <1>9
<1>11. ASSUME NEW i \in 1 .. (n - 1), NEW j \in 1 .. (n - 1), t[i] = t[j] PROVE i = j
  <2>1. i + 1 = j + 1
    BY <1>4, <1>8, <1>11
  <2> QED BY <1>1, <2>1
<1>12. Single(t)
  BY <1>5, <1>11 DEF Single
<1> QED BY <1>2, <1>3, <1>6, <1>10, <1>12 DEF t

(* Taking a request off the list leaves the others on it. *)
LEMMA UnlinkKeeps ==
    ASSUME TypeOK, NEW r, NEW q \in Listed, q # r
    PROVE  q \in Range(Unlink(r))
<1> DEFINE u == Unlink(r)
           n == Len(requests)
<1>1. /\ requests \in Seq(Reqs) /\ n \in Nat /\ DOMAIN requests = 1 .. n
      /\ Listed = {requests[i] : i \in 1 .. n} /\ Listed \subseteq Reqs
  BY ListFacts
<1>2. CASE r \notin Listed
  BY <1>2 DEF Unlink, Listed
<1>3. CASE r \in Listed
  <2> DEFINE p == CHOOSE k \in DOMAIN requests : requests[k] = r
             a == SubSeq(requests, 1, p - 1)
             b == SubSeq(requests, p + 1, n)
  <2>1. \E k \in DOMAIN requests : requests[k] = r
    BY <1>1, <1>3
  <2>2. p \in 1 .. n /\ requests[p] = r
    BY <1>1, <2>1
  <2>3. u = a \o b
    BY <1>3 DEF Unlink
  <2> HIDE DEF p
  <2>4. a \in Seq(Reqs) /\ Len(a) = p - 1 /\ \A i \in 1 .. (p - 1) : a[i] = requests[i]
    BY <1>1, <2>2
  <2>5. b \in Seq(Reqs) /\ Len(b) = n - p /\ \A i \in 1 .. (n - p) : b[i] = requests[p + i]
    BY <1>1, <2>2, Upper
  <2> HIDE DEF a, b, u, n
  <2>6. u \in Seq(Reqs) /\ Len(u) = Len(a) + Len(b)
    BY <2>3, <2>4, <2>5, Joined
  <2>7. (p - 1) + (n - p) = n - 1
    BY <1>1, <2>2
  <2>8. \A x : x \in Range(u) <=> \E i \in 1 .. (n - 1) : u[i] = x
    BY <2>4, <2>5, <2>6, <2>7, RangeFacts
  <2> PICK k \in 1 .. n : requests[k] = q
    BY <1>1
  <2>9. k # p
    BY <2>2
  <2>10. CASE k < p
    <3>1. k \in 1 .. (p - 1) /\ k \in 1 .. Len(a) /\ k \in 1 .. (n - 1)
      BY <1>1, <2>2, <2>4, <2>10
    <3>2. u[k] = a[k]
      BY <2>3, <2>4, <2>5, <3>1
    <3> QED BY <2>4, <2>8, <3>1, <3>2 DEF u
  <2>11. CASE ~ (k < p)
    <3> DEFINE i == k - 1
               j == k - p
    <3>1. /\ j \in 1 .. (n - p) /\ i = Len(a) + j /\ p + j = k /\ i \in 1 .. (n - 1)
      BY <1>1, <2>2, <2>4, <2>9, <2>11
    <3> HIDE DEF i, j
    <3>2. u[i] = b[j]
      BY <2>3, <2>4, <2>5, <3>1
    <3>3. b[j] = requests[k]
      BY <2>5, <3>1
    <3> QED BY <2>8, <3>1, <3>2, <3>3 DEF u
  <2> QED BY <2>10, <2>11
<1> QED BY <1>2, <1>3

(* A message sent for a packet that is not the packet itself. *)
Notice == {EchoReply, ICMP(3, 3), ICMP(11, 0)}

(* What a packet was answered with is not a forwarded packet. *)
LEMMA NoticeFacts == Notice \subseteq Message /\ \A x \in Notice : x.kind # "forward"
BY DEF Notice, Message, EchoReply, ICMP

(* sr_send_packet of a packet itself. *)
LEMMA PassedOn ==
    ASSUME TypeOK, NEW p \in Packets, NEW m \in Macs, NEW h \in Addrs, Send(p, Forward(p, m, h))
    PROVE  /\ \A q \in Packets : q # p => out'[q] = out[q] /\ Forwarded(q)' = Forwarded(q)
           /\ Forwarded(p)' = Forwarded(p) \cup {Len(out[p]) + 1}
           /\ \A i \in Forwarded(p) : out'[p][i] = out[p][i]
           /\ out'[p][Len(out[p]) + 1] = Forward(p, m, h)
<1> DEFINE x == Forward(p, m, h)
           s == out[p]
           n == Len(s)
<1>1. x \in Message /\ x.kind = "forward"
  BY DEF Forward, Message
<1> HIDE DEF x
<1>2. out \in [Packets -> Seq(Message)]
  BY DEF TypeOK
<1>3. out' = [out EXCEPT ![p] = Append(s, x)]
  BY DEF Send, x
<1>4. out'[p] = Append(s, x) /\ \A q \in Packets : q # p => out'[q] = out[q]
  BY <1>2, <1>3
<1>5. s \in Seq(Message) /\ n \in Nat /\ DOMAIN s = 1 .. n
  BY <1>2
<1> HIDE DEF s
<1>6. /\ Append(s, x) \in Seq(Message) /\ Len(Append(s, x)) = n + 1
      /\ \A i \in 1 .. n : Append(s, x)[i] = s[i]
      /\ Append(s, x)[n + 1] = x
  BY <1>1, <1>5
<1>7. DOMAIN Append(s, x) = 1 .. (n + 1)
  BY <1>6
<1> HIDE DEF n
<1>8. Forwarded(p)' = {i \in 1 .. (n + 1) : out'[p][i].kind = "forward"}
  BY <1>4, <1>7 DEF Forwarded
<1>9. Forwarded(p) = {i \in 1 .. n : s[i].kind = "forward"}
  BY <1>5 DEF Forwarded, s
<1>10. \A i \in 1 .. (n + 1) : i \in 1 .. n \/ i = n + 1
  BY <1>5
<1>11. \A i \in 1 .. n : i \in 1 .. (n + 1)
  BY <1>5
<1>12. n + 1 \in 1 .. (n + 1)
  BY <1>5
<1>13. Forwarded(p)' = Forwarded(p) \cup {n + 1}
  BY <1>1, <1>4, <1>6, <1>8, <1>9, <1>10, <1>11, <1>12
<1>14. \A q \in Packets : q # p => Forwarded(q)' = Forwarded(q)
  BY <1>4 DEF Forwarded
<1>15. \A i \in Forwarded(p) : out'[p][i] = s[i]
  BY <1>4, <1>6, <1>9
<1> QED BY <1>4, <1>6, <1>13, <1>14, <1>15 DEF s, n, x

(* Nothing is forwarded. *)
Unsent ==
    \A q \in Packets :
        Forwarded(q)' = Forwarded(q) /\ \A i \in Forwarded(q) : out'[q][i] = out[q][i]

(* Answers to a packet, in a row, do not forward it. *)
LEMMA Answers ==
    ASSUME TypeOK, NEW p \in Packets, NEW a \in Seq(Notice),
           out' = [out EXCEPT ![p] = out[p] \o a]
    PROVE  Unsent
<1> DEFINE s == out[p]
           n == Len(s)
           m == Len(a)
<1>1. out \in [Packets -> Seq(Message)]
  BY DEF TypeOK
<1>2. out'[p] = s \o a /\ \A q \in Packets : q # p => out'[q] = out[q]
  BY <1>1
<1>3. s \in Seq(Message) /\ n \in Nat /\ DOMAIN s = 1 .. n
  BY <1>1
<1> HIDE DEF s
<1>4. m \in Nat /\ \A i \in 1 .. m : a[i].kind # "forward"
  BY NoticeFacts
<1>5. \A i \in 1 .. m : a[i] \in Message
  BY NoticeFacts
<1>6. a \in Seq(Message)
  BY <1>4, <1>5
<1>7. s \o a \in Seq(Message) /\ Len(s \o a) = n + m
  BY <1>3, <1>6, Joined
<1>8. DOMAIN (s \o a) = 1 .. (n + m)
  BY <1>7
<1>9. \A i \in 1 .. n : (s \o a)[i] = s[i]
  BY <1>3, <1>6
<1>10. \A i \in 1 .. (n + m) : ~ (i <= n) => i - n \in 1 .. m /\ (s \o a)[i] = a[i - n]
  BY <1>3, <1>4, <1>6
<1> HIDE DEF n, m
<1>11. Forwarded(p)' = {i \in 1 .. (n + m) : (s \o a)[i].kind = "forward"}
  BY <1>2, <1>8 DEF Forwarded
<1>12. Forwarded(p) = {i \in 1 .. n : s[i].kind = "forward"}
  BY <1>3 DEF Forwarded, s
<1>13. \A i \in 1 .. (n + m) : (s \o a)[i].kind = "forward" => i \in 1 .. n
  <2> SUFFICES ASSUME NEW i \in 1 .. (n + m), (s \o a)[i].kind = "forward"
               PROVE  i \in 1 .. n
    OBVIOUS
  <2>1. CASE i <= n
    BY <1>3, <1>4, <2>1
  <2>2. CASE ~ (i <= n)
    <3>1. i - n \in 1 .. m /\ (s \o a)[i] = a[i - n]
      BY <1>10, <2>2
    <3> QED BY <1>4, <3>1
  <2> QED BY <2>1, <2>2
<1>14. \A i \in 1 .. n : i \in 1 .. (n + m)
  BY <1>3, <1>4
<1>15. Forwarded(p)' = Forwarded(p)
  BY <1>9, <1>11, <1>12, <1>13, <1>14
<1>16. \A i \in Forwarded(p) : out'[p][i] = s[i]
  BY <1>2, <1>9, <1>12
<1>17. \A q \in Packets : q # p => Forwarded(q)' = Forwarded(q)
  BY <1>2 DEF Forwarded
<1> QED BY <1>2, <1>15, <1>16, <1>17 DEF Unsent, s

(* What sr_handlepacket answers to a packet. *)
LEMMA ErrorsFacts == ASSUME NEW p PROVE Errors(p) \in Seq(Notice)
<1>1. /\ ICMP(3, 3) \in Notice /\ ICMP(11, 0) \in Notice
  BY DEF Notice
<1> DEFINE a == IF p \in ToRouter THEN <<ICMP(3, 3)>> ELSE <<>>
           b == IF p \in LastHop THEN <<ICMP(11, 0)>> ELSE <<>>
<1>2. a \in Seq(Notice) /\ b \in Seq(Notice)
  BY <1>1
<1> HIDE DEF a, b
<1>3. a \o b \in Seq(Notice)
  BY <1>2, Joined
<1> QED BY <1>3 DEF Errors, a, b

(* Nothing is sent at all. *)
LEMMA Silent == ASSUME UNCHANGED out PROVE Unsent
BY DEF Unsent, Forwarded

-----------------------------------------------------------------------------
(* What a step can do with a packet. *)

ListKept ==
    /\ Listed' = Listed
    /\ \A r \in Listed : heap'[r].packets = heap[r].packets /\ heap'[r].ip = heap[r].ip

(* Nothing. *)
Stays == ListKept /\ Unsent /\ Onward' = Onward /\ packet' = packet /\ rest' = rest

(* The packet thread takes it on. *)
TakenOn(p) ==
    /\ ListKept /\ Unsent /\ rest' = rest
    /\ p \notin Onward /\ Onward' = Onward \cup {p}
    /\ packet = None /\ packet' = p

(* The packet thread sends it. *)
SentOn(p) ==
    /\ ListKept /\ Onward' = Onward
    /\ \A q \in Packets : q # p => Forwarded(q)' = Forwarded(q)
    /\ \E k : Forwarded(p)' = Forwarded(p) \cup {k}

(* The packet in hand joins those that wait for the same answer. *)
Joins(p, r) ==
    /\ Unsent /\ Onward' = Onward /\ packet = p /\ packet' = None /\ rest' = rest
    /\ r \in Reqs /\ Listed' = Listed \cup {r}
    /\ \A q \in Listed : q # r => heap'[q] = heap[q]
    /\ heap'[r].packets = IF r \in Listed THEN <<p>> \o heap[r].packets ELSE <<p>>

(* The packets that wait at r are released. *)
Freed(r) ==
    /\ Unsent /\ Onward' = Onward /\ packet' = packet /\ heap' = heap
    /\ r \in Listed /\ Listed' = Listed \ {r}
    /\ rest = <<>> /\ rest' = heap[r].packets

Located == OncePerPlace /\ \A p \in Packets : OnePlace(p)

(* The waiting packets of a request are packets. *)
LEMMA WaitingFacts ==
    ASSUME TypeOK, NEW r \in Listed
    PROVE  heap[r].packets \in Seq(Packets) /\ Waiting(r) \subseteq Packets /\ r \in Reqs
<1>1. r \in Reqs
  BY ListFacts
<1>2. heap[r].packets \in Seq(Packets)
  BY <1>1 DEF TypeOK, CacheTypeOK, Request
<1>3. Waiting(r) \subseteq Packets
  BY <1>2, RangeFacts DEF Waiting
<1> QED BY <1>1, <1>2, <1>3

(* When the list is left alone the same packets wait. *)
LEMMA ListKeptFacts ==
    ASSUME ListKept
    PROVE  /\ \A r \in Listed : Waiting(r)' = Waiting(r)
           /\ \A p : Waits(p)' = Waits(p)
<1>1. \A r \in Listed : Waiting(r)' = Waiting(r)
  BY DEF ListKept, Waiting, Range
<1>2. ASSUME NEW p PROVE Waits(p)' <=> Waits(p)
  BY <1>1 DEF ListKept, Waits
<1>3. ASSUME NEW p PROVE Waits(p)' = Waits(p)
  BY <1>2 DEF Waits
<1> QED BY <1>1, <1>3

(* Nor does it let a packet wait twice. *)
LEMMA ListOnce ==
    ASSUME OncePerPlace, ListKept
    PROVE  /\ \A r \in Listed' : Single(heap'[r].packets)
           /\ \A r, q \in Listed' : r # q => Waiting(r)' \cap Waiting(q)' = {}
<1>1. /\ \A r \in Listed : Single(heap[r].packets)
      /\ \A r, q \in Listed : r # q => Waiting(r) \cap Waiting(q) = {}
  BY DEF OncePerPlace
<1>2. \A r \in Listed : Waiting(r)' = Waiting(r)
  BY ListKeptFacts
<1>3. Listed' = Listed /\ \A r \in Listed : heap'[r].packets = heap[r].packets
  BY DEF ListKept
<1> QED BY <1>1, <1>2, <1>3

(* A packet that stays is still in one place. *)
LEMMA StaysKeeps == ASSUME Located, Stays PROVE Located'
<1>1. ListKept /\ rest' = rest /\ packet' = packet /\ Onward' = Onward
  BY DEF Stays
<1>2. \A q \in Packets : Forwarded(q)' = Forwarded(q)
  BY DEF Stays, Unsent
<1>3. OncePerPlace'
  BY <1>1, <1>2, ListOnce DEF Located, OncePerPlace
<1>4. ASSUME NEW p \in Packets PROVE OnePlace(p)'
  <2>1. Waits(p)' = Waits(p) /\ Forwarded(p)' = Forwarded(p)
    BY <1>1, <1>2, ListKeptFacts
  <2> QED BY <1>1, <2>1 DEF Located, OnePlace
<1> QED BY <1>3, <1>4 DEF Located

(* A packet that is received is in hand. *)
LEMMA TakenOnKeeps == ASSUME Located, NEW p \in Packets, TakenOn(p) PROVE Located'
<1>1. ListKept /\ rest' = rest /\ packet = None /\ packet' = p /\ Onward' = Onward \cup {p}
  BY DEF TakenOn
<1>2. \A q \in Packets : Forwarded(q)' = Forwarded(q)
  BY DEF TakenOn, Unsent
<1>3. OncePerPlace'
  BY <1>1, <1>2, ListOnce DEF Located, OncePerPlace
<1>4. ASSUME NEW q \in Packets PROVE OnePlace(q)'
  <2>1. Waits(q)' = Waits(q) /\ Forwarded(q)' = Forwarded(q)
    BY <1>1, <1>2, ListKeptFacts
  <2>2. OnePlace(q) /\ q # None
    BY RouterAssumption DEF Located
  <2>3. CASE q = p
    <3>1. ~ Waits(q) /\ q \notin Range(rest) /\ Forwarded(q) = {}
      BY <2>2, <2>3 DEF OnePlace, TakenOn
    <3> QED BY <1>1, <2>1, <2>3, <3>1 DEF OnePlace
  <2>4. CASE q # p
    BY <1>1, <2>1, <2>2, <2>4 DEF OnePlace
  <2> QED BY <2>3, <2>4
<1> QED BY <1>3, <1>4 DEF Located

(* A packet that is sent was nowhere else, whether it was in hand... *)
LEMMA SentOnKeeps ==
    ASSUME Located, NEW p \in Packets, SentOn(p), packet = p, packet' = None, rest' = rest
    PROVE  Located'
<1>1. ListKept /\ Onward' = Onward /\ \A q \in Packets : q # p => Forwarded(q)' = Forwarded(q)
  BY DEF SentOn
<1>2. PICK k : Forwarded(p)' = Forwarded(p) \cup {k}
  BY DEF SentOn
<1>3. OnePlace(p) /\ Forwarded(p) = {} /\ ~ Waits(p) /\ p \notin Range(rest) /\ p \in Onward
  BY DEF Located, OnePlace
<1>4. Forwarded(p)' = {k}
  BY <1>2, <1>3
<1>5. OncePerPlace'
  <2>1. \A q \in Packets : \A i, j \in Forwarded(q)' : i = j
    BY <1>1, <1>4 DEF Located, OncePerPlace
  <2> QED BY <1>1, <2>1, ListOnce DEF Located, OncePerPlace
<1>6. ASSUME NEW q \in Packets PROVE OnePlace(q)'
  <2>1. Waits(q)' = Waits(q) /\ OnePlace(q) /\ q # None
    BY <1>1, ListKeptFacts, RouterAssumption DEF Located
  <2>2. CASE q = p
    BY <1>1, <1>3, <1>4, <2>1, <2>2 DEF OnePlace
  <2>3. CASE q # p
    BY <1>1, <2>1, <2>3 DEF OnePlace
  <2> QED BY <2>2, <2>3
<1> QED BY <1>5, <1>6 DEF Located

(* ... or among those to be released. *)
LEMMA ReleasedKeeps ==
    ASSUME TypeOK, Located, NEW p \in Packets, rest # <<>>, p = Head(rest), SentOn(p),
           packet' = packet, rest' = Tail(rest)
    PROVE  Located'
<1>1. /\ rest \in Seq(Packets) /\ Single(rest)
  BY DEF TypeOK, MainTypeOK, Located, OncePerPlace
<1>2. /\ p \in Packets /\ p \in Range(rest) /\ Single(rest') /\ Range(rest') = Range(rest) \ {p}
  BY <1>1, TailFacts
<1>3. ListKept /\ Onward' = Onward /\ \A q \in Packets : q # p => Forwarded(q)' = Forwarded(q)
  BY DEF SentOn
<1>4. PICK k : Forwarded(p)' = Forwarded(p) \cup {k}
  BY DEF SentOn
<1>5. OnePlace(p) /\ Forwarded(p) = {} /\ ~ Waits(p) /\ packet # p /\ p \in Onward
  BY <1>2 DEF Located, OnePlace
<1>6. Forwarded(p)' = {k}
  BY <1>4, <1>5
<1>7. OncePerPlace'
  <2>1. \A q \in Packets : \A i, j \in Forwarded(q)' : i = j
    BY <1>3, <1>6 DEF Located, OncePerPlace
  <2> QED BY <1>2, <1>3, <2>1, ListOnce DEF Located, OncePerPlace
<1>8. ASSUME NEW q \in Packets PROVE OnePlace(q)'
  <2>1. Waits(q)' = Waits(q) /\ OnePlace(q)
    BY <1>3, ListKeptFacts DEF Located
  <2>2. CASE q = p
    BY <1>2, <1>3, <1>5, <1>6, <2>1, <2>2 DEF OnePlace
  <2>3. CASE q # p
    BY <1>2, <1>3, <2>1, <2>3 DEF OnePlace
  <2> QED BY <2>2, <2>3
<1> QED BY <1>7, <1>8 DEF Located

(* A packet joins those that wait at a request. *)
LEMMA JoinedFacts ==
    ASSUME TypeOK, Located, NEW p \in Packets, NEW r, Joins(p, r)
    PROVE  /\ \A q \in Listed : p \notin Waiting(q)
           /\ \A q \in Listed : q # r => Waiting(q)' = Waiting(q)
           /\ Single(heap'[r].packets)
           /\ Waiting(r)' = IF r \in Listed THEN Waiting(r) \cup {p} ELSE {p}
<1>1. /\ packet = p /\ \A q \in Listed : q # r => heap'[q] = heap[q]
      /\ heap'[r].packets = IF r \in Listed THEN <<p>> \o heap[r].packets ELSE <<p>>
  BY DEF Joins
<1>2. \A q \in Listed : p \notin Waiting(q)
  BY <1>1 DEF Located, OnePlace, Waits
<1>3. \A q \in Listed : q # r => Waiting(q)' = Waiting(q)
  BY <1>1 DEF Waiting
<1>4. CASE r \in Listed
  <2>1. heap[r].packets \in Seq(Packets) /\ p \notin Range(heap[r].packets)
    BY <1>2, <1>4, WaitingFacts DEF Waiting
  <2>2. Single(heap[r].packets)
    BY <1>4 DEF Located, OncePerPlace
  <2>3. Single(heap'[r].packets) /\ Waiting(r)' = Waiting(r) \cup {p}
    BY <1>1, <1>4, <2>1, <2>2, FirstFacts DEF Waiting
  <2> QED BY <1>2, <1>3, <1>4, <2>3
<1>5. CASE r \notin Listed
  <2>1. heap'[r].packets = <<p>>
    BY <1>1, <1>5
  <2>2. Single(<<p>>) /\ Range(<<p>>) = {p}
    BY DEF Single, Range
  <2>3. Single(heap'[r].packets) /\ Waiting(r)' = {p}
    BY <2>1, <2>2 DEF Waiting
  <2> QED BY <1>2, <1>3, <1>5, <2>3
<1> QED BY <1>4, <1>5

(* A packet that joins the others waits, once. *)
LEMMA JoinsKeeps ==
    ASSUME TypeOK, Located, NEW p \in Packets, NEW r, Joins(p, r)
    PROVE  Located'
<1>1. /\ Onward' = Onward /\ packet = p /\ packet' = None /\ rest' = rest
      /\ Listed' = Listed \cup {r} /\ \A q \in Listed : q # r => heap'[q] = heap[q]
      /\ heap'[r].packets = IF r \in Listed THEN <<p>> \o heap[r].packets ELSE <<p>>
  BY DEF Joins
<1>2. \A q \in Packets : Forwarded(q)' = Forwarded(q)
  BY DEF Joins, Unsent
<1>3. OnePlace(p) /\ Forwarded(p) = {} /\ ~ Waits(p) /\ p \notin Range(rest) /\ p \in Onward
  BY <1>1 DEF Located, OnePlace
<1>4. \A q \in Listed : p \notin Waiting(q)
  BY JoinedFacts
<1>5. \A q \in Listed : q # r => Waiting(q)' = Waiting(q)
  BY JoinedFacts
<1>6. /\ Single(heap'[r].packets)
      /\ Waiting(r)' = IF r \in Listed THEN Waiting(r) \cup {p} ELSE {p}
  BY JoinedFacts
<1>7. \A q \in Packets : Waits(q)' <=> Waits(q) \/ q = p
  <2> SUFFICES ASSUME NEW q \in Packets PROVE Waits(q)' <=> Waits(q) \/ q = p
    OBVIOUS
  <2>1. Waits(q)' <=> \E s \in Listed \cup {r} : q \in Waiting(s)'
    BY <1>1 DEF Waits
  <2>2. q \in Waiting(r)' <=> (r \in Listed /\ q \in Waiting(r)) \/ q = p
    BY <1>6
  <2> QED BY <1>5, <2>1, <2>2 DEF Waits
<1>8. OncePerPlace'
  <2>1. \A s \in Listed' : Single(heap'[s].packets)
    BY <1>1, <1>6 DEF Located, OncePerPlace
  <2>2. \A s, q \in Listed : s # q => Waiting(s) \cap Waiting(q) = {}
    BY DEF Located, OncePerPlace
  <2>3. \A q \in Listed : q # r => Waiting(r)' \cap Waiting(q)' = {}
    BY <1>4, <1>5, <1>6, <2>2
  <2>4. \A s, q \in Listed' : s # q => Waiting(s)' \cap Waiting(q)' = {}
    BY <1>1, <1>5, <2>2, <2>3
  <2> QED BY <1>1, <1>2, <2>1, <2>4 DEF Located, OncePerPlace
<1>9. ASSUME NEW q \in Packets PROVE OnePlace(q)'
  <2>1. OnePlace(q) /\ Forwarded(q)' = Forwarded(q) /\ q # None
    BY <1>2, RouterAssumption DEF Located
  <2>2. Waits(q)' <=> Waits(q) \/ q = p
    BY <1>7
  <2>3. CASE q = p
    BY <1>1, <1>3, <2>1, <2>2, <2>3 DEF OnePlace
  <2>4. CASE q # p
    BY <1>1, <2>1, <2>2, <2>4 DEF OnePlace
  <2> QED BY <2>3, <2>4
<1> QED BY <1>8, <1>9 DEF Located

(* The packets that waited at a request are released, all of them. *)
LEMMA FreedKeeps ==
    ASSUME TypeOK, Located, NEW r, Freed(r)
    PROVE  Located'
<1>1. /\ Onward' = Onward /\ packet' = packet /\ heap' = heap /\ r \in Listed
      /\ Listed' = Listed \ {r} /\ rest = <<>> /\ rest' = heap[r].packets
  BY DEF Freed
<1>2. \A q \in Packets : Forwarded(q)' = Forwarded(q)
  BY DEF Freed, Unsent
<1>3. \A q : Waiting(q)' = Waiting(q)
  BY <1>1 DEF Waiting
<1>4. Range(rest) = {} /\ Range(rest') = Waiting(r)
  BY <1>1 DEF Range, Waiting
<1>5. \A s, q \in Listed : s # q => Waiting(s) \cap Waiting(q) = {}
  BY DEF Located, OncePerPlace
<1>6. OncePerPlace'
  <2>1. Single(rest') /\ \A s \in Listed' : Single(heap'[s].packets)
    BY <1>1 DEF Located, OncePerPlace
  <2>2. \A s, q \in Listed' : s # q => Waiting(s)' \cap Waiting(q)' = {}
    BY <1>1, <1>3, <1>5
  <2> QED BY <1>2, <2>1, <2>2 DEF Located, OncePerPlace
<1>7. ASSUME NEW p \in Packets PROVE OnePlace(p)'
  <2>1. OnePlace(p) /\ Forwarded(p)' = Forwarded(p)
    BY <1>2 DEF Located
  <2>2. Waits(p)' <=> \E s \in Listed \ {r} : p \in Waiting(s)
    BY <1>1, <1>3 DEF Waits
  <2>3. Waits(p) <=> Waits(p)' \/ p \in Range(rest')
    BY <1>1, <1>4, <2>2 DEF Waits
  <2>4. ~ (Waits(p)' /\ p \in Range(rest'))
    BY <1>1, <1>4, <1>5, <2>2
  <2>5. /\ p \in Onward' <=> packet' = p \/ Waits(p)' \/ p \in Range(rest') \/ Forwarded(p)' # {}
        /\ packet' = p => ~ Waits(p)' /\ p \notin Range(rest') /\ Forwarded(p)' = {}
        /\ Waits(p)' => p \notin Range(rest') /\ Forwarded(p)' = {}
        /\ p \in Range(rest') => Forwarded(p)' = {}
    BY <1>1, <1>4, <2>1, <2>3, <2>4 DEF OnePlace
  <2> QED BY <2>5 DEF OnePlace
<1> QED BY <1>6, <1>7 DEF Located

-----------------------------------------------------------------------------
(* What the actions do with the packets. *)

(* The steps that neither list a request nor take one off. *)
LEMMA ListKeptBy ==
    ASSUME RouterInv, Elsewhere \/ MainSend \/ SweepSend \/ Destroy
    PROVE  ListKept
<1>1. CASE Elsewhere
  BY <1>1, ElsewhereFacts DEF ListKept
<1>2. CASE MainSend \/ SweepSend
  BY <1>2, BroadcastFacts, ListFacts DEF ListKept, RouterInv
<1>3. CASE Destroy
  BY <1>3, DestroyFacts DEF ListKept
<1> QED BY <1>1, <1>2, <1>3

(* The steps that move no packet: answers to packets that end at the router, *)
(* ARP packets, the ARP requests of both threads and the passing of time.    *)
LEMMA StaysBy ==
    ASSUME RouterInv,
           \/ \E p \in Packets : RecvEcho(p) \/ (RecvIp(p) /\ p \in LastHop)
           \/ \E x \in Announcements : RecvArpReply(x)
           \/ RecvArpRequest \/ LookupMiss \/ MainCheck \/ MainSend \/ Destroy
           \/ Wake \/ SweepCheck \/ SweepSend \/ Tick
    PROVE  Stays
<1>1. ListKept
  BY ListKeptBy DEF Elsewhere, Receive
<1>2. ASSUME NEW p \in Packets, RecvEcho(p) PROVE Stays
  <2>1. EchoReply \in Notice /\ <<EchoReply>> \in Seq(Notice)
    BY DEF Notice
  <2>2. out' = [out EXCEPT ![p] = Append(out[p], EchoReply)] /\ out[p] \in Seq(Message)
    BY <1>2 DEF RecvEcho, Send, RouterInv, TypeOK
  <2>3. Append(out[p], EchoReply) = out[p] \o <<EchoReply>>
    <3>1. EchoReply \in Message
      BY <2>1, NoticeFacts
    <3> QED BY <2>2, <3>1, AppendIsConcat
  <2>4. Unsent
    BY <2>1, <2>2, <2>3, Answers DEF RouterInv
  <2>5. Onward' = Onward
    BY <1>2 DEF Onward, RecvEcho, TakePacket
  <2> QED BY <1>1, <1>2, <2>4, <2>5 DEF Stays, RecvEcho
<1>3. ASSUME NEW p \in Packets, RecvIp(p), p \in LastHop PROVE Stays
  <2>1. Errors(p) \in Seq(Notice) /\ out' = [out EXCEPT ![p] = out[p] \o Errors(p)]
    BY <1>3, ErrorsFacts DEF RecvIp
  <2>2. Unsent
    BY <2>1, Answers DEF RouterInv
  <2>3. Onward' = Onward
    BY <1>3 DEF Onward, RecvIp, TakePacket
  <2> QED BY <1>1, <1>3, <2>2, <2>3 DEF Stays, RecvIp
<1>4. ASSUME UNCHANGED <<arriving, packet, rest, out>> PROVE Stays
  BY <1>1, <1>4, Silent DEF Stays, Onward
<1>5. CASE \/ \E x \in Announcements : RecvArpReply(x)
           \/ RecvArpRequest \/ LookupMiss \/ MainCheck \/ MainSend \/ Destroy
           \/ Wake \/ SweepCheck \/ SweepSend \/ Tick
  BY <1>4, <1>5 DEF RecvArpReply, RecvArpRequest, LookupMiss, MainCheck, MainSend, Destroy, Wake,
                    SweepCheck, SweepSend, Tick, mainVars
<1> QED BY <1>2, <1>3, <1>5

(* sr_handlepacket takes on a packet that it will forward. *)
LEMMA TakenOnBy ==
    ASSUME RouterInv, HeldInv, NEW p \in Packets, RecvIp(p), p \notin LastHop
    PROVE  TakenOn(p)
<1>1. ListKept
  BY ListKeptBy DEF Elsewhere, Receive
<1>2. Errors(p) \in Seq(Notice) /\ out' = [out EXCEPT ![p] = out[p] \o Errors(p)]
  BY ErrorsFacts DEF RecvIp
<1>3. Unsent
  BY <1>2, Answers DEF RouterInv
<1>4. p \notin Onward /\ Onward' = Onward \cup {p}
  BY DEF Onward, RecvIp, TakePacket
<1>5. packet = None /\ packet' = p /\ rest' = rest
  BY DEF HeldInv, HandsEmpty, RecvIp, TakePacket
<1> QED BY <1>1, <1>3, <1>4, <1>5 DEF TakenOn

(* A packet is sent, straight away or when the answer has come. *)
LEMMA SentOnBy ==
    ASSUME RouterInv, ListKept, UNCHANGED arriving,
           NEW p \in Packets, NEW m \in Macs, NEW h \in Addrs, Send(p, Forward(p, m, h))
    PROVE  SentOn(p)
<1>1. /\ \A q \in Packets : q # p => Forwarded(q)' = Forwarded(q)
      /\ Forwarded(p)' = Forwarded(p) \cup {Len(out[p]) + 1}
  BY PassedOn DEF RouterInv
<1>2. Onward' = Onward
  BY DEF Onward
<1> QED BY <1>1, <1>2 DEF SentOn

(* A cache entry that is used has the address that was asked for. *)
LEMMA HitFacts ==
    ASSUME RouterInv, LookupHit
    PROVE  /\ packet \in Packets /\ hop \in Addrs
           /\ \E i \in Entries : /\ entries[i] # None /\ entries[i].ip = hop
                                 /\ entries[i].mac \in Macs
                                 /\ Send(packet, Forward(packet, entries[i].mac, hop))
<1>1. packet \in Packets /\ hop \in Addrs
  BY DEF RouterInv, MainSound, LookupHit
<1>2. PICK i \in Found(hop) : Send(packet, Forward(packet, entries[i].mac, hop))
  BY DEF LookupHit
<1>3. i \in Entries /\ entries[i] # None /\ entries[i].ip = hop
  BY <1>2 DEF Found
<1>4. entries[i].mac \in Macs
  BY <1>3 DEF RouterInv, TypeOK, CacheTypeOK
<1> QED BY <1>1, <1>2, <1>3, <1>4

(* sr_arpcache_queuereq puts the packet first at the request for its hop. *)
LEMMA JoinsBy ==
    ASSUME RouterInv, QueueReq
    PROVE  \E p \in Packets, r \in Reqs :
               /\ Joins(p, r) /\ p = packet /\ heap'[r].ip = Ntohl[hop]
               /\ r \in Listed => heap[r].ip = Ntohl[hop]
<1> DEFINE a == Ntohl[hop]
<1>1. heap \in [Reqs -> Request] /\ Listed \subseteq Reqs
  BY ListFacts DEF RouterInv, TypeOK, CacheTypeOK
<1>2. packet \in Packets /\ a \in Addrs
  BY RouterAssumption DEF RouterInv, MainSound, QueueReq
<1> HIDE DEF a
<1>3. PICK p \in Packets : p = packet
  BY <1>2
<1>4. PICK r \in Reqs : r = req'
  BY QueueFacts
<1>5. Listed' = Listed \cup {r} /\ \A q \in Listed : q # r => heap'[q] = heap[q]
  BY <1>1, <1>4, QueueFacts
<1>6. Unsent
  BY Silent DEF QueueReq
<1>7. Onward' = Onward /\ packet' = None /\ rest' = rest
  BY DEF QueueReq, Onward
<1>8. /\ heap'[r].packets = IF r \in Listed THEN <<p>> \o heap[r].packets ELSE <<p>>
      /\ heap'[r].ip = a /\ (r \in Listed => heap[r].ip = a)
  <2>1. CASE \E q \in RequestFor(a) :
               heap' = [heap EXCEPT ![q].packets = WaitFirst(@, packet)] /\ req' = q
    <3> PICK q \in RequestFor(a) :
               heap' = [heap EXCEPT ![q].packets = WaitFirst(@, packet)] /\ req' = q
      BY <2>1
    <3>1. r \in Listed /\ heap[r].ip = a /\ q = r
      BY <1>4 DEF RequestFor
    <3>2. heap'[r] = [heap[r] EXCEPT !.packets = WaitFirst(@, p)] /\ heap[r] \in Request
      BY <1>1, <1>3, <3>1
    <3> DEFINE h == heap[r]
               k == heap'[r]
               w == WaitFirst(h.packets, p)
    <3>3. k = [h EXCEPT !.packets = w] /\ h \in Request
      BY <3>2
    <3> HIDE DEF h, k, w
    <3>4. k.packets = w /\ k.ip = h.ip
      BY <3>3 DEF Request
    <3> QED BY <3>1, <3>4 DEF h, k, w, WaitFirst
  <2>2. CASE \E q \in Reqs :
               /\ heap[q] = Unused /\ req' = q
               /\ heap' = [heap EXCEPT ![q] = [Unused EXCEPT !.live = TRUE, !.ip = a,
                                                             !.packets = <<packet>>]]
    <3>1. /\ heap[r] = Unused
          /\ heap'[r] = [Unused EXCEPT !.live = TRUE, !.ip = a, !.packets = <<p>>]
      BY <1>1, <1>3, <1>4, <2>2
    <3>2. ~ heap[r].live /\ r \notin Listed
      BY <3>1 DEF Unused, RouterInv, PointersLive
    <3>3. heap'[r].packets = <<p>> /\ heap'[r].ip = a
      BY <3>1 DEF Unused
    <3> QED BY <3>2, <3>3
  <2> QED BY <2>1, <2>2 DEF QueueReq, a
<1> QED BY <1>3, <1>4, <1>5, <1>6, <1>7, <1>8 DEF Joins, a

(* sr_arpcache_insert takes the request for the address off the list, and    *)
(* the packets that wait there with it; or there was none.                   *)
LEMMA FreedBy ==
    ASSUME RouterInv, HeldInv, Insert
    PROVE  \/ Stays /\ ListKept /\ main' = "destroy"
           \/ \E r \in Listed : Freed(r) /\ heap[r].ip = Ntohl[reply.ip] /\ main' = "release"
<1>1. Unsent /\ Onward' = Onward /\ packet' = packet /\ heap' = heap
  BY Silent DEF Insert, Onward
<1>2. TypeOK /\ OneRequestPerIp /\ rest = <<>>
  BY DEF RouterInv, HeldInv, HandsEmpty, Insert
<1>3. ASSUME NEW r \in RequestFor(Ntohl[reply.ip]), requests' = Unlink(r),
             rest' = heap[r].packets
      PROVE  r \in Listed /\ Freed(r) /\ heap[r].ip = Ntohl[reply.ip]
  <2>1. r \in Listed /\ heap[r].ip = Ntohl[reply.ip]
    BY DEF RequestFor
  <2>2. Range(Unlink(r)) \subseteq Listed \ {r}
    BY <1>2, UnlinkFacts
  <2>3. \A q \in Listed \ {r} : q \in Range(Unlink(r))
    BY <1>2, UnlinkKeeps
  <2>4. Listed' = Range(Unlink(r))
    BY <1>3 DEF Listed
  <2>5. Listed' = Listed \ {r}
    BY <2>2, <2>3, <2>4
  <2> QED BY <1>1, <1>2, <1>3, <2>1, <2>5 DEF Freed
<1>4. ASSUME UNCHANGED <<requests, rest>> PROVE Stays /\ ListKept
  BY <1>1, <1>4 DEF Stays, ListKept, Listed
<1> QED BY <1>3, <1>4 DEF Insert

(* Which of these a step is. *)
LEMMA Cases ==
    ASSUME RouterInv, HeldInv, Next
    PROVE  \/ Stays
           \/ \E p \in Packets : TakenOn(p)
           \/ \E p \in Packets : SentOn(p) /\ packet = p /\ packet' = None /\ rest' = rest
           \/ \E p \in Packets : /\ SentOn(p) /\ rest # <<>> /\ p = Head(rest)
                                 /\ packet' = packet /\ rest' = Tail(rest)
           \/ \E p \in Packets, r \in Reqs : Joins(p, r)
           \/ \E r \in Listed : Freed(r)
<1>1. CASE Receive
  <2>1. ASSUME NEW p \in Packets, RecvIp(p), p \notin LastHop PROVE TakenOn(p)
    BY <2>1, TakenOnBy
  <2> QED BY <1>1, <2>1, StaysBy DEF Receive
<1>2. CASE LookupHit
  <2>1. PICK i \in Entries : /\ entries[i].mac \in Macs /\ packet \in Packets /\ hop \in Addrs
                             /\ Send(packet, Forward(packet, entries[i].mac, hop))
    BY <1>2, HitFacts
  <2>2. PICK p \in Packets : p = packet
    BY <2>1
  <2>3. Send(p, Forward(p, entries[i].mac, hop))
    BY <2>1, <2>2
  <2>4. ListKept /\ UNCHANGED <<arriving, rest>> /\ packet' = None
    BY <1>2, ListKeptBy DEF Elsewhere, LookupHit, GoIdle
  <2>5. SentOn(p)
    BY <2>1, <2>3, <2>4, SentOnBy
  <2> QED BY <2>2, <2>4, <2>5
<1>3. CASE Release
  <2>1. ListKept /\ UNCHANGED <<arriving, packet>>
    BY <1>3, ListKeptBy DEF Elsewhere, Release
  <2>2. CASE rest = <<>>
    <3>1. UNCHANGED <<rest, out>>
      BY <1>3, <2>2 DEF Release
    <3>2. Stays
      BY <2>1, <3>1, Silent DEF Stays, Onward
    <3> QED BY <3>2
  <2>3. CASE rest # <<>>
    <3>1. reply \in Announcements
      BY <1>3 DEF RouterInv, MainSound, Release
    <3>2. reply.mac \in Macs /\ reply.ip \in Addrs
      BY <3>1, RouterAssumption
    <3>3. Head(rest) \in Packets
      BY <2>3, TailFacts DEF RouterInv, TypeOK, MainTypeOK, HeldInv, OncePerPlace
    <3>4. PICK p \in Packets : p = Head(rest)
      BY <3>3
    <3>5. Send(p, Forward(p, reply.mac, reply.ip)) /\ rest' = Tail(rest)
      BY <1>3, <2>3, <3>4 DEF Release
    <3>6. SentOn(p)
      BY <2>1, <3>2, <3>5, SentOnBy
    <3> QED BY <2>1, <2>3, <3>4, <3>5, <3>6
  <2> QED BY <2>2, <2>3
<1>4. CASE QueueReq
  BY <1>4, JoinsBy
<1>5. CASE Insert
  BY <1>5, FreedBy
<1>6. CASE LookupMiss \/ MainCheck \/ MainSend \/ Destroy \/ Sweep \/ Tick
  BY <1>6, StaysBy DEF Sweep
<1> QED BY <1>1, <1>2, <1>3, <1>4, <1>5, <1>6 DEF Next, Main

(* The packet thread gives away what it holds before it does anything else. *)
LEMMA HandsStep ==
    ASSUME RouterInv, HeldInv, Next
    PROVE  HandsEmpty'
<1>1. HandsEmpty
  BY DEF HeldInv
<1>2. CASE Receive
  <2>1. ASSUME NEW p \in Packets, RecvIp(p) PROVE HandsEmpty'
    BY <1>1, <2>1 DEF HandsEmpty, RecvIp, TakePacket
  <2> QED BY <1>1, <1>2, <2>1 DEF HandsEmpty, Receive, RecvEcho, TakePacket, RecvArpReply,
                                  RecvArpRequest
<1>3. CASE Main
  BY <1>1, <1>3 DEF HandsEmpty, Main, LookupHit, GoIdle, LookupMiss, QueueReq, MainCheck, MainSend,
                    Insert, Release, Destroy
<1>4. CASE Sweep \/ Tick
  BY <1>1, <1>4 DEF HandsEmpty, Sweep, Tick, Wake, SweepCheck, SweepSend, mainVars
<1> QED BY <1>2, <1>3, <1>4 DEF Next

(* Every step keeps each packet in one place. *)
LEMMA HeldStep ==
    ASSUME RouterInv, HeldInv, [Next]_vars
    PROVE  HeldInv'
<1>1. TypeOK /\ Located
  BY DEF RouterInv, HeldInv, Located
<1>2. CASE Next
  <2>1. Located'
    BY <1>1, <1>2, Cases, StaysKeeps, TakenOnKeeps, SentOnKeeps, ReleasedKeeps, JoinsKeeps,
       FreedKeeps
  <2> QED BY <1>2, <2>1, HandsStep DEF HeldInv, Located
<1>3. CASE UNCHANGED vars
  <2>1. ListKept /\ Unsent
    BY <1>3, Silent DEF vars, cacheVars, ListKept, Listed
  <2>2. Stays /\ HandsEmpty'
    BY <1>3, <2>1 DEF Stays, Onward, vars, mainVars, HeldInv, HandsEmpty
  <2>3. Located'
    BY <1>1, <2>2, StaysKeeps
  <2> QED BY <2>2, <2>3 DEF HeldInv, Located
<1> QED BY <1>2, <1>3

(* At first every packet is still to come. *)
LEMMA HeldInit == Init => HeldInv
<1> SUFFICES ASSUME Init PROVE HeldInv
  OBVIOUS
<1>1. Listed = {} /\ Range(rest) = {} /\ DOMAIN rest = {} /\ packet = None /\ rest = <<>>
  BY DEF Init, Listed, Range
<1>2. \A p \in Packets : Forwarded(p) = {}
  BY DEF Init, Forwarded
<1>3. Onward = {} /\ None \notin Packets
  BY RouterAssumption DEF Init, Onward
<1>4. OncePerPlace
  BY <1>1, <1>2 DEF OncePerPlace, Single
<1>5. ASSUME NEW p \in Packets PROVE OnePlace(p)
  BY <1>1, <1>2, <1>3 DEF OnePlace, Waits
<1> QED BY <1>1, <1>4, <1>5 DEF HeldInv, HandsEmpty

-----------------------------------------------------------------------------
(* Counting the places. *)

(* Sets without and with one element. *)
LEMMA CountOne ==
    ASSUME NEW S
    PROVE  /\ S = {} => Cardinality(S) = 0
           /\ (\E x : S = {x}) => Cardinality(S) = 1
BY FS_EmptySet, FS_Singleton

(* No more packets wait at a request than there are. *)
LEMMA QueueBound ==
    ASSUME NEW s \in Seq(Packets), Single(s)
    PROVE  DOMAIN s \subseteq 1 .. Cardinality(Packets)
<1>1. DOMAIN s = 1 .. Len(s) /\ Len(s) \in Nat /\ s \in [1 .. Len(s) -> Packets]
  OBVIOUS
<1>2. s \in Injection(1 .. Len(s), Packets)
  BY <1>1 DEF Single, Injection, IsInjective
<1>3. Cardinality(1 .. Len(s)) <= Cardinality(Packets)
  BY <1>2, FS_Injection, RouterAssumption
<1>4. Cardinality(1 .. Len(s)) = Len(s)
  BY <1>1, FS_Interval
<1>5. Cardinality(Packets) \in Nat
  BY FS_CardinalityType, RouterAssumption
<1> QED BY <1>1, <1>3, <1>4, <1>5

(* A packet in one place is counted once. *)
LEMMA HeldOnceFacts ==
    ASSUME TypeOK, HeldInv
    PROVE  PacketHeldOnce
<1> SUFFICES ASSUME NEW p \in Onward
             PROVE  1 = Cardinality({k \in {1} : packet = p})
                      + Cardinality({x \in Listed \X (1 .. Cardinality(Packets)) :
                                       /\ x[2] \in DOMAIN heap[x[1]].packets
                                       /\ heap[x[1]].packets[x[2]] = p})
                      + Cardinality({i \in DOMAIN rest : rest[i] = p})
                      + Cardinality(Forwarded(p))
  BY DEF PacketHeldOnce, Onward
<1> DEFINE A == {k \in {1} : packet = p}
           B == {x \in Listed \X (1 .. Cardinality(Packets)) :
                   x[2] \in DOMAIN heap[x[1]].packets /\ heap[x[1]].packets[x[2]] = p}
           C == {i \in DOMAIN rest : rest[i] = p}
           D == Forwarded(p)
<1>1. p \in Packets /\ OnePlace(p) /\ OncePerPlace
  BY DEF Onward, HeldInv
<1>2. IF packet = p THEN A = {1} ELSE A = {}
  OBVIOUS
<1>3. IF Waits(p) THEN \E x : B = {x} ELSE B = {}
  <2>1. CASE Waits(p)
    <3>1. PICK r \in Listed : p \in Waiting(r)
      BY <2>1 DEF Waits
    <3>2. PICK i \in DOMAIN heap[r].packets : heap[r].packets[i] = p
      BY <3>1 DEF Waiting, Range
    <3>3. heap[r].packets \in Seq(Packets) /\ Single(heap[r].packets)
      BY <1>1, WaitingFacts DEF OncePerPlace
    <3>4. i \in 1 .. Cardinality(Packets)
      BY <3>2, <3>3, QueueBound
    <3>5. <<r, i>> \in B
      BY <3>1, <3>2, <3>4
    <3>6. ASSUME NEW q \in Listed, NEW j \in DOMAIN heap[q].packets, heap[q].packets[j] = p
          PROVE  q = r /\ j = i
      <4>1. p \in Waiting(q)
        BY <3>6 DEF Waiting, Range
      <4>2. q = r
        BY <1>1, <3>1, <4>1 DEF OncePerPlace
      <4> QED BY <3>2, <3>3, <3>6, <4>2 DEF Single
    <3>7. \A x \in B : x = <<r, i>>
      <4> SUFFICES ASSUME NEW x \in B PROVE x = <<r, i>>
        OBVIOUS
      <4>1. x = <<x[1], x[2]>> /\ x[1] \in Listed
        OBVIOUS
      <4>2. x[1] = r /\ x[2] = i
        BY <3>6
      <4> QED BY <4>1, <4>2
    <3>8. B = {<<r, i>>}
      BY <3>5, <3>7
    <3> QED BY <2>1, <3>8
  <2>2. CASE ~ Waits(p)
    <3>1. ASSUME NEW q \in Listed, NEW j \in DOMAIN heap[q].packets, heap[q].packets[j] = p
          PROVE  FALSE
      BY <2>2, <3>1 DEF Waits, Waiting, Range
    <3>2. B = {}
      BY <3>1
    <3> QED BY <2>2, <3>2
  <2> QED BY <2>1, <2>2
<1>4. IF p \in Range(rest) THEN \E x : C = {x} ELSE C = {}
  <2>1. CASE p \in Range(rest)
    <3>1. PICK i \in DOMAIN rest : rest[i] = p
      BY <2>1 DEF Range
    <3>2. C = {i}
      BY <1>1, <3>1 DEF OncePerPlace, Single
    <3> QED BY <2>1, <3>2
  <2>2. CASE p \notin Range(rest)
    BY <2>2 DEF Range
  <2> QED BY <2>1, <2>2
<1>5. D = {} \/ \E x : D = {x}
  <2>1. \A i, j \in D : i = j
    BY <1>1 DEF OncePerPlace
  <2> HIDE DEF D
  <2>2. ASSUME NEW x \in D PROVE D = {x}
    BY <2>1
  <2> QED BY <2>2
<1>6. packet = p \/ Waits(p) \/ p \in Range(rest) \/ D # {}
  BY <1>1 DEF OnePlace
<1>7. /\ packet = p => ~ Waits(p) /\ p \notin Range(rest) /\ D = {}
      /\ Waits(p) => p \notin Range(rest) /\ D = {}
      /\ p \in Range(rest) => D = {}
  BY <1>1 DEF OnePlace
<1> HIDE DEF A, B, C, D
<1>8. \/ (\E x : A = {x}) /\ B = {} /\ C = {} /\ D = {}
      \/ A = {} /\ (\E x : B = {x}) /\ C = {} /\ D = {}
      \/ A = {} /\ B = {} /\ (\E x : C = {x}) /\ D = {}
      \/ A = {} /\ B = {} /\ C = {} /\ \E x : D = {x}
  BY <1>2, <1>3, <1>4, <1>5, <1>6, <1>7
<1> DEFINE a == Cardinality(A)
           b == Cardinality(B)
           c == Cardinality(C)
           d == Cardinality(D)
<1>9. \/ a = 1 /\ b = 0 /\ c = 0 /\ d = 0
      \/ a = 0 /\ b = 1 /\ c = 0 /\ d = 0
      \/ a = 0 /\ b = 0 /\ c = 1 /\ d = 0
      \/ a = 0 /\ b = 0 /\ c = 0 /\ d = 1
  BY <1>8, CountOne
<1> HIDE DEF a, b, c, d
<1>10. 1 = a + b + c + d
  BY <1>9
<1> QED BY <1>10 DEF a, b, c, d, A, B, C, D

(* A packet that the router is to forward is neither lost nor doubled: it is *)
(* in the packet thread's hands, waits at one listed request, is about to be *)
(* released or has been sent, and only one of these, whatever the time-out   *)
(* thread does to the list meanwhile.                                        *)
THEOREM HeldSafety == Spec => []PacketHeldOnce
<1>1. RouterInv /\ HeldInv => PacketHeldOnce
  BY HeldOnceFacts DEF RouterInv
<1> QED BY <1>1, RouterInit, RouterStep, HeldInit, HeldStep, PTL DEF Spec

-----------------------------------------------------------------------------
(* The addresses. *)

(* An ARP reply is what was announced with it. *)
LEMMA ReplyFacts ==
    ASSUME NEW x \in Announcements
    PROVE  /\ x.ip \in Addrs /\ x.mac \in Macs /\ x = [ip |-> x.ip, mac |-> x.mac]
           /\ Ntohl[x.ip] \in Addrs /\ Ntohl[Ntohl[x.ip]] = x.ip
BY RouterAssumption

(* The cache holds what was announced, in the other byte order. *)
LEMMA HeardStep ==
    ASSUME RouterInv, Heard, Next
    PROVE  Heard' /\ announced \subseteq announced'
<1> DEFINE known(i) == [ip |-> Ntohl[entries[i].ip], mac |-> entries[i].mac]
<1>1. /\ \A i \in Entries : entries[i] # None => known(i) \in announced
      /\ main \in {"insert", "release", "destroy"} => reply \in announced
  BY DEF Heard
<1>2. CASE Insert
  <2> DEFINE a == Ntohl[reply.ip]
             e == [ip |-> a, mac |-> reply.mac, added |-> now]
  <2>1. reply \in announced /\ reply \in Announcements /\ reply' = reply /\ announced' = announced
    BY <1>1, <1>2 DEF RouterInv, MainSound, Insert
  <2>2. \A i \in Entries : entries'[i] = e \/ entries'[i] = entries[i]
    BY <1>2 DEF Insert, Cached
  <2>3. [ip |-> Ntohl[e.ip], mac |-> e.mac] = reply
    BY <2>1, ReplyFacts
  <2> HIDE DEF e
  <2>4. \A i \in Entries : entries'[i] # None =>
            [ip |-> Ntohl[entries'[i].ip], mac |-> entries'[i].mac] \in announced
    BY <1>1, <2>1, <2>2, <2>3
  <2> QED BY <2>1, <2>4 DEF Heard
<1>3. CASE Wake
  <2>1. /\ \A i \in Entries : entries'[i] = None \/ entries'[i] = entries[i]
        /\ UNCHANGED <<main, reply, announced>>
    BY <1>3 DEF Wake, mainVars
  <2> QED BY <1>1, <2>1 DEF Heard
<1>4. CASE ~ Insert /\ ~ Wake
  <2>1. entries' = entries
    BY <1>4 DEF Next, Receive, RecvEcho, RecvIp, RecvArpReply, RecvArpRequest, Main, LookupHit,
                LookupMiss, QueueReq, MainCheck, MainSend, Release, Destroy, Sweep, SweepCheck,
                SweepSend, Tick, cacheVars
  <2>2. announced \subseteq announced'
    BY <1>4 DEF Next, Receive, RecvEcho, RecvIp, RecvArpReply, RecvArpRequest, Main, LookupHit,
                LookupMiss, QueueReq, MainCheck, MainSend, Release, Destroy, Sweep, SweepCheck,
                SweepSend, Tick, mainVars
  <2>3. main' \in {"insert", "release", "destroy"} => reply' \in announced'
    <3>1. CASE Receive
      <4>1. ASSUME NEW p \in Packets, RecvIp(p)
            PROVE  main' \notin {"insert", "release", "destroy"}
        BY <4>1 DEF RecvIp, TakePacket
      <4> QED BY <1>1, <3>1, <4>1
              DEF Receive, RecvEcho, TakePacket, RecvArpReply, RecvArpRequest
    <3>2. CASE Main
      <4>1. CASE Release
        BY <1>1, <4>1 DEF Release
      <4>2. CASE LookupHit \/ LookupMiss \/ QueueReq \/ MainCheck \/ MainSend \/ Destroy
        BY <4>2 DEF LookupHit, GoIdle, LookupMiss, QueueReq, MainCheck, MainSend, Destroy
      <4> QED BY <1>4, <3>2, <4>1, <4>2 DEF Main
    <3>3. CASE Sweep \/ Tick
      BY <1>1, <3>3 DEF Sweep, Wake, SweepCheck, SweepSend, Tick, mainVars
    <3> QED BY <3>1, <3>2, <3>3 DEF Next
  <2> QED BY <1>1, <2>1, <2>2, <2>3 DEF Heard
<1> QED BY <1>2, <1>3, <1>4 DEF Insert, Wake, mainVars

(* The reply that is handled stays the same while packets are released. *)
LEMMA ReplyKept ==
    ASSUME HeldInv, Next, rest # <<>> \/ Insert
    PROVE  reply' = reply
<1>1. rest # <<>> => main = "release"
  BY DEF HeldInv, HandsEmpty
<1>2. CASE Insert
  BY <1>2 DEF Insert
<1>3. CASE rest # <<>>
  BY <1>1, <1>3 DEF Next, Receive, RecvEcho, RecvIp, TakePacket, RecvArpReply, RecvArpRequest, Main,
                    LookupHit, LookupMiss, QueueReq, MainCheck, MainSend, Insert, Release, Destroy,
                    Sweep, Wake, SweepCheck, SweepSend, Tick, mainVars
<1> QED BY <1>2, <1>3

(* The next hop in hand is one of the packet's. *)
LEMMA HopStep ==
    ASSUME Bound, Next
    PROVE  main' \in {"lookup", "queue"} => hop' \in HopChoices(packet')
<1>1. main \in {"lookup", "queue"} => hop \in HopChoices(packet)
  BY DEF Bound
<1>2. CASE Receive
  <2>1. ASSUME NEW p \in Packets, RecvIp(p)
        PROVE  main' \in {"lookup", "queue"} => hop' \in HopChoices(packet')
    <3>1. CASE p \in LastHop
      BY <1>1, <2>1, <3>1 DEF RecvIp
    <3>2. CASE p \notin LastHop
      BY <2>1, <3>2 DEF RecvIp
    <3> QED BY <3>1, <3>2
  <2> QED BY <1>1, <1>2, <2>1 DEF Receive, RecvEcho, RecvArpReply, RecvArpRequest
<1>3. CASE Main
  BY <1>1, <1>3 DEF Main, LookupHit, GoIdle, LookupMiss, QueueReq, MainCheck, MainSend, Insert,
                    Release, Destroy
<1>4. CASE Sweep \/ Tick
  BY <1>1, <1>4 DEF Sweep, Wake, SweepCheck, SweepSend, Tick, mainVars
<1> QED BY <1>2, <1>3, <1>4 DEF Next

(* Whoever waits, or is released, has the hop that the answer is for. *)
LEMMA BoundStep ==
    ASSUME RouterInv, HeldInv, Bound, Next
    PROVE  Bound'
<1>1. TypeOK /\ Located
  BY DEF RouterInv, HeldInv, Located
<1>2. /\ main \in {"lookup", "queue"} => hop \in HopChoices(packet)
      /\ \A r \in Listed : \A p \in Waiting(r) : Ntohl[heap[r].ip] \in HopChoices(p)
      /\ \A p \in Range(rest) : reply.ip \in HopChoices(p)
  BY DEF Bound
<1>3. ListKept => \A r \in Listed' : \A p \in Waiting(r)' : Ntohl[heap'[r].ip] \in HopChoices(p)
  <2> SUFFICES ASSUME ListKept, NEW r \in Listed, NEW p \in Waiting(r)'
               PROVE  Ntohl[heap'[r].ip] \in HopChoices(p)
    BY DEF ListKept
  <2>1. Waiting(r)' = Waiting(r) /\ heap'[r].ip = heap[r].ip
    BY ListKeptFacts DEF ListKept
  <2> QED BY <1>2, <2>1
<1>4. ASSUME rest' = rest \/ (rest # <<>> /\ rest' = Tail(rest))
      PROVE  \A p \in Range(rest') : reply'.ip \in HopChoices(p)
  <2>1. CASE rest = <<>>
    BY <1>4, <2>1 DEF Range
  <2>2. CASE rest # <<>>
    <3>1. Range(rest') \subseteq Range(rest)
      <4>1. rest \in Seq(Packets) /\ Single(rest)
        BY <1>1 DEF TypeOK, MainTypeOK, Located, OncePerPlace
      <4>2. Range(Tail(rest)) \subseteq Range(rest)
        BY <2>2, <4>1, TailFacts
      <4> QED BY <1>4, <4>2
    <3> QED BY <1>2, <2>2, <3>1, ReplyKept
  <2> QED BY <2>1, <2>2
<1>5. CASE QueueReq
  <2>1. PICK p \in Packets, r \in Reqs :
               /\ Joins(p, r) /\ p = packet /\ heap'[r].ip = Ntohl[hop]
               /\ r \in Listed => heap[r].ip = Ntohl[hop]
    BY <1>5, JoinsBy
  <2>2. hop \in HopChoices(p) /\ hop \in Addrs /\ Ntohl[Ntohl[hop]] = hop
    BY <1>2, <1>5, <2>1, RouterAssumption DEF QueueReq, RouterInv, MainSound
  <2>3. Ntohl[heap'[r].ip] = hop
    BY <2>1, <2>2
  <2>4. Listed' = Listed \cup {r} /\ rest' = rest /\ \A q \in Listed : q # r => heap'[q] = heap[q]
    BY <2>1 DEF Joins
  <2>5. ASSUME NEW q \in Listed, q # r, NEW s \in Waiting(q)'
        PROVE  Ntohl[heap'[q].ip] \in HopChoices(s)
    <3>1. Waiting(q)' = Waiting(q) /\ heap'[q].ip = heap[q].ip
      BY <1>1, <2>1, <2>4, <2>5, JoinedFacts
    <3> QED BY <1>2, <2>5, <3>1
  <2>6. ASSUME NEW s \in Waiting(r)' PROVE Ntohl[heap'[r].ip] \in HopChoices(s)
    <3>1. s = p \/ (r \in Listed /\ s \in Waiting(r))
      BY <1>1, <2>1, <2>6, JoinedFacts
    <3>2. CASE s = p
      BY <2>2, <2>3, <3>2
    <3>3. CASE r \in Listed /\ s \in Waiting(r)
      <4>1. Ntohl[heap[r].ip] = hop
        BY <2>1, <2>2, <3>3
      <4> QED BY <1>2, <2>3, <3>3, <4>1
    <3> QED BY <3>1, <3>2, <3>3
  <2>7. \A q \in Listed' : \A s \in Waiting(q)' : Ntohl[heap'[q].ip] \in HopChoices(s)
    BY <2>4, <2>5, <2>6
  <2>8. \A s \in Range(rest') : reply'.ip \in HopChoices(s)
    BY <1>4, <2>4
  <2> QED BY <2>7, <2>8, HopStep DEF Bound
<1>6. CASE Insert
  <2>1. reply' = reply /\ reply \in Announcements
    BY <1>6, ReplyKept DEF RouterInv, MainSound, Insert
  <2>2. CASE Stays /\ ListKept
    <3>1. \A s \in Range(rest') : reply'.ip \in HopChoices(s)
      BY <1>4, <2>2 DEF Stays
    <3> QED BY <1>3, <2>2, <3>1, HopStep DEF Bound
  <2>3. ASSUME NEW r \in Listed, Freed(r), heap[r].ip = Ntohl[reply.ip] PROVE Bound'
    <3>1. /\ Listed' \subseteq Listed /\ heap' = heap /\ rest' = heap[r].packets
      BY <2>3 DEF Freed
    <3>2. Ntohl[heap[r].ip] = reply.ip
      BY <2>1, <2>3, ReplyFacts
    <3>3. Range(rest') = Waiting(r)
      BY <3>1 DEF Waiting
    <3>4. \A s \in Range(rest') : reply'.ip \in HopChoices(s)
      BY <1>2, <2>1, <3>2, <3>3
    <3>5. \A q \in Listed' : \A s \in Waiting(q)' : Ntohl[heap'[q].ip] \in HopChoices(s)
      BY <1>2, <3>1 DEF Waiting
    <3> QED BY <3>4, <3>5, HopStep DEF Bound
  <2> QED BY <1>6, <2>2, <2>3, FreedBy
<1>7. CASE Elsewhere \/ MainSend \/ SweepSend \/ Destroy
  <2>1. rest' = rest \/ (rest # <<>> /\ rest' = Tail(rest))
    BY <1>7 DEF Elsewhere, Receive, RecvEcho, RecvIp, RecvArpReply, RecvArpRequest, LookupHit,
                LookupMiss, MainCheck, MainSend, Release, Destroy, Wake, SweepCheck, SweepSend,
                Tick, mainVars
  <2>2. ListKept
    BY <1>7, ListKeptBy
  <2> QED BY <1>3, <1>4, <2>1, <2>2, HopStep DEF Bound
<1> QED BY <1>5, <1>6, <1>7 DEF Next, Main, Sweep, Elsewhere

(* A packet sent with an announced address for one of its hops. *)
LEMMA AnnouncedBy ==
    ASSUME TypeOK, MacAnnounced, announced \subseteq announced',
           NEW p \in Packets, NEW m \in Macs, NEW h \in Addrs, Send(p, Forward(p, m, h)),
           [ip |-> h, mac |-> m] \in announced, h \in HopChoices(p)
    PROVE  MacAnnounced'
<1> SUFFICES ASSUME NEW q \in Packets, NEW i \in Forwarded(q)'
             PROVE  /\ [ip |-> out'[q][i].hop, mac |-> out'[q][i].mac] \in announced'
                    /\ out'[q][i].hop \in HopChoices(q)
  BY DEF MacAnnounced
<1>1. /\ q # p => out'[q] = out[q] /\ Forwarded(q)' = Forwarded(q)
      /\ Forwarded(p)' = Forwarded(p) \cup {Len(out[p]) + 1}
      /\ \A j \in Forwarded(p) : out'[p][j] = out[p][j]
      /\ out'[p][Len(out[p]) + 1] = Forward(p, m, h)
  BY PassedOn
<1>2. CASE i \in Forwarded(q) /\ out'[q][i] = out[q][i]
  BY <1>2 DEF MacAnnounced
<1>3. CASE q = p /\ out'[q][i] = Forward(p, m, h)
  BY <1>3 DEF Forward
<1> QED BY <1>1, <1>2, <1>3

(* No packet leaves with an address that its next hop did not announce. *)
LEMMA AnnouncedStep ==
    ASSUME NoReversedNeighbour, RouterInv, HeldInv, MacInv, Next
    PROVE  MacAnnounced'
<1>1. TypeOK /\ MacAnnounced /\ announced \subseteq announced' /\ announced \subseteq Announcements
  BY HeardStep DEF RouterInv, TypeOK, MainTypeOK, MacInv
<1>2. ASSUME Unsent PROVE MacAnnounced'
  BY <1>1, <1>2 DEF Unsent, MacAnnounced
<1>3. CASE LookupHit
  <2>1. PICK i \in Entries : /\ entries[i] # None /\ entries[i].ip = hop /\ entries[i].mac \in Macs
                             /\ packet \in Packets /\ hop \in Addrs
                             /\ Send(packet, Forward(packet, entries[i].mac, hop))
    BY <1>3, HitFacts
  <2> DEFINE x == [ip |-> Ntohl[hop], mac |-> entries[i].mac]
  <2>2. x \in announced /\ x \in Announcements
    BY <1>1, <2>1 DEF MacInv, Heard
  <2>3. hop \in HopChoices(packet)
    BY <1>3 DEF MacInv, Bound, LookupHit
  <2>4. PICK q \in Routed : Hop[q] = hop
    BY <2>1, <2>3, RouterAssumption DEF HopChoices, Routed
  <2>5. Ntohl[x.ip] = hop
    BY <2>1, RouterAssumption
  <2>6. x.ip = hop
    BY <2>2, <2>4, <2>5 DEF NoReversedNeighbour
  <2>7. [ip |-> hop, mac |-> entries[i].mac] \in announced
    BY <2>2, <2>6
  <2>8. PICK p \in Packets : p = packet
    BY <2>1
  <2> HIDE DEF x
  <2>9. Send(p, Forward(p, entries[i].mac, hop)) /\ hop \in HopChoices(p)
    BY <2>1, <2>3, <2>8
  <2> QED BY <1>1, <2>1, <2>7, <2>9, AnnouncedBy
<1>4. CASE Release
  <2>1. CASE rest = <<>>
    BY <1>2, <1>4, <2>1, Silent DEF Release
  <2>2. CASE rest # <<>>
    <3>1. reply \in announced /\ reply \in Announcements
      BY <1>1, <1>4 DEF MacInv, Heard, Release
    <3>2. /\ reply.mac \in Macs /\ reply.ip \in Addrs
          /\ [ip |-> reply.ip, mac |-> reply.mac] \in announced
      BY <3>1, ReplyFacts
    <3>3. Head(rest) \in Packets /\ Head(rest) \in Range(rest)
      BY <2>2, TailFacts DEF RouterInv, TypeOK, MainTypeOK, HeldInv, OncePerPlace
    <3>4. PICK p \in Packets : p = Head(rest)
      BY <3>3
    <3>5. Send(p, Forward(p, reply.mac, reply.ip)) /\ reply.ip \in HopChoices(p)
      BY <1>4, <2>2, <3>3, <3>4 DEF Release, MacInv, Bound
    <3> QED BY <1>1, <3>2, <3>5, AnnouncedBy
  <2> QED BY <2>1, <2>2
<1>5. CASE \E p \in Packets : RecvIp(p) /\ p \notin LastHop
  BY <1>2, <1>5, TakenOnBy DEF TakenOn
<1>6. CASE QueueReq \/ Insert
  BY <1>2, <1>6, Silent DEF QueueReq, Insert
<1>7. CASE \/ \E p \in Packets : RecvEcho(p) \/ (RecvIp(p) /\ p \in LastHop)
           \/ \E x \in Announcements : RecvArpReply(x)
           \/ RecvArpRequest \/ LookupMiss \/ MainCheck \/ MainSend \/ Destroy
           \/ Wake \/ SweepCheck \/ SweepSend \/ Tick
  BY <1>2, <1>7, StaysBy DEF Stays
<1> QED BY <1>3, <1>4, <1>5, <1>6, <1>7 DEF Next, Receive, Main, Sweep

(* At first nothing is known and nothing sent. *)
LEMMA MacInit == Init => MacInv
<1> SUFFICES ASSUME Init PROVE MacInv
  OBVIOUS
<1>1. Listed = {} /\ Range(rest) = {}
  BY DEF Init, Listed, Range
<1>2. \A p \in Packets : Forwarded(p) = {}
  BY DEF Init, Forwarded
<1>3. Heard /\ Bound
  BY <1>1 DEF Init, Heard, Bound
<1> QED BY <1>2, <1>3 DEF MacInv, MacAnnounced

(* Every step keeps what the router knows true. *)
LEMMA MacStep ==
    ASSUME NoReversedNeighbour, RouterInv, HeldInv, MacInv, [Next]_vars
    PROVE  MacInv'
<1>1. CASE Next
  BY <1>1, HeardStep, BoundStep, AnnouncedStep DEF MacInv
<1>2. CASE UNCHANGED vars
  BY <1>2 DEF vars, mainVars, cacheVars, MacInv, Heard, Bound, MacAnnounced, Forwarded, Listed,
              Waiting
<1> QED BY <1>1, <1>2

(* A packet is neither lost nor doubled, and it leaves only with an Ethernet *)
(* address that its next hop announced, on any network without a station     *)
(* whose address is that of a next hop in reverse.                           *)
THEOREM ForwardingSafety ==
    ASSUME NoReversedNeighbour
    PROVE  Spec => []PacketsForwarded
<1>1. RouterInv /\ HeldInv /\ MacInv => PacketsForwarded
  BY HeldOnceFacts DEF RouterInv, MacInv, PacketsForwarded
<1>2. NoReversedNeighbour
  OBVIOUS
<1>3. RouterInv /\ HeldInv /\ MacInv /\ [Next]_vars => MacInv'
  BY <1>2, MacStep
<1> QED BY <1>1, <1>3, RouterInit, RouterStep, HeldInit, HeldStep, MacInit, PTL DEF Spec

=============================================================================
