------------------------------ MODULE HostTracker ------------------------------
(***************************************************************************)
(* host_tracker: where a host was seen and with which IP addresses; a      *)
(* timer pings quiet ones by ARP and forgets those that do not answer.     *)
(*                                                                         *)
(* c.hosts (entryByMAC) maps an address to [dpid, port, age, ips], ips to  *)
(* [age, limit, pending]; an age counts the firings of the timer since the *)
(* last refresh.  n.pings are the ARP requests the switches were told to   *)
(* send out: <<switch, port, mac, ip>>.                                    *)
(***************************************************************************)
EXTENDS Discovery

CONSTANTS ArpAware, ArpSilent,   \* timeouts in periods of the timer
          EntryMove,             \* minimum time between two places of a host
          PingLim,               \* PingCtrl.pingLim
          Send(_, _, _)          \* Send(st, k, message): send() of connection k

expired(entry) == entry.age > entry.limit
failed(ip) == ip.pending > PingLim
sent(ip) == [ip EXCEPT !.pending = @ + 1]
SentTwice(ip) == sent(sent(ip))

NewIpEntry(hasARP) == [age |-> 0, limit |-> IF hasARP THEN ArpAware ELSE ArpSilent, pending |-> 0]
MacEntry(dpid, port) == [dpid |-> dpid, port |-> port, age |-> 0, limit |-> ArpAware, ips |-> <<>>]

(* Only an ARP packet clears the pending pings; an address first seen in   *)
(* another packet keeps the long timeout.                                  *)
NeverAnswered(entry, ip, hasARP) ==
    LET kept == IF ip \in DOMAIN entry.ips THEN [entry.ips[ip] EXCEPT !.age = 0] ELSE NewIpEntry(hasARP)
    IN  [entry EXCEPT !.ips = (ip :> kept) @@ @]
updateIPInfo(entry, ip, hasARP) ==
    LET kept == IF ip \in DOMAIN entry.ips THEN [entry.ips[ip] EXCEPT !.age = 0] ELSE NewIpEntry(hasARP)
    IN  [entry EXCEPT !.ips = (ip :> IF hasARP THEN [kept EXCEPT !.pending = 0] ELSE kept) @@ @]

(* The source address of an IPv4 packet, or of an ARP packet that has one. *)
getSrcIPandARP(packet) == [ip |-> packet.srcip, hasARP |-> packet.type = "arp"]
NoIp == "none"

(* A host that shows up elsewhere keeps its entry.  Soon after it was seen *)
(* the warning itself raises (lastTimeSeen is not a function) and nothing  *)
(* is updated; later the switch is, the port is not (it is stored under    *)
(* another name).                                                          *)
HostPacketIn(st, ev) ==
    LET src == ev.packet.src
        new == src \notin DOMAIN st.c.hosts
        old == st.c.hosts[src]
        moved == ~new /\ <<old.dpid, old.port>> # <<ev.dpid, ev.port>>
        entry == IF new THEN MacEntry(ev.dpid, ev.port) ELSE [old EXCEPT !.dpid = ev.dpid, !.age = 0]
        told == getSrcIPandARP(ev.packet)
        updated == IF told.ip = NoIp THEN entry ELSE updateIPInfo(entry, told.ip, told.hasARP)
    IN  IF ev.packet.type = "lldp" \/ isSwitchOnlyPort(st, ev.dpid, ev.port) THEN st
        ELSE IF moved /\ old.age < EntryMove THEN Raises(st)
        ELSE [st EXCEPT !.c.hosts = (src :> updated) @@ @]

(* One address of one entry.  A ping is counted by sendPing and again by   *)
(* its caller, sent or not; where the nexus has no connection the address  *)
(* goes.                                                                   *)
CheckIp(st, mac, ip) ==
    LET entry == st.c.hosts[mac]
        others == [i \in DOMAIN entry.ips \ {ip} |-> entry.ips[i]]
        reached == entry.dpid \in DOMAIN st.n.con
    IN  IF ~expired(entry.ips[ip]) THEN st
        ELSE IF failed(entry.ips[ip]) \/ ~reached THEN [st EXCEPT !.c.hosts[mac].ips = others]
        ELSE Apply(LAMBDA told : [told EXCEPT !.c.hosts[mac].ips[ip] = SentTwice(@)],
                   Send(st, st.n.con[entry.dpid], [kind |-> "ping", port |-> entry.port, mac |-> mac, ip |-> ip]))

Pinged(st, mac, ip) == LET e == st.c.hosts[mac].ips[ip] IN expired(e) /\ ~failed(e)

(* An entry that goes with two or more addresses raises on the second one: *)
(* the same address is deleted again.                                      *)
CheckEntry(st, mac) ==
    LET ips == st.c.hosts[mac].ips
        order == CHOOSE q \in [1 .. Cardinality(DOMAIN ips) -> DOMAIN ips] :
                    \A i, j \in DOMAIN q : q[i] = q[j] => i = j
        after == Each(LAMBDA before, ip : CheckIp(before, mac, ip), st, order)
        entryPinged == \E ip \in DOMAIN ips : Pinged(st, mac, ip)
        left == DOMAIN after.c.hosts[mac].ips
        ip_addr == order[Len(order)]
    IN  IF ~expired(st.c.hosts[mac]) \/ entryPinged THEN after
        ELSE IF left = {} \/ left = {ip_addr}
             THEN [after EXCEPT !.c.hosts = [m \in DOMAIN @ \ {mac} |-> @[m]]]
        ELSE Raises([after EXCEPT !.c.hosts[mac].ips = [i \in DOMAIN @ \ {ip_addr} |-> @[i]]])

(* Called at every period: the ages grow by one before they are compared.  *)
Grown(e) == [e EXCEPT !.age = @ + 1,
                      !.ips = [i \in DOMAIN @ |-> [@[i] EXCEPT !.age = @ + 1]]]
_check_timeouts(st) ==
    LET older == [st EXCEPT !.c.hosts = [m \in DOMAIN @ |-> Grown(@[m])]]
        macs == CHOOSE q \in [1 .. Cardinality(DOMAIN st.c.hosts) -> DOMAIN st.c.hosts] :
                    \A i, j \in DOMAIN q : q[i] = q[j] => i = j
    IN  Each(LAMBDA before, mac : IF before.raised THEN before ELSE CheckEntry(before, mac), older, macs)
================================================================================
