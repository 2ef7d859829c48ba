---------------------------- MODULE MCArpRouter ----------------------------
(* Instances of ArpRouter for TLC.  hostARev is hostA with its bytes reversed *)
(* (10.0.1.100 and 100.1.0.10); hostB's address reads the same both ways, as  *)
(* 10.1.1.10 does.                                                            *)
EXTENDS ArpRouter

CONSTANTS hostA, hostARev, hostB, m1, m2, p1, p2, p3, p4, p5

Reverse ==
    [x \in Addrs |->
        CASE x = hostA -> hostARev [] x = hostARev -> hostA [] OTHER -> x]

(* p1 and p2 are routed to hostA, p3 to hostB; p4 is for the router's        *)
(* interface towards hostB; nothing in the table matches p5.                 *)
Hops == [p \in Packets |->
            CASE p \in {p1, p2} -> hostA [] p \in {p3, p4} -> hostB [] OTHER -> Unrouted]

HostsAnswer == {[ip |-> hostA, mac |-> m1], [ip |-> hostB, mac |-> m2]}

=============================================================================
