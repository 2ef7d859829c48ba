----------------------------- MODULE RouteLookup -----------------------------
(* The search of the routing table at the top of sr_handlepacket              *)
(* (Project-4/router/sr_router.c): one step per iteration of its loop, for    *)
(* any table and any destination address.  Addresses and masks are numbers    *)
(* in host order, as htonl makes them before the comparison.                  *)
EXTENDS Integers, Sequences

CONSTANTS
    Addr,       \* IP addresses
    Masks,      \* the masks routes may have
    BitAnd(_, _), \* bitwise and
    Ifaces,     \* the interfaces of the router
    IfIp,       \* IfIp[i]: the address of interface i
    MaxRoutes,  \* the longest table considered
    Unset       \* the value of a variable that was never assigned

Route == [dest : Addr, mask : Masks, iface : Ifaces]

ASSUME RouteAssumption ==
    /\ Masks \subseteq Nat
    /\ IfIp \in [Ifaces -> Addr]
    /\ MaxRoutes \in Nat \ {0}
    /\ Unset \notin Nat

VARIABLES
    routing_table,  \* the list of routes, in the order of the file
    dest_ip,        \* destination of the packet
    route,          \* position of the route looked at; past the end is NULL
    longest_match,  \* the best mask so far, as a number
    longs,          \* position of the route chosen, Unset when uninitialised
    send_router     \* 1 when the packet is for the router itself

vars == <<routing_table, dest_ip, route, longest_match, longs, send_router>>

(* What sr_verify_routing_table lets through: at least one route, each by an *)
(* interface that exists.                                                    *)
Tables == UNION {[1 .. n -> Route] : n \in 1 .. MaxRoutes}

Init ==
    /\ routing_table \in Tables
    /\ dest_ip \in Addr
    /\ route = 1
    /\ longest_match = 0
    /\ longs = Unset
    /\ send_router = 0

OwnByDest(r) == r.dest = dest_ip

(* The destination is the address of the interface route r leaves by. *)
Own(r) == IfIp[r.iface] = dest_ip

Matches(r) == BitAnd(r.dest, r.mask) = BitAnd(r.mask, dest_ip)

BetterStrictly(r) == Matches(r) /\ longest_match < r.mask

(* Route r matches and is at least as long as the best so far. *)
Better(r) == Matches(r) /\ longest_match <= r.mask

Walking == route \in 1 .. Len(routing_table) /\ send_router = 0

FoundOwn ==
    /\ Walking
    /\ Own(routing_table[route])
    /\ send_router' = 1
    /\ longs' = route
    /\ UNCHANGED <<routing_table, dest_ip, route, longest_match>>

FoundBetter ==
    /\ Walking
    /\ ~Own(routing_table[route])
    /\ Better(routing_table[route])
    /\ longest_match' = routing_table[route].mask
    /\ longs' = route
    /\ route' = route + 1
    /\ UNCHANGED <<routing_table, dest_ip, send_router>>

Skip ==
    /\ Walking
    /\ ~Own(routing_table[route])
    /\ ~Better(routing_table[route])
    /\ route' = route + 1
    /\ UNCHANGED <<routing_table, dest_ip, longest_match, longs, send_router>>

Next == FoundOwn \/ FoundBetter \/ Skip

Spec == Init /\ [][Next]_vars

-----------------------------------------------------------------------------

Done == ~Walking

(* Every variable keeps to its range: the route chosen is one of the table. *)
TypeOK ==
    /\ routing_table \in Seq(Route)
    /\ dest_ip \in Addr
    /\ route \in 1 .. Len(routing_table) + 1
    /\ longest_match \in Nat
    /\ longs \in 1 .. Len(routing_table) \cup {Unset}
    /\ send_router \in {0, 1}

(* When the loop ends on a packet that is not for the router, longs is the   *)
(* longest match, the last one among equals, and it is left uninitialised    *)
(* exactly when no route matches.                                            *)
LongestPrefix ==
    Done /\ send_router = 0 =>
        LET match == {k \in 1 .. Len(routing_table) : Matches(routing_table[k])} IN
        IF match = {}
          THEN longs = Unset
          ELSE /\ longs \in match
               /\ \A k \in match :
                    \/ routing_table[k].mask < routing_table[longs].mask
                    \/ routing_table[k].mask = routing_table[longs].mask /\ k <= longs

(* A packet for the address of an interface some route leaves by is taken    *)
(* for the router's own, wherever that route is and whatever matched before. *)
OwnAddressWins ==
    Done => (send_router = 1 <=>
                \E k \in 1 .. Len(routing_table) : IfIp[routing_table[k].iface] = dest_ip)

=============================================================================
