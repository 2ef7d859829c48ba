------------------------- MODULE RouteLookup_proofs -------------------------
(* The loop of sr_handlepacket finds the longest matching prefix, for tables  *)
(* of any length and for any set of addresses and masks.                      *)
EXTENDS RouteLookup, TLAPS

(* The matching routes among the first n - 1 of the table. *)
MatchesBefore(n) ==
    {k \in 1 .. Len(routing_table) : k < n /\ Matches(routing_table[k])}

(* No route that the loop has passed leaves by an interface with the         *)
(* destination's address, ...                                                *)
NoOwnPassed ==
    send_router = 0 =>
        \A k \in 1 .. Len(routing_table) : k < route => ~Own(routing_table[k])

(* ... longs and longest_match describe the best match among them, ...       *)
BestSoFar ==
    send_router = 0 =>
        /\ MatchesBefore(route) = {} => longs = Unset /\ longest_match = 0
        /\ MatchesBefore(route) # {} =>
             /\ longs \in MatchesBefore(route)
             /\ longest_match = routing_table[longs].mask
             /\ \A k \in MatchesBefore(route) :
                  \/ routing_table[k].mask < longest_match
                  \/ routing_table[k].mask = longest_match /\ k <= longs

(* ... and a packet taken for the router's own is one. *)
OwnTaken ==
    send_router = 1 =>
        route \in 1 .. Len(routing_table) /\ Own(routing_table[route])

IInv == TypeOK /\ NoOwnPassed /\ BestSoFar /\ OwnTaken

(* A table has routes: its elements are records of numbers. *)
LEMMA RouteFacts ==
  ASSUME TypeOK, NEW k \in 1 .. Len(routing_table)
  PROVE  routing_table[k] \in Route /\ routing_table[k].mask \in Nat
<1>1. routing_table[k] \in Route
  BY DEF TypeOK
<1>2. routing_table[k].mask \in Masks
  BY <1>1 DEF Route
<1> QED
  BY <1>1, <1>2, RouteAssumption

(* The invariant holds before the first route. *)
LEMMA InitIInv == Init => IInv
<1> SUFFICES ASSUME Init PROVE IInv
  OBVIOUS
<1>1. routing_table \in Seq(Route)
  BY RouteAssumption DEF Init, Tables
<1>2. Len(routing_table) \in Nat
  BY <1>1
<1>3. MatchesBefore(route) = {}
  BY <1>2 DEF Init, MatchesBefore
<1>4. TypeOK
  BY <1>1, <1>2 DEF Init, TypeOK
<1>5. NoOwnPassed /\ BestSoFar /\ OwnTaken
  BY <1>2, <1>3 DEF Init, NoOwnPassed, BestSoFar, OwnTaken
<1> QED
  BY <1>4, <1>5 DEF IInv

(* A route by the interface with the packet's address ends the search. *)
LEMMA FoundOwnIInv == IInv /\ FoundOwn => IInv'
  BY DEF IInv, TypeOK, NoOwnPassed, BestSoFar, OwnTaken, FoundOwn, Walking, Own

(* One more route passed adds it to the matches, or nothing. *)
LEMMA MatchesStep ==
  ASSUME TypeOK, Walking, route' = route + 1, UNCHANGED <<routing_table, dest_ip>>
  PROVE  MatchesBefore(route)' =
           IF Matches(routing_table[route])
             THEN MatchesBefore(route) \cup {route}
             ELSE MatchesBefore(route)
  BY DEF TypeOK, Walking, MatchesBefore, Matches

(* A longer or equally long match becomes the best one. *)
LEMMA FoundBetterIInv == IInv /\ FoundBetter => IInv'
<1> SUFFICES ASSUME IInv, FoundBetter PROVE IInv'
  OBVIOUS
<1> USE DEF IInv
<1>1. route \in 1 .. Len(routing_table) /\ Len(routing_table) \in Nat /\ send_router = 0
  BY DEF FoundBetter, Walking, TypeOK
<1>2. TypeOK'
  BY <1>1, RouteFacts DEF TypeOK, FoundBetter
<1>3. MatchesBefore(route)' = MatchesBefore(route) \cup {route}
  BY MatchesStep DEF FoundBetter, Better
<1>4. NoOwnPassed'
  BY <1>1 DEF NoOwnPassed, FoundBetter, Own
<1>5. OwnTaken'
  BY <1>1 DEF OwnTaken, FoundBetter
<1>6. BestSoFar'
  <2>1. /\ longs' = route /\ longest_match' = routing_table[route].mask
        /\ routing_table' = routing_table
        /\ longest_match <= longest_match'
        /\ longest_match \in Nat /\ longest_match' \in Nat
    BY <1>1, RouteFacts DEF FoundBetter, Better, TypeOK
  <2>2. ASSUME NEW k \in MatchesBefore(route)
        PROVE  \/ routing_table[k].mask < longest_match'
               \/ routing_table[k].mask = longest_match' /\ k <= route
    <3>1. k \in 1 .. Len(routing_table) /\ k < route
      BY <2>2 DEF MatchesBefore
    <3>2. routing_table[k].mask \in Nat
      BY <3>1, RouteFacts
    <3>3. routing_table[k].mask <= longest_match
      BY <1>1, <2>1, <2>2, <3>2 DEF BestSoFar
    <3> QED
      BY <1>1, <2>1, <3>1, <3>2, <3>3
  <2> QED
    BY <1>1, <1>3, <2>1, <2>2 DEF BestSoFar
<1> QED
  BY <1>2, <1>4, <1>5, <1>6

(* A route that is passed over leaves the best one the best. *)
LEMMA SkipIInv == IInv /\ Skip => IInv'
<1> SUFFICES ASSUME IInv, Skip PROVE IInv'
  OBVIOUS
<1> USE DEF IInv
<1>1. route \in 1 .. Len(routing_table) /\ Len(routing_table) \in Nat /\ send_router = 0
  BY DEF Skip, Walking, TypeOK
<1>2. TypeOK'
  BY <1>1 DEF TypeOK, Skip
<1>3. NoOwnPassed'
  BY <1>1 DEF NoOwnPassed, Skip, Own
<1>4. OwnTaken'
  BY <1>1 DEF OwnTaken, Skip
<1>5. BestSoFar'
  <2>1. /\ longs' = longs /\ longest_match' = longest_match
        /\ routing_table' = routing_table /\ longest_match \in Nat
    BY DEF Skip, TypeOK
  <2>2. CASE ~Matches(routing_table[route])
    <3>1. MatchesBefore(route)' = MatchesBefore(route)
      BY <2>2, MatchesStep DEF Skip
    <3> QED
      BY <1>1, <2>1, <3>1 DEF BestSoFar
  <2>3. CASE Matches(routing_table[route])
    <3>1. MatchesBefore(route)' = MatchesBefore(route) \cup {route}
      BY <2>3, MatchesStep DEF Skip
    <3>2. routing_table[route].mask \in Nat /\ routing_table[route].mask < longest_match
      BY <1>1, <2>1, <2>3, RouteFacts DEF Skip, Better
    <3>3. MatchesBefore(route) # {}
      BY <1>1, <2>1, <3>2 DEF BestSoFar
    <3> QED
      BY <1>1, <2>1, <3>1, <3>2, <3>3 DEF BestSoFar
  <2> QED
    BY <2>2, <2>3
<1> QED
  BY <1>2, <1>3, <1>4, <1>5

(* Nothing changes in a stuttering step. *)
LEMMA StutterIInv == IInv /\ UNCHANGED vars => IInv'
  BY DEF IInv, TypeOK, NoOwnPassed, BestSoFar, OwnTaken, MatchesBefore, Matches, Own, vars

(* The invariant holds in every state of the loop. *)
LEMMA Inductive == Spec => []IInv
<1>1. IInv /\ [Next]_vars => IInv'
  BY FoundOwnIInv, FoundBetterIInv, SkipIInv, StutterIInv DEF Next
<1> QED
  BY InitIInv, <1>1, PTL DEF Spec

(* When the loop has ended every matching route has been passed. *)
LEMMA DoneMatches ==
  ASSUME TypeOK, Done, send_router = 0
  PROVE  /\ route = Len(routing_table) + 1
         /\ MatchesBefore(route) =
              {k \in 1 .. Len(routing_table) : Matches(routing_table[k])}
  BY DEF TypeOK, Done, Walking, MatchesBefore

(* For every table, every address and every set of masks: when the loop of   *)
(* sr_handlepacket ends on a packet that is not for the router, longs is the *)
(* last of the longest matching routes, or uninitialised if there is none.   *)
THEOREM LookupFindsLongestPrefix == Spec => []LongestPrefix
<1>1. IInv => LongestPrefix
  <2> SUFFICES ASSUME IInv, Done, send_router = 0 PROVE LongestPrefix
    BY DEF LongestPrefix
  <2>1. MatchesBefore(route) =
              {k \in 1 .. Len(routing_table) : Matches(routing_table[k])}
    BY DoneMatches DEF IInv
  <2> QED
    BY <2>1 DEF IInv, BestSoFar, LongestPrefix
<1> QED
  BY <1>1, Inductive, PTL

(* For every table: when the loop ends, the packet counts as the router's    *)
(* own exactly when some route leaves by the interface with its address.     *)
THEOREM LookupFindsOwnAddress == Spec => []OwnAddressWins
<1>1. IInv => OwnAddressWins
  <2> SUFFICES ASSUME IInv, Done PROVE OwnAddressWins
    BY DEF OwnAddressWins
  <2>1. CASE send_router = 1
    BY <2>1 DEF IInv, OwnTaken, OwnAddressWins, Own
  <2>2. CASE send_router = 0
    <3>1. route = Len(routing_table) + 1 /\ Len(routing_table) \in Nat
      BY <2>2, DoneMatches DEF IInv, TypeOK
    <3> QED
      BY <2>2, <3>1 DEF IInv, NoOwnPassed, OwnAddressWins, Own
  <2> QED
    BY <2>1, <2>2 DEF IInv, TypeOK
<1> QED
  BY <1>1, Inductive, PTL
=============================================================================
