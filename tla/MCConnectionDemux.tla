------------------------- MODULE MCConnectionDemux -------------------------
(* Instances of ConnectionDemux for TLC. *)
EXTENDS ConnectionDemux

CONSTANTS c1, c2, c3

(* c1 and c3 reuse one address. *)
SharedAddr == [c \in Conns |-> IF c = c3 THEN c1 ELSE c]

=============================================================================
