---------------------------- MODULE MCRouteLookup ----------------------------
(* Instances of RouteLookup for TLC: addresses of two bits. *)
EXTENDS RouteLookup, Bitwise

Addresses == 0 .. 3

(* The masks of prefix lengths 0, 1 and 2. *)
Prefixes == {0, 2, 3}

Ampersand(a, b) == a & b

(* Two interfaces whose addresses are the first and the last. *)
TwoIfaces == {1, 2}
FirstAndLast == [i \in TwoIfaces |-> IF i = 1 THEN 0 ELSE 3]

=============================================================================
