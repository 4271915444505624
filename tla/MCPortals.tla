----------------------------- MODULE MCPortals -----------------------------
(* Small instances of Portals. *)
EXTENDS Portals

CONSTANTS First, Second

\* The first member makes four gestures, or one and the second another.
Gestures == [m \in {First, Second} |-> IF m = First THEN 1 ELSE 3]

\* No run of this module checks liveness; portals are interchangeable.
Symmetry == Permutations(Portals)

=============================================================================
