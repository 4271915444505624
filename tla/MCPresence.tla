----------------------------- MODULE MCPresence -----------------------------
(* A small instance of Presence for TLC. *)
EXTENDS Presence, TLC

CONSTANTS s1, s2, r1, r2

\* A viewer in each of two rooms.
OneAndOne == s1 :> r1 @@ s2 :> r2
=============================================================================
