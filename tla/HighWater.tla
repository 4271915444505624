------------------------------ MODULE HighWater ------------------------------
(***************************************************************************)
(* What a table of peaks promises: each entry rises towards the highest    *)
(* value reached so far, never over it, and is never lowered.              *)
(***************************************************************************)
EXTENDS Integers

CONSTANT Keys
VARIABLES actual, reported

vars == <<actual, reported>>

Init ==
  /\ actual = [k \in Keys |-> 0]
  /\ reported = [k \in Keys |-> 0]

Rises(f, g) == \A k \in Keys : f[k] <= g[k]

(* More is reached than before. *)
Rise ==
  /\ Rises(actual, actual')
  /\ UNCHANGED reported

(* What was reached is reported, in part. *)
Report ==
  /\ Rises(reported, reported') /\ Rises(reported', actual)
  /\ UNCHANGED actual

Next == Rise \/ Report

Spec == Init /\ [][Next]_vars
=============================================================================
