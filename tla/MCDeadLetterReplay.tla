------------------------- MODULE MCDeadLetterReplay -------------------------
(* Instances of DeadLetterReplay for TLC: two requests; one process at a   *)
(* time with every fault, or the commands beside an application.           *)
EXTENDS DeadLetterReplay

CONSTANTS app, op, k1, k2

AloneOrShared == {{"crash", "error"}, {"shared"}}
Crashing == {{"crash"}}

(* The requests are interchangeable. *)
MCSymmetry == Permutations({k1, k2})

=============================================================================
