-------------------------- MODULE MCHardenedClient --------------------------
(* Instances of HardenedClient for TLC: c1 and c2 submit the same request, *)
(* c3 a different one.                                                     *)
EXTENDS HardenedClient, TLC

CONSTANTS c1, c2, c3, k1, k2

MCKeyOf == [c \in Callers |-> IF c = c3 THEN k2 ELSE k1]

(* c1 and c2 are interchangeable. *)
MCSymmetry == Permutations({c1, c2})

=============================================================================
