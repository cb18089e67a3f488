-------------------------- MODULE MCCircuitBreaker --------------------------
(* Instances of CircuitBreaker for TLC: three calls in flight. *)
EXTENDS CircuitBreaker

CONSTANTS p1, p2, p3

=============================================================================
