--------------------------- MODULE MCRateLimiter ----------------------------
(* An instance of RateLimiter for TLC: a bucket of two tokens into which   *)
(* two thirds of a token flow per tick, then an override with less burst   *)
(* and half the rate.                                                      *)
EXTENDS RateLimiter, TLC

CONSTANTS t1, t2, t3

Overridden == << <<2, 2>>, <<1, 1>> >>

(* The tasks are interchangeable. *)
MCSymmetry == Permutations({t1, t2, t3})

=============================================================================
