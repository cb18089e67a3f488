--------------------------- MODULE MCHostPipeline ----------------------------
(* An instance of HostPipeline for TLC: every class of reply, a 429 that   *)
(* asks for less than the longest delay and one that asks for more.        *)
EXTENDS HostPipeline

CONSTANTS i1, i2, i3

AnyReply == {Status(200), Status(404), Status(503), Later(429, 1), Later(429, 9),
             Exception("transient"), Exception("other")}

=============================================================================
