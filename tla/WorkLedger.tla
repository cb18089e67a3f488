----------------------------- MODULE WorkLedger -----------------------------
(***************************************************************************)
(* What AsyncHardenedClient promises about the requests it accepts, in     *)
(* terms of the two tables alone: a request stays in inflight_requests     *)
(* until it has succeeded or is in the dead-letter queue.  The promise is  *)
(* at-least-once: a row may outlive its outcome, and be worked on again.   *)
(*                                                                         *)
(* HardenedClient implements this specification; how work is queued,       *)
(* retried, recovered and answered does not appear in it.                  *)
(***************************************************************************)
CONSTANT Keys   \* idempotency keys

VARIABLES
    open,     \* keys with a row in inflight_requests
    owed,     \* keys accepted, and since then neither succeeded nor dead-lettered
    buried    \* keys with a row in dead_letter_queue

vars == <<open, owed, buried>>

Init ==
    /\ open = {}
    /\ owed = {}
    /\ buried = {}

(* A request is accepted once its row is there. *)
Accept(k) ==
    /\ open' = open \cup {k}
    /\ owed' = owed \cup {k}
    /\ UNCHANGED buried

(* An exchange for an open key succeeds. *)
Finish(k) ==
    /\ k \in open
    /\ owed' = owed \ {k}
    /\ UNCHANGED <<open, buried>>

(* The work on an open key is given up. *)
Bury(k) ==
    /\ k \in open
    /\ owed' = owed \ {k}
    /\ buried' = buried \cup {k}
    /\ UNCHANGED open

(* A row goes when nothing is owed for it. *)
Close(k) ==
    /\ k \notin owed
    /\ open' = open \ {k}
    /\ UNCHANGED <<owed, buried>>

Next == \E k \in Keys : Accept(k) \/ Finish(k) \/ Bury(k) \/ Close(k)

Spec == Init /\ [][Next]_vars

=============================================================================
