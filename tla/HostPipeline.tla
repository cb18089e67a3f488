---------------------------- MODULE HostPipeline -----------------------------
(***************************************************************************)
(* The items of one host between the queue, the circuit breaker, the       *)
(* exchange and the retry timer: _handle(), _handle_retry_or_dlq() and     *)
(* _reschedule() of src/async_hardened_client/client.py, composed with     *)
(* CircuitBreaker and RetryPolicy and with time.  An item that the breaker *)
(* turns away spends a retry and sleeps until the breaker expects it; one  *)
(* that fails sleeps its backoff.  There are workers enough for the items. *)
(***************************************************************************)
EXTENDS RetryPolicy, FiniteSets

CONSTANTS
    Calls, FailureThreshold, RollingWindow, RateNum, RateDen, OpenSeconds, MaxProbes,
                    \* those of CircuitBreaker; a call is an item's
    Replies         \* what the exchanges may end with, a subset of Reply

VARIABLES
    state, failures, elapsed, probes, outcomes, call, lost,   \* those of CircuitBreaker
    stage,      \* where each item is
    attempt,    \* QueueItem.attempt
    left,       \* what is left of the sleep in _reschedule()
    turned      \* history: how often the item was turned away in this cool-down, that is,
                \*   while the breaker is OPEN

breaker == <<state, failures, elapsed, probes, outcomes, call, lost>>
items   == <<stage, attempt, left>>
vars    == <<breaker, items, turned>>

Breaker == INSTANCE CircuitBreaker WITH
    Outcomes <- {"success", "failure", "throttled"}

ASSUME PipelineAssumption == Replies \subseteq Reply /\ Breaker!BreakerAssumption

TypeOK ==
    /\ Breaker!TypeOK
    /\ stage \in [Calls -> {"queued", "sending", "asleep", "done", "dead"}]
    /\ attempt \in [Calls -> 0..MaxRetries]
    /\ left \in [Calls -> 0..MaxDelay]
    /\ \A c \in Calls : (stage[c] = "sending" <=> call[c] # "idle") /\ (left[c] > 0 => stage[c] = "asleep")
    /\ turned \in [Calls -> Nat]

Init ==
    /\ Breaker!Init
    /\ stage = [c \in Calls |-> "queued"]
    /\ attempt = [c \in Calls |-> 0]
    /\ left = [c \in Calls |-> 0]
    /\ turned = [c \in Calls |-> 0]

-----------------------------------------------------------------------------

(* Mutant: a failure that the breaker causes does not count as an attempt. *)
SpentOnExchange(c) == IF stage[c] = "sending" THEN attempt[c] + 1 ELSE attempt[c]

Spent(c) == attempt[c] + 1

(* _handle_retry_or_dlq() *)
RetryOrBury(c, retryable, after) ==
    IF retryable /\ should_retry(attempt[c])
    THEN /\ attempt' = [attempt EXCEPT ![c] = Spent(c)]
         /\ stage' = [stage EXCEPT ![c] = "asleep"]
         /\ \E d \in backoff_seconds(attempt[c], after) : left' = [left EXCEPT ![c] = d]
    ELSE /\ stage' = [stage EXCEPT ![c] = "dead"]
         /\ UNCHANGED <<attempt, left>>

(* before_call() returns. *)
Dispatch(c) ==
    /\ stage[c] = "queued"
    /\ Breaker!AdmitClosed(c) \/ Breaker!AdmitProbe(c)
    /\ stage' = [stage EXCEPT ![c] = "sending"]
    /\ turned' = IF state' = "open" THEN turned ELSE [d \in Calls |-> 0]
    /\ UNCHANGED <<attempt, left>>

(* before_call() raises CircuitOpenError; its retry_after is what is left  *)
(* of the cool-down, or 0 when the probe slots of the half-open breaker    *)
(* are taken.  Either costs the item a retry; the latter does not belong   *)
(* to a cool-down.                                                         *)
ShortCircuit(c) ==
    /\ stage[c] = "queued"
    /\ Breaker!Reject(c)
    /\ RetryOrBury(c, TRUE, IF state = "open" THEN OpenSeconds - elapsed ELSE 0)
    /\ turned' = IF state = "open" THEN [turned EXCEPT ![c] = @ + 1] ELSE turned

Succeed(c) ==
    /\ stage[c] = "sending"
    /\ \E r \in Replies : IsResponse(r)
    /\ Breaker!OnSuccess(c)
    /\ stage' = [stage EXCEPT ![c] = "done"]
    /\ UNCHANGED <<attempt, left, turned>>

(* The exchange fails: a 429 is not reported to the breaker. *)
Falter(c, r) ==
    /\ stage[c] = "sending"
    /\ ~IsResponse(r)
    /\ IF Throttled(r) THEN Breaker!NotReported(c) ELSE Breaker!OnFailure(c)
    /\ RetryOrBury(c, Retryable(r), RetryAfter(r))
    /\ turned' = IF state # "open" /\ state' = "open" THEN [d \in Calls |-> 0] ELSE turned

(* _reschedule() puts the item back into the queue. *)
Wake(c) ==
    /\ stage[c] = "asleep" /\ left[c] = 0
    /\ stage' = [stage EXCEPT ![c] = "queued"]
    /\ UNCHANGED <<breaker, attempt, left, turned>>

(* Time passes for the cool-down and for every sleep alike. *)
Tick ==
    /\ (state = "open" /\ elapsed < OpenSeconds) \/ \E c \in Calls : left[c] > 0
    /\ elapsed' = IF state = "open" /\ elapsed < OpenSeconds THEN elapsed + 1 ELSE elapsed
    /\ left' = [c \in Calls |-> IF left[c] = 0 THEN 0 ELSE left[c] - 1]
    /\ UNCHANGED <<state, failures, probes, outcomes, call, lost, stage, attempt, turned>>

Handle(c) ==
    Dispatch(c) \/ ShortCircuit(c) \/ Wake(c) \/ Succeed(c) \/ \E r \in Replies : Falter(c, r)

(* Everything is settled. *)
Settled(c) == stage[c] \in {"done", "dead"}
Quiescent == (\A c \in Calls : Settled(c)) /\ UNCHANGED vars

Next == Tick \/ Quiescent \/ \E c \in Calls : Handle(c)

(* Time passes, workers take what is queued, ClientTimeout(total) ends     *)
(* every exchange.  Nothing is assumed about how it ends.                  *)
Spec == Init /\ [][Next]_vars /\ WF_vars(Tick) /\ \A c \in Calls : WF_vars(Handle(c))

-----------------------------------------------------------------------------
(* Properties *)

(* With max_delay >= open_seconds, a cool-down turns an item away at most  *)
(* once: the sleep that retry_after asks for ends when the cool-down does, *)
(* whoever else is turned away and whatever fails in the meantime.  What   *)
(* the half-open breaker turns away for want of a probe slot comes on top  *)
(* (retry_after is 0 then) and may use up the retries that are left.       *)
OncePerCoolDown == MaxDelay >= OpenSeconds => \A c \in Calls : turned[c] <= 1

(* Every item succeeds or is dead-lettered, whatever the upstream answers, *)
(* also when the half-open breaker has lost its probe slots to 429s and    *)
(* rejects everything: rejections count as attempts.                       *)
EveryItemSettles == \A c \in Calls : <>Settled(c)

=============================================================================
