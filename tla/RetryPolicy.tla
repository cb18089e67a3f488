----------------------------- MODULE RetryPolicy -----------------------------
(***************************************************************************)
(* Which outcomes are retried and after how long                           *)
(* (src/async_hardened_client/errors.py, retry.py and the exceptions of    *)
(* client.py).  A reply is what an HTTP exchange ends with: a status with  *)
(* the seconds of its Retry-After header, if it has one in that form, or   *)
(* an exception of the transport.  Time is counted in ticks.               *)
(***************************************************************************)
EXTENDS Integers, Sequences

CONSTANTS
    MaxRetries,   \* RetryPolicy.max_retries
    BaseDelay,    \* RetryPolicy.base_delay
    MaxDelay,     \* RetryPolicy.max_delay
    Jitter        \* RetryPolicy.jitter

ASSUME PolicyAssumption ==
    /\ MaxRetries \in Nat /\ BaseDelay \in Nat /\ MaxDelay \in Nat
    /\ Jitter \in BOOLEAN

(* transient: asyncio.TimeoutError, aiohttp.ClientConnectionError,         *)
(* ServerDisconnectedError and ClientPayloadError.                         *)
Reply == [exc : {"none", "transient", "other"}, status : 100..599, header : Seq(Int)]

Status(n)     == [exc |-> "none", status |-> n, header |-> <<>>]
Later(n, s)   == [exc |-> "none", status |-> n, header |-> <<s>>]
Exception(e)  == [exc |-> e, status |-> 599, header |-> <<>>]

-----------------------------------------------------------------------------

IsResponse(r) == r.exc = "none" /\ r.status \in 200..399

is_retryable_status(n) == n = 429 \/ n \in 500..599

(* RetryableError, or an exception that is_retryable_exception() accepts. *)
Retryable(r) == IF r.exc = "none" THEN is_retryable_status(r.status) ELSE r.exc = "transient"

(* _is_throttle() *)
Throttled(r) == r.exc = "none" /\ r.status = 429

(* None and 0 make no difference to backoff_seconds(). *)
parse_retry_after(h) == IF h = <<>> \/ h[1] < 0 THEN 0 ELSE h[1]

(* The retry_after of the exception: only an HTTP status has a header. *)
RetryAfter(r) == IF r.exc = "none" /\ Retryable(r) THEN parse_retry_after(r.header) ELSE 0

(* Mutant: one retry too many. *)
should_retry_off_by_one(attempt) == attempt <= MaxRetries

should_retry(attempt) == attempt < MaxRetries

Smaller(m, n) == IF m < n THEN m ELSE n

(* Mutant: the time at which the upstream or the breaker expects the next  *)
(* attempt is ignored.                                                     *)
BackoffByPolicy(attempt, after) ==
    LET target == Smaller(MaxDelay, BaseDelay * 2^attempt)
    IN  {d \in 0..MaxDelay : d = target \/ (Jitter /\ d < target)}

(* The delays that backoff_seconds() may return. *)
backoff_seconds(attempt, after) ==
    LET target == Smaller(MaxDelay, BaseDelay * 2^attempt)
    IN  IF after > 0
        THEN {Smaller(after, MaxDelay)}
        ELSE {d \in 0..MaxDelay : d = target \/ (Jitter /\ d < target)}

=============================================================================
