---------------------------- MODULE RateLimiter -----------------------------
(***************************************************************************)
(* The rate limiter of one host (src/async_hardened_client/                *)
(* rate_limiter.py): TokenBucket.acquire() called by concurrent tasks, and *)
(* HostRateLimiter.set_override(), which drops the host's bucket so that   *)
(* the next acquire() makes a new one.                                     *)
(*                                                                         *)
(* Time is counted in ticks and tokens in units, a token being Token       *)
(* units, so that rates are integers.  A bucket's lock is held over no     *)
(* await: an iteration of the loop in acquire() is one step, from its      *)
(* refill to its return or to its sleep.                                   *)
(***************************************************************************)
EXTENDS Integers, Sequences, FiniteSets

CONSTANTS
    Tasks,      \* coroutines that acquire tokens, over and over
    Token,      \* units per token
    Configs,    \* <<rate, burst>> of the default and then of each override,
                \*   in units per tick and in tokens
    MaxTime     \* bound: ticks of the clock

Buckets == DOMAIN Configs
Rate(b)     == Configs[b][1]
Capacity(b) == Configs[b][2] * Token

ASSUME LimiterAssumption ==
    /\ Token \in Nat \ {0}
    /\ Configs \in Seq((Nat \ {0}) \X (Nat \ {0})) /\ Configs # <<>>
    /\ MaxTime \in Nat

VARIABLES
    now,        \* time.monotonic()
    current,    \* the bucket in HostRateLimiter._buckets
    tokens,     \* TokenBucket._tokens of each bucket
    last,       \* TokenBucket._last of each bucket
    task,       \* each task: its bucket while in acquire() (else 0), the sleep that is
                \*   left (that of left / rate ticks), and (history) how many grants the
                \*   bucket had made before it
    grants      \* history: when each bucket's grants were made

vars == <<now, current, tokens, last, task, grants>>

Outside == [bucket |-> 0, left |-> 0, seen |-> 0]

TypeOK ==
    /\ now \in 0..MaxTime
    /\ current \in Buckets
    /\ tokens \in [Buckets -> Nat] /\ \A b \in Buckets : tokens[b] <= Capacity(b)
    /\ last \in [Buckets -> 0..MaxTime]
    /\ task \in [Tasks -> [bucket : Buckets \cup {0}, left : Nat, seen : Nat]]
    /\ grants \in [Buckets -> Seq(0..MaxTime)]

Init ==
    /\ now = 0
    /\ current = 1
    /\ tokens = [b \in Buckets |-> Capacity(b)]
    /\ last = [b \in Buckets |-> 0]
    /\ task = [t \in Tasks |-> Outside]
    /\ grants = [b \in Buckets |-> <<>>]

-----------------------------------------------------------------------------
(* TokenBucket *)

(* Mutant: the capacity is ignored. *)
RefilledUncapped(b) == tokens[b] + (now - last[b]) * Rate(b)

(* What _refill() computes. *)
Refilled(b) ==
    LET sum == tokens[b] + (now - last[b]) * Rate(b)
    IN  IF sum < Capacity(b) THEN sum ELSE Capacity(b)

(* Mutant: rounded down to ticks. *)
WaitTooShort(b) == ((Token - Refilled(b)) \div Rate(b)) * Rate(b)

(* deficit / rate, a fraction that is kept by its numerator: the units     *)
(* that flow in during the sleep.                                          *)
Wait(b) == Token - Refilled(b)

(* One iteration of acquire(). *)
Iterate(t, b) ==
    /\ last' = [last EXCEPT ![b] = now]
    /\ IF Refilled(b) >= Token
       THEN /\ tokens' = [tokens EXCEPT ![b] = Refilled(b) - Token]
            /\ task' = [task EXCEPT ![t] = Outside]
            /\ grants' = [grants EXCEPT ![b] = Append(@, now)]
       ELSE /\ tokens' = [tokens EXCEPT ![b] = Refilled(b)]
            /\ task' = [task EXCEPT ![t] = [bucket |-> b, left |-> Wait(b),
                                            seen |-> Len(grants[b])]]
            /\ UNCHANGED grants
    /\ UNCHANGED <<now, current>>

(* HostRateLimiter.acquire(): look the bucket up, then the first iteration. *)
Acquire(t) ==
    /\ task[t].bucket = 0
    /\ Iterate(t, current)

(* asyncio.sleep(wait) is over; it may have taken longer. *)
Wake(t) ==
    /\ task[t].bucket # 0 /\ task[t].left = 0
    /\ Iterate(t, task[t].bucket)

(* set_override().  The new bucket is full when it is made, and stays full *)
(* until it is used: it is the same whenever the first acquire() comes.    *)
SetOverride ==
    /\ current < Len(Configs)
    /\ current' = current + 1
    /\ last' = [last EXCEPT ![current + 1] = now]
    /\ UNCHANGED <<now, tokens, task, grants>>

(* What a tick leaves of the sleep of s. *)
LeftAfterTick(s) ==
    IF s.bucket = 0 \/ s.left <= Rate(s.bucket) THEN 0 ELSE s.left - Rate(s.bucket)

Tick ==
    /\ now < MaxTime
    /\ now' = now + 1
    /\ task' = [t \in Tasks |-> [task[t] EXCEPT !.left = LeftAfterTick(task[t])]]
    /\ UNCHANGED <<current, tokens, last, grants>>

Next == Tick \/ SetOverride \/ \E t \in Tasks : Acquire(t) \/ Wake(t)

Spec == Init /\ [][Next]_vars

-----------------------------------------------------------------------------
(* Safety *)

(* In every interval, a bucket grants no more than its burst and what      *)
(* flows in during the interval, however the tasks interleave and however  *)
(* late they wake: the rate limit itself.                                  *)
BucketRateRespected ==
    \A b \in Buckets : \A i, j \in DOMAIN grants[b] :
        i <= j => (j - i + 1) * Token
                    <= Capacity(b) + Rate(b) * (grants[b][j] - grants[b][i])

(* The wait that acquire() computes is long enough: a task that slept it   *)
(* off finds its token, unless another task of the bucket got one in the   *)
(* meantime ("computed analytically rather than busy-looping").            *)
SleepSuffices ==
    \A t \in Tasks :
        LET b == task[t].bucket
        IN  b # 0 /\ task[t].left = 0 /\ task[t].seen = Len(grants[b]) => Refilled(b) >= Token

=============================================================================
