------------------------- MODULE HostPipelineProofs --------------------------
(***************************************************************************)
(* Proofs about HostPipeline, for any number of items and any policy: the  *)
(* pipeline uses the breaker in the way CircuitBreaker describes, so that  *)
(* what is proved about the breaker holds of it, and a cool-down of the    *)
(* breaker turns an item away at most once.                                *)
(***************************************************************************)
EXTENDS HostPipeline, TLAPS

(* The theorems about the breaker, for the pipeline's one. *)
Proved == INSTANCE CircuitBreakerProofs WITH
    Outcomes <- {"success", "failure", "throttled"}

-----------------------------------------------------------------------------
(* The inductive invariant of OncePerCoolDown *)

(* An item that was turned away sleeps at least as long as the breaker     *)
(* stays open.                                                             *)
TurnedAwaits(c) ==
    \/ Settled(c)
    \/ elapsed = OpenSeconds
    \/ stage[c] = "asleep" /\ left[c] >= OpenSeconds - elapsed

Turned ==
    \A c \in Calls :
        /\ turned[c] \in {0, 1}
        /\ turned[c] = 1 => state = "open" /\ TurnedAwaits(c)

IInv == TypeOK /\ (MaxDelay >= OpenSeconds => Turned)

-----------------------------------------------------------------------------
(* The breaker *)

(* The constants of the breaker. *)
LEMMA BreakerConstants ==
    /\ Breaker!BreakerAssumption /\ Proved!BreakerAssumption
    /\ OpenSeconds \in Nat /\ MaxProbes \in Nat \ {0}
  BY PipelineAssumption
    DEF Breaker!BreakerAssumption, Proved!BreakerAssumption,
        Breaker!AllOutcomes, Proved!AllOutcomes, Breaker!IsFiniteSet, Proved!IsFiniteSet

(* Both instances are of one module, with the same parameters. *)
LEMMA SameBreaker ==
    /\ Breaker!TypeOK <=> Proved!TypeOK
    /\ Breaker!TypeOK' <=> Proved!TypeOK'
    /\ [Breaker!Next]_(Breaker!vars) <=> [Proved!Next]_(Proved!vars)
<1>1. (Breaker!TypeOK <=> Proved!TypeOK) /\ (Breaker!TypeOK' <=> Proved!TypeOK')
  BY DEF Breaker!TypeOK, Proved!TypeOK
<1>2. [Breaker!Next]_(Breaker!vars) <=> [Proved!Next]_(Proved!vars)
  BY Zenon DEF Breaker!Next, Proved!Next, Breaker!vars, Proved!vars,
         Breaker!Tick, Proved!Tick, Breaker!AdmitClosed, Proved!AdmitClosed,
         Breaker!AdmitProbe, Proved!AdmitProbe, Breaker!CoolDownOver, Proved!CoolDownOver,
         Breaker!SlotFree, Proved!SlotFree, Breaker!Reject, Proved!Reject,
         Breaker!Return, Proved!Return, Breaker!OnSuccess, Proved!OnSuccess,
         Breaker!OnFailure, Proved!OnFailure, Breaker!NotReported, Proved!NotReported,
         Breaker!Trips, Proved!Trips, Breaker!RateReached, Proved!RateReached,
         Breaker!NumFailures, Proved!NumFailures, Breaker!Cardinality, Proved!Cardinality, Breaker!MoreFailures, Proved!MoreFailures,
         Breaker!Window, Proved!Window, Breaker!Ended, Proved!Ended,
         Breaker!EndedWithPeriod, Proved!EndedWithPeriod
<1>3. QED
  BY <1>1, <1>2

(* Every step of the pipeline is a step of the breaker, or leaves it as it *)
(* is.                                                                     *)
LEMMA BreakerSteps ==
    ASSUME [Next]_vars
    PROVE  [Breaker!Next]_(Breaker!vars)
<1>1. ASSUME NEW c \in Calls, Dispatch(c)
      PROVE  Breaker!Next
  BY <1>1 DEF Dispatch, Breaker!Next
<1>2. ASSUME NEW c \in Calls, ShortCircuit(c)
      PROVE  Breaker!Next
  BY <1>2 DEF ShortCircuit, Breaker!Next
<1>3. ASSUME NEW c \in Calls, Succeed(c)
      PROVE  Breaker!Next
  BY <1>3 DEF Succeed, Breaker!Next, Breaker!Return
<1>4. ASSUME NEW c \in Calls, NEW r \in Replies, Falter(c, r)
      PROVE  Breaker!Next
  BY <1>4 DEF Falter, Breaker!Next, Breaker!Return
<1>5. ASSUME NEW c \in Calls, Wake(c)
      PROVE  UNCHANGED Breaker!vars
  BY <1>5 DEF Wake, breaker, Breaker!vars
<1>6. CASE Tick
  <2>1. CASE state = "open" /\ elapsed < OpenSeconds
    BY <1>6, <2>1 DEF Tick, Breaker!Next, Breaker!Tick
  <2>2. CASE ~(state = "open" /\ elapsed < OpenSeconds)
    BY <1>6, <2>2 DEF Tick, Breaker!vars
  <2>3. QED
    BY <2>1, <2>2
<1>7. CASE UNCHANGED vars
  BY <1>7 DEF vars, breaker, Breaker!vars
<1>8. QED
  BY <1>1, <1>2, <1>3, <1>4, <1>5, <1>6, <1>7 DEF Next, Handle, Quiescent

(* The pipeline uses its breaker as CircuitBreaker describes: nothing that *)
(* is proved of every use of the breaker fails for this one.               *)
THEOREM UsesBreaker == Spec => Breaker!Spec
<1>1. Init => Breaker!Init
  BY DEF Init
<1>2. [Next]_vars => [Breaker!Next]_(Breaker!vars)
  BY BreakerSteps
<1>3. QED
  BY <1>1, <1>2, PTL DEF Spec, Breaker!Spec

-----------------------------------------------------------------------------
(* Types *)

(* The breaker's variables keep their types. *)
LEMMA BreakerTypes ==
    ASSUME Breaker!TypeOK, [Next]_vars
    PROVE  Breaker!TypeOK'
  BY BreakerSteps, SameBreaker, BreakerConstants, Proved!TypePreserved

(* A delay is no longer than max_delay; one that is asked for is kept, if  *)
(* it is no longer either.                                                 *)
LEMMA DelayFacts ==
    ASSUME NEW n \in Nat, NEW after \in Int, NEW d \in backoff_seconds(n, after)
    PROVE  d \in 0..MaxDelay /\ (after > 0 /\ after <= MaxDelay => d = after)
<1>1. CASE after > 0
  BY <1>1, PolicyAssumption DEF backoff_seconds, Smaller
<1>2. CASE ~(after > 0)
  BY <1>2 DEF backoff_seconds
<1>3. QED
  BY <1>1, <1>2

(* retry_after is a number, whatever the reply. *)
LEMMA RetryAfterType ==
    ASSUME NEW r \in Replies
    PROVE  RetryAfter(r) \in Int
<1>1. r.header \in Seq(Int)
  BY PipelineAssumption DEF Reply
<1>2. parse_retry_after(r.header) \in Int
  BY <1>1 DEF parse_retry_after
<1>3. QED
  BY <1>2 DEF RetryAfter

(* What _handle_retry_or_dlq() does to the item: it sleeps, with an        *)
(* attempt less, or is dead.                                               *)
LEMMA RetryFacts ==
    ASSUME TypeOK, NEW c \in Calls, stage[c] # "asleep",
           NEW retryable, NEW after \in Int, RetryOrBury(c, retryable, after)
    PROVE  /\ attempt' \in [Calls -> 0..MaxRetries]
           /\ left' \in [Calls -> 0..MaxDelay]
           /\ stage' \in [Calls -> {"queued", "sending", "asleep", "done", "dead"}]
           /\ \A d \in Calls \ {c} : stage'[d] = stage[d] /\ left'[d] = left[d]
           /\ stage'[c] \in {"asleep", "dead"}
           /\ left'[c] > 0 => stage'[c] = "asleep"
           /\ stage'[c] = "asleep" /\ after > 0 /\ after <= MaxDelay => left'[c] = after
<1>1. attempt[c] \in 0..MaxRetries /\ MaxRetries \in Nat /\ MaxDelay \in Nat
  BY PolicyAssumption DEF TypeOK
<1>2. CASE retryable /\ should_retry(attempt[c])
  <2>1. PICK d \in backoff_seconds(attempt[c], after) : left' = [left EXCEPT ![c] = d]
    BY <1>2 DEF RetryOrBury
  <2>2. d \in 0..MaxDelay /\ (after > 0 /\ after <= MaxDelay => d = after)
    BY <1>1, <2>1, DelayFacts
  <2>3. attempt' = [attempt EXCEPT ![c] = attempt[c] + 1] /\ attempt[c] + 1 \in 0..MaxRetries
    BY <1>1, <1>2 DEF RetryOrBury, Spent, should_retry
  <2>4. stage' = [stage EXCEPT ![c] = "asleep"]
    BY <1>2 DEF RetryOrBury
  <2>5. QED
    BY <2>1, <2>2, <2>3, <2>4 DEF TypeOK
<1>3. CASE ~(retryable /\ should_retry(attempt[c]))
  <2>1. stage' = [stage EXCEPT ![c] = "dead"] /\ UNCHANGED <<attempt, left>>
    BY <1>3 DEF RetryOrBury
  <2>2. ~(left[c] > 0)
    BY DEF TypeOK
  <2>3. QED
    BY <2>1, <2>2 DEF TypeOK
<1>4. QED
  BY <1>2, <1>3

(* Every step keeps the types, and the items agree with the breaker on     *)
(* which exchanges are under way.                                          *)
LEMMA TypePreserved ==
    ASSUME TypeOK, [Next]_vars
    PROVE  TypeOK'
<1>0. Breaker!TypeOK /\ Breaker!TypeOK' /\ MaxRetries \in Nat /\ MaxDelay \in Nat
  BY BreakerTypes, PolicyAssumption DEF TypeOK
<1>1. call \in [Calls -> {"idle", "regular", "probe"}] /\ OpenSeconds - elapsed \in Int
  BY <1>0, BreakerConstants DEF Breaker!TypeOK
<1>2. ASSUME NEW c \in Calls, Dispatch(c)
      PROVE  TypeOK'
  <2>1. call'[c] # "idle" /\ \A d \in Calls \ {c} : call'[d] = call[d]
    BY <1>1, <1>2 DEF Dispatch, Breaker!AdmitClosed, Breaker!AdmitProbe
  <2>2. stage' = [stage EXCEPT ![c] = "sending"] /\ UNCHANGED <<attempt, left>>
    BY <1>2 DEF Dispatch
  <2>3. ~(left[c] > 0)
    BY <1>2 DEF Dispatch, TypeOK
  <2>4. turned' \in [Calls -> Nat]
    BY <1>2 DEF Dispatch, TypeOK
  <2>5. QED
    BY <1>0, <2>1, <2>2, <2>3, <2>4 DEF TypeOK
<1>3. ASSUME NEW c \in Calls, ShortCircuit(c)
      PROVE  TypeOK'
  <2> DEFINE after == IF state = "open" THEN OpenSeconds - elapsed ELSE 0
  <2>1. stage[c] = "queued" /\ call' = call /\ RetryOrBury(c, TRUE, after) /\ after \in Int
    <3>1. stage[c] = "queued" /\ call' = call
      BY <1>3 DEF ShortCircuit, Breaker!Reject, Breaker!vars
    <3>2. RetryOrBury(c, TRUE, after)
      BY <1>3, Zenon DEF ShortCircuit
    <3>3. after \in Int
      BY <1>1
    <3>4. QED
      BY <3>1, <3>2, <3>3
  <2> HIDE DEF after
  <2>2. turned' \in [Calls -> Nat]
    BY <1>3 DEF ShortCircuit, TypeOK
  <2>3. /\ attempt' \in [Calls -> 0..MaxRetries]
        /\ left' \in [Calls -> 0..MaxDelay]
        /\ stage' \in [Calls -> {"queued", "sending", "asleep", "done", "dead"}]
        /\ \A d \in Calls \ {c} : stage'[d] = stage[d] /\ left'[d] = left[d]
        /\ stage'[c] \in {"asleep", "dead"}
        /\ left'[c] > 0 => stage'[c] = "asleep"
    BY <2>1, RetryFacts
  <2>4. \A d \in Calls : (stage'[d] = "sending" <=> call'[d] # "idle") /\ (left'[d] > 0 => stage'[d] = "asleep")
    BY <2>1, <2>3 DEF TypeOK
  <2>5. QED
    BY <1>0, <2>2, <2>3, <2>4 DEF TypeOK
<1>4. ASSUME NEW c \in Calls, Succeed(c)
      PROVE  TypeOK'
  <2>1. call'[c] = "idle" /\ \A d \in Calls \ {c} : call'[d] = "idle" <=> call[d] = "idle"
    BY <1>1, <1>4 DEF Succeed, Breaker!OnSuccess, Breaker!Ended, Breaker!EndedWithPeriod
  <2>2. stage' = [stage EXCEPT ![c] = "done"] /\ UNCHANGED <<attempt, left, turned>>
    BY <1>4 DEF Succeed
  <2>3. ~(left[c] > 0)
    BY <1>4 DEF Succeed, TypeOK
  <2>4. QED
    BY <1>0, <2>1, <2>2, <2>3 DEF TypeOK
<1>5. ASSUME NEW c \in Calls, NEW r \in Replies, Falter(c, r)
      PROVE  TypeOK'
  <2>1. call'[c] = "idle" /\ \A d \in Calls \ {c} : call'[d] = "idle" <=> call[d] = "idle"
    BY <1>1, <1>5
      DEF Falter, Breaker!OnFailure, Breaker!NotReported, Breaker!Ended, Breaker!EndedWithPeriod
  <2>2. stage[c] = "sending" /\ RetryOrBury(c, Retryable(r), RetryAfter(r)) /\ RetryAfter(r) \in Int
    BY <1>5, RetryAfterType DEF Falter
  <2>3. /\ attempt' \in [Calls -> 0..MaxRetries]
        /\ left' \in [Calls -> 0..MaxDelay]
        /\ stage' \in [Calls -> {"queued", "sending", "asleep", "done", "dead"}]
        /\ \A d \in Calls \ {c} : stage'[d] = stage[d] /\ left'[d] = left[d]
        /\ stage'[c] \in {"asleep", "dead"}
        /\ left'[c] > 0 => stage'[c] = "asleep"
    BY <2>2, RetryFacts
  <2>4. \A d \in Calls : (stage'[d] = "sending" <=> call'[d] # "idle") /\ (left'[d] > 0 => stage'[d] = "asleep")
    BY <2>1, <2>3 DEF TypeOK
  <2>5. turned' \in [Calls -> Nat]
    BY <1>5 DEF Falter, TypeOK
  <2>6. QED
    BY <1>0, <2>3, <2>4, <2>5 DEF TypeOK
<1>6. ASSUME NEW c \in Calls, Wake(c)
      PROVE  TypeOK'
  <2>1. stage[c] = "asleep" /\ left[c] = 0 /\ stage' = [stage EXCEPT ![c] = "queued"]
        /\ UNCHANGED <<call, attempt, left, turned>>
    BY <1>6 DEF Wake, breaker
  <2>2. QED
    BY <1>0, <2>1 DEF TypeOK
<1>7. CASE Tick
  <2>1. UNCHANGED <<call, stage, attempt, turned>>
        /\ left' = [c \in Calls |-> IF left[c] = 0 THEN 0 ELSE left[c] - 1]
    BY <1>7 DEF Tick
  <2>2. \A c \in Calls : left[c] \in 0..MaxDelay
    BY DEF TypeOK
  <2>3. left' \in [Calls -> 0..MaxDelay] /\ \A c \in Calls : left'[c] > 0 => left[c] > 0
    BY <1>0, <2>1, <2>2
  <2>4. QED
    BY <1>0, <2>1, <2>3 DEF TypeOK
<1>8. CASE UNCHANGED vars
  BY <1>0, <1>8 DEF vars, items, breaker, TypeOK
<1>9. QED
  BY <1>2, <1>3, <1>4, <1>5, <1>6, <1>7, <1>8 DEF Next, Handle, Quiescent

-----------------------------------------------------------------------------
(* Turned away once per cool-down *)

(* While the breaker stays open, who was turned away stays so that it is   *)
(* not turned away again.                                                  *)
LEMMA TurnedStays ==
    ASSUME Turned, NEW c \in Calls, turned' = turned, state' = state, elapsed' = elapsed,
           stage[c] # "asleep", ~Settled(c),
           \A d \in Calls \ {c} : stage'[d] = stage[d] /\ left'[d] = left[d]
    PROVE  Turned'
<1>1. turned[c] = 1 => elapsed = OpenSeconds
  BY DEF Turned, TurnedAwaits
<1>2. \A d \in Calls \ {c} : TurnedAwaits(d) => TurnedAwaits(d)'
  BY DEF TurnedAwaits, Settled
<1>3. elapsed = OpenSeconds => TurnedAwaits(c)'
  BY DEF TurnedAwaits
<1>4. QED
  BY <1>1, <1>2, <1>3 DEF Turned

(* Nobody was turned away from a breaker that is not open. *)
LEMMA TurnedReset ==
    ASSUME \A c \in Calls : turned'[c] = 0
    PROVE  Turned'
  BY DEF Turned

(* Every step keeps the account of who was turned away. *)
LEMMA TurnedPreserved ==
    ASSUME TypeOK, MaxDelay >= OpenSeconds, Turned, [Next]_vars
    PROVE  Turned'
<1>0. /\ elapsed \in 0..OpenSeconds /\ OpenSeconds \in Nat /\ MaxDelay \in Nat
      /\ state \in {"closed", "open", "half_open"}
      /\ turned \in [Calls -> Nat] /\ left \in [Calls -> 0..MaxDelay]
  BY BreakerConstants, PolicyAssumption DEF TypeOK, Breaker!TypeOK
<1>1. ASSUME NEW c \in Calls, Dispatch(c)
      PROVE  Turned'
  <2>1. state' # "open"
    BY <1>1 DEF Dispatch, Breaker!AdmitClosed, Breaker!AdmitProbe
  <2>2. QED
    BY <1>1, <2>1, TurnedReset DEF Dispatch
<1>2. ASSUME NEW c \in Calls, ShortCircuit(c)
      PROVE  Turned'
  <2>1. stage[c] = "queued" /\ state' = state /\ elapsed' = elapsed
    BY <1>2 DEF ShortCircuit, Breaker!Reject, Breaker!vars
  <2>2. CASE state # "open"
    BY <1>2, <2>2, TurnedReset DEF ShortCircuit, Turned
  <2>3. CASE state = "open"
    <3>1. elapsed < OpenSeconds
      BY <1>0, <1>2, <2>3 DEF ShortCircuit, Breaker!Reject, Breaker!CoolDownOver
    <3>2. turned[c] = 0
      BY <1>0, <2>1, <3>1 DEF Turned, TurnedAwaits, Settled
    <3> DEFINE after == OpenSeconds - elapsed
    <3>3. RetryOrBury(c, TRUE, after)
      BY <1>2, <2>3 DEF ShortCircuit
    <3>4. after \in Int /\ after > 0 /\ after <= MaxDelay
      BY <1>0, <3>1
    <3> HIDE DEF after
    <3>5. /\ \A d \in Calls \ {c} : stage'[d] = stage[d] /\ left'[d] = left[d]
          /\ stage'[c] \in {"asleep", "dead"}
          /\ stage'[c] = "asleep" => left'[c] = after
      BY <2>1, <3>3, <3>4, RetryFacts
    <3>6. turned'[c] = 1 /\ \A d \in Calls \ {c} : turned'[d] = turned[d]
      BY <1>0, <1>2, <2>3, <3>2 DEF ShortCircuit
    <3>7. TurnedAwaits(c)'
      <4>1. stage'[c] = "asleep" => left'[c] >= OpenSeconds - elapsed'
        BY <1>0, <2>1, <3>5 DEF after
      <4>2. QED
        BY <3>5, <4>1 DEF TurnedAwaits, Settled
    <3>8. \A d \in Calls \ {c} : TurnedAwaits(d) => TurnedAwaits(d)'
      BY <2>1, <3>5 DEF TurnedAwaits, Settled
    <3>9. QED
      BY <2>1, <2>3, <3>6, <3>7, <3>8 DEF Turned
  <2>4. QED
    BY <2>2, <2>3
<1>3. ASSUME NEW c \in Calls, Succeed(c)
      PROVE  Turned'
  <2>1. stage[c] = "sending" /\ turned' = turned /\ elapsed' = elapsed /\ left' = left
        /\ \A d \in Calls \ {c} : stage'[d] = stage[d]
    BY <1>3 DEF Succeed, Breaker!OnSuccess, TypeOK
  <2>2. CASE state = "open"
    <3>1. state' = state /\ ~Settled(c)
      BY <1>3, <2>1, <2>2 DEF Succeed, Breaker!OnSuccess, Settled
    <3>2. QED
      BY <2>1, <3>1, TurnedStays
  <2>3. CASE state # "open"
    BY <2>1, <2>3, TurnedReset DEF Turned
  <2>4. QED
    BY <2>2, <2>3
<1>4. ASSUME NEW c \in Calls, NEW r \in Replies, Falter(c, r)
      PROVE  Turned'
  <2>1. stage[c] = "sending" /\ RetryOrBury(c, Retryable(r), RetryAfter(r)) /\ RetryAfter(r) \in Int
    BY <1>4, RetryAfterType DEF Falter
  <2>2. \A d \in Calls \ {c} : stage'[d] = stage[d] /\ left'[d] = left[d]
    BY <2>1, RetryFacts
  <2>3. CASE state = "open"
    <3>1. state' = state /\ elapsed' = elapsed /\ turned' = turned
      BY <1>4, <2>3 DEF Falter, Breaker!OnFailure, Breaker!NotReported, Breaker!Trips
    <3>2. stage[c] # "asleep" /\ ~Settled(c)
      BY <2>1 DEF Settled
    <3>3. QED
      BY <2>2, <3>1, <3>2, TurnedStays
  <2>4. CASE state # "open"
    BY <1>4, <2>4, TurnedReset DEF Falter, Turned
  <2>5. QED
    BY <2>3, <2>4
<1>5. ASSUME NEW c \in Calls, Wake(c)
      PROVE  Turned'
  <2>1. stage[c] = "asleep" /\ left[c] = 0 /\ UNCHANGED <<state, elapsed, left, turned>>
        /\ \A d \in Calls \ {c} : stage'[d] = stage[d]
    BY <1>5 DEF Wake, breaker, TypeOK
  <2>2. TurnedAwaits(c) => elapsed = OpenSeconds
    BY <1>0, <2>1 DEF TurnedAwaits, Settled
  <2>3. elapsed = OpenSeconds => TurnedAwaits(c)'
    BY <2>1 DEF TurnedAwaits
  <2>4. \A d \in Calls \ {c} : TurnedAwaits(d) => TurnedAwaits(d)'
    BY <2>1 DEF TurnedAwaits, Settled
  <2>5. QED
    BY <2>1, <2>2, <2>3, <2>4 DEF Turned
<1>6. CASE Tick
  <2>1. UNCHANGED <<state, stage, turned>>
    BY <1>6 DEF Tick
  <2>2. ASSUME NEW c \in Calls, state = "open", TurnedAwaits(c)
        PROVE  TurnedAwaits(c)'
    <3>1. CASE Settled(c)
      BY <2>1, <3>1 DEF TurnedAwaits, Settled
    <3>2. CASE elapsed = OpenSeconds
      <4>1. elapsed' = elapsed
        BY <1>0, <1>6, <3>2 DEF Tick
      <4>2. QED
        BY <3>2, <4>1 DEF TurnedAwaits
    <3>3. CASE elapsed < OpenSeconds /\ stage[c] = "asleep" /\ left[c] >= OpenSeconds - elapsed
      <4>1. elapsed' = elapsed + 1 /\ left'[c] = left[c] - 1 /\ left[c] \in Nat
        BY <1>0, <1>6, <2>2, <3>3 DEF Tick
      <4>2. left'[c] >= OpenSeconds - elapsed'
        BY <1>0, <3>3, <4>1
      <4>3. QED
        BY <2>1, <3>3, <4>2 DEF TurnedAwaits
    <3>4. QED
      BY <1>0, <2>2, <3>1, <3>2, <3>3 DEF TurnedAwaits
  <2>3. QED
    BY <2>1, <2>2 DEF Turned
<1>7. CASE UNCHANGED vars
  BY <1>7 DEF vars, breaker, items, Turned, TurnedAwaits, Settled
<1>8. QED
  BY <1>1, <1>2, <1>3, <1>4, <1>5, <1>6, <1>7 DEF Next, Handle, Quiescent

(* The invariant holds throughout. *)
THEOREM Invariance == Spec => []IInv
<1>1. Init => IInv
  <2> SUFFICES ASSUME Init PROVE IInv
    OBVIOUS
  <2>1. Breaker!TypeOK
    BY BreakerConstants DEF Init, Breaker!Init, Breaker!TypeOK, Breaker!BreakerAssumption
  <2>2. TypeOK
    BY <2>1, PolicyAssumption DEF Init, Breaker!Init, TypeOK
  <2>3. Turned
    BY DEF Init, Turned
  <2>4. QED
    BY <2>2, <2>3 DEF IInv
<1>2. IInv /\ [Next]_vars => IInv'
  BY TypePreserved, TurnedPreserved DEF IInv
<1>3. QED
  BY <1>1, <1>2, PTL DEF Spec

(* The variables keep their types: no item is tried more often than        *)
(* max_retries allows or sleeps longer than max_delay, and an item is in   *)
(* an exchange exactly when the breaker has admitted it.                   *)
THEOREM TypeCorrect == Spec => []TypeOK
<1>1. IInv => TypeOK
  BY DEF IInv
<1>2. QED
  BY <1>1, Invariance, PTL

(* With max_delay >= open_seconds a cool-down turns an item away at most   *)
(* once, for any number of items and any replies.  Rejections of the       *)
(* half-open state, which spend retries too, are not counted.              *)
THEOREM OncePerCoolDownHolds == Spec => []OncePerCoolDown
<1>1. IInv => OncePerCoolDown
  <2> SUFFICES ASSUME Turned, NEW c \in Calls
               PROVE  turned[c] <= 1
    BY DEF IInv, OncePerCoolDown
  <2>1. QED
    BY DEF Turned
<1>2. QED
  BY <1>1, Invariance, PTL

(* In the pipeline too, no half-open period lets more than MaxProbes trial *)
(* exchanges through at a time.                                            *)
THEOREM PipelineTrialsBounded == Spec => []Breaker!TrialsBounded
<1>1. Proved!Spec => []Proved!TrialsBounded
  BY BreakerConstants, Proved!TrialsBoundedHolds
<1>2. Init => Proved!Init
  BY DEF Init, Breaker!Init, Proved!Init
<1>3. [Next]_vars => [Proved!Next]_(Proved!vars)
  BY BreakerSteps, SameBreaker
<1>4. Proved!TrialsBounded => Breaker!TrialsBounded
  BY DEF Proved!TrialsBounded, Breaker!TrialsBounded, Proved!Probing, Breaker!Probing,
         Proved!Cardinality, Breaker!Cardinality
<1>5. QED
  BY <1>1, <1>2, <1>3, <1>4, PTL DEF Spec, Proved!Spec

=============================================================================
