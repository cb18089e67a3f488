--------------------------- MODULE CircuitBreaker ---------------------------
(***************************************************************************)
(* The circuit breaker of one host                                         *)
(* (src/async_hardened_client/circuit_breaker.py) together with the way    *)
(* _handle() in client.py uses it: before_call(), the HTTP exchange, then  *)
(* on_success(), on_failure(), or neither of them after a 429 and when the *)
(* worker is cancelled.                                                    *)
(*                                                                         *)
(* A call is a worker's pass through _handle().  Several are in flight, so *)
(* an outcome can be reported in another state of the breaker, or in       *)
(* another half-open period, than the one its call was admitted in.  The   *)
(* breaker's lock is never held across an await: each method is one step.  *)
(***************************************************************************)
EXTENDS Integers, Sequences, FiniteSets

CONSTANTS
    Calls,              \* workers' passes through _handle() for this host
    FailureThreshold,   \* failure_threshold
    RollingWindow,      \* rolling_window
    RateNum, RateDen,   \* failure_rate = RateNum / RateDen
    OpenSeconds,        \* open_seconds, in ticks of the clock
    MaxProbes,          \* half_open_max_probes
    Outcomes            \* how an exchange may end, a subset of AllOutcomes

AllOutcomes == {"success", "failure", "throttled", "cancelled"}

ASSUME BreakerAssumption ==
    /\ IsFiniteSet(Calls)
    /\ FailureThreshold \in Nat \ {0}
    /\ RollingWindow \in Nat \ {0}
    /\ RateNum \in Nat /\ RateDen \in Nat \ {0}
    /\ OpenSeconds \in Nat
    /\ MaxProbes \in Nat \ {0}
    /\ Outcomes \subseteq AllOutcomes

VARIABLES
    state,      \* self._state
    failures,   \* self._consecutive_failures, which saturates at FailureThreshold
    elapsed,    \* time since self._opened_at, up to OpenSeconds
    probes,     \* self._inflight_probes
    outcomes,   \* self._outcomes, True and False as "ok" and "failed"
    call,       \* each call: "idle", "regular", or "probe" of the current half-open period
    lost        \* history: probes of this half-open period that ended without a report

vars == <<state, failures, elapsed, probes, outcomes, call, lost>>

TypeOK ==
    /\ state \in {"closed", "open", "half_open"}
    /\ failures \in 0..FailureThreshold
    /\ elapsed \in 0..OpenSeconds
    /\ probes \in 0..MaxProbes
    /\ outcomes \in Seq({"ok", "failed"})
    /\ Len(outcomes) <= RollingWindow
    /\ call \in [Calls -> {"idle", "regular", "probe"}]
    /\ lost \in Nat

Init ==
    /\ state = "closed"
    /\ failures = 0
    /\ elapsed = 0
    /\ probes = 0
    /\ outcomes = <<>>
    /\ call = [c \in Calls |-> "idle"]
    /\ lost = 0

-----------------------------------------------------------------------------
(* Helpers *)

InFlight == {c \in Calls : call[c] # "idle"}
Probing  == {c \in Calls : call[c] = "probe"}

(* deque(maxlen=rolling_window).append() *)
Window(o) ==
    IF Len(outcomes) < RollingWindow THEN Append(outcomes, o) ELSE Append(Tail(outcomes), o)

(* _failure_rate() >= failure_rate; an empty deque has rate 0. *)
NumFailures(w) == Cardinality({i \in DOMAIN w : w[i] = "failed"})
RateReached(w) == NumFailures(w) * RateDen >= RateNum * Len(w)

MoreFailures == IF failures < FailureThreshold THEN failures + 1 ELSE failures

(* A call ends; when it ends the half-open period, the probes that are     *)
(* left become regular calls.                                              *)
Ended(c) == [call EXCEPT ![c] = "idle"]
EndedWithPeriod(c) ==
    [d \in Calls |-> IF d # c /\ call[d] # "idle" THEN "regular" ELSE "idle"]

-----------------------------------------------------------------------------
(* before_call() *)

(* Mutant: open_seconds is not waited for. *)
CoolDownOverEarly == state = "open"

(* Whether OPEN turns to HALF_OPEN. *)
CoolDownOver == state = "open" /\ elapsed >= OpenSeconds

(* Mutant: one probe too many. *)
SlotFreeOffByOne(n) == n <= MaxProbes

SlotFree(n) == n < MaxProbes

AdmitClosed(c) ==
    /\ call[c] = "idle"
    /\ state = "closed"
    /\ call' = [call EXCEPT ![c] = "regular"]
    /\ UNCHANGED <<state, failures, elapsed, probes, outcomes, lost>>

(* The call takes a probe slot, in a new half-open period or in this one. *)
AdmitProbe(c) ==
    /\ call[c] = "idle"
    /\ \/ CoolDownOver /\ probes' = 1
       \/ state = "half_open" /\ SlotFree(probes) /\ probes' = probes + 1
    /\ state' = "half_open"
    /\ call' = [call EXCEPT ![c] = "probe"]
    /\ UNCHANGED <<failures, elapsed, outcomes, lost>>

(* CircuitOpenError *)
Reject(c) ==
    /\ call[c] = "idle"
    /\ \/ state = "open" /\ ~CoolDownOver
       \/ state = "half_open" /\ ~SlotFree(probes)
    /\ UNCHANGED vars

-----------------------------------------------------------------------------
(* The outcome of the exchange *)

(* on_success(); a late success leaves OPEN as it is. *)
OnSuccess(c) ==
    /\ "success" \in Outcomes
    /\ call[c] # "idle"
    /\ failures' = 0
    /\ IF state = "half_open"
       THEN /\ state' = "closed" /\ probes' = 0 /\ outcomes' = <<>>
            /\ call' = EndedWithPeriod(c) /\ lost' = 0
       ELSE /\ outcomes' = Window("ok")
            /\ call' = Ended(c)
            /\ UNCHANGED <<state, probes, lost>>
    /\ UNCHANGED elapsed

(* Mutants: a failed probe does not re-open; only the rate trigger counts. *)
TripsNeverFromHalfOpen(n, w) ==
    state = "closed" /\ (n >= FailureThreshold \/ (Len(w) = RollingWindow /\ RateReached(w)))
TripsByRate(n, w) ==
    state = "half_open" \/ (state = "closed" /\ Len(w) = RollingWindow /\ RateReached(w))

(* Whether on_failure() calls _open_now(). *)
Trips(n, w) ==
    \/ state = "half_open"
    \/ state = "closed" /\ n >= FailureThreshold
    \/ state = "closed" /\ Len(w) = RollingWindow /\ RateReached(w)

OnFailure(c) ==
    /\ "failure" \in Outcomes
    /\ call[c] # "idle"
    /\ failures' = MoreFailures
    /\ outcomes' = Window("failed")
    /\ IF Trips(failures', outcomes')
       THEN state' = "open" /\ elapsed' = 0 /\ probes' = 0
       ELSE UNCHANGED <<state, elapsed, probes>>
    /\ call' = IF state = "half_open" THEN EndedWithPeriod(c) ELSE Ended(c)
    /\ lost' = 0

(* A 429, or the cancellation of the worker: the breaker is not told. *)
NotReported(c) ==
    /\ Outcomes \cap {"throttled", "cancelled"} # {}
    /\ call[c] # "idle"
    /\ call' = Ended(c)
    /\ lost' = IF call[c] = "probe" THEN lost + 1 ELSE lost
    /\ UNCHANGED <<state, failures, elapsed, probes, outcomes>>

(* The clock; what has passed beyond OpenSeconds makes no difference. *)
Tick ==
    /\ state = "open" /\ elapsed < OpenSeconds
    /\ elapsed' = elapsed + 1
    /\ UNCHANGED <<state, failures, probes, outcomes, call, lost>>

Return(c) == OnSuccess(c) \/ OnFailure(c) \/ NotReported(c)

Next == Tick \/ \E c \in Calls : AdmitClosed(c) \/ AdmitProbe(c) \/ Reject(c) \/ Return(c)

Spec == Init /\ [][Next]_vars

(* ClientTimeout(total) ends every exchange. *)
FairSpec == Spec /\ \A c \in Calls : WF_vars(Return(c))

-----------------------------------------------------------------------------
(* Safety *)

(* The half-open state is never without a probe under way, unless one of   *)
(* its probes ended without a report: somebody will bring the outcome that *)
(* ends it, although outcomes of older calls and of probes of earlier      *)
(* periods arrive in between.                                              *)
HalfOpenHasProbe == state = "half_open" /\ lost = 0 => Probing # {}

(* A half-open period lets at most MaxProbes trial requests through, and   *)
(* none of its probes is still counted as one in any other state.          *)
TrialsBounded ==
    /\ Cardinality(Probing) <= MaxProbes
    /\ Probing # {} => state = "half_open"

(* A closed breaker is strictly below the consecutive-failure trigger, and  *)
(* strictly below the failure-rate trigger right after a failure that the   *)
(* full window holds: on_failure() opens it when a limit is reached (>=).   *)
ClosedIsHealthy ==
    state = "closed" =>
        /\ failures < FailureThreshold
        /\ Len(outcomes) = RollingWindow /\ outcomes[Len(outcomes)] = "failed" => ~RateReached(outcomes)

(* The slots taken in a half-open period are those of the probes under way *)
(* and of the probes that were lost; at least one is taken.                *)
SlotsAccounted ==
    /\ state = "half_open" => probes = Cardinality(Probing) + lost /\ probes > 0
    /\ state # "half_open" => Probing = {} /\ lost = 0

(* After the breaker has opened no exchange starts for OpenSeconds, not    *)
(* even when older calls report successes in the meantime: only a step     *)
(* that finds the cool-down over adds a call in flight.                    *)
NoneAdmitted == InFlight' \subseteq InFlight /\ state' = "open"
CoolDownRespected == [][state = "open" /\ elapsed < OpenSeconds => NoneAdmitted]_vars

-----------------------------------------------------------------------------
(* Liveness, under FairSpec *)

(* Every half-open period in which no probe is lost ends: an outcome       *)
(* closes or re-opens the breaker.                                         *)
ProbingEnds == state = "half_open" /\ lost = 0 ~> state # "half_open" \/ lost > 0

=============================================================================
