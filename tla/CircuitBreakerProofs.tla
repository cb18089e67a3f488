------------------------ MODULE CircuitBreakerProofs ------------------------
(***************************************************************************)
(* Proofs about CircuitBreaker, for any number of calls in flight and any  *)
(* thresholds: the accounting of probe slots with the probe bound, the     *)
(* closed state's health and the cool-down.                                *)
(***************************************************************************)
EXTENDS CircuitBreaker, FiniteSetTheorems, TLAPS

(* Calls that are probes are finitely many. *)
LEMMA ProbingFinite == IsFiniteSet(Probing) /\ Cardinality(Probing) \in Nat
  BY BreakerAssumption, FS_Subset, FS_CardinalityType DEF Probing

(* The deque after an append: its type, its length, its last element. *)
LEMMA WindowFacts ==
    ASSUME TypeOK, NEW o \in {"ok", "failed"}
    PROVE  /\ Window(o) \in Seq({"ok", "failed"})
           /\ Len(Window(o)) \in 1..RollingWindow
           /\ Window(o)[Len(Window(o))] = o
<1>1. outcomes \in Seq({"ok", "failed"}) /\ Len(outcomes) \in Nat /\ Len(outcomes) <= RollingWindow
  BY DEF TypeOK
<1>2. CASE Len(outcomes) < RollingWindow
  BY <1>1, <1>2, BreakerAssumption DEF Window
<1>3. CASE ~(Len(outcomes) < RollingWindow)
  <2>1. Len(outcomes) = RollingWindow /\ outcomes # <<>>
    BY <1>1, <1>3, BreakerAssumption
  <2>2. Tail(outcomes) \in Seq({"ok", "failed"}) /\ Len(Tail(outcomes)) = RollingWindow - 1
    BY <1>1, <2>1
  <2>3. Window(o) = Append(Tail(outcomes), o)
    BY <1>3 DEF Window
  <2>4. QED
    BY <2>2, <2>3, BreakerAssumption
<1>4. QED
  BY <1>2, <1>3

(* The types are kept by every step. *)
LEMMA TypePreserved ==
    ASSUME TypeOK, [Next]_vars
    PROVE  TypeOK'
<1>1. ASSUME NEW c \in Calls, AdmitClosed(c)
      PROVE  TypeOK'
  BY <1>1 DEF TypeOK, AdmitClosed
<1>2. ASSUME NEW c \in Calls, AdmitProbe(c)
      PROVE  TypeOK'
  <2>1. probes' \in 0..MaxProbes
    BY <1>2, BreakerAssumption DEF TypeOK, AdmitProbe, SlotFree
  <2>2. call' \in [Calls -> {"idle", "regular", "probe"}]
    BY <1>2 DEF TypeOK, AdmitProbe
  <2>3. QED
    BY <1>2, <2>1, <2>2 DEF TypeOK, AdmitProbe
<1>3. ASSUME NEW c \in Calls, OnSuccess(c)
      PROVE  TypeOK'
  <2>1. outcomes' \in Seq({"ok", "failed"}) /\ Len(outcomes') <= RollingWindow
    <3>1. CASE state = "half_open"
      BY <1>3, <3>1, BreakerAssumption DEF OnSuccess
    <3>2. CASE state # "half_open"
      BY <1>3, <3>2, WindowFacts, BreakerAssumption DEF OnSuccess
    <3>3. QED
      BY <3>1, <3>2
  <2>2. call' \in [Calls -> {"idle", "regular", "probe"}]
    BY <1>3 DEF OnSuccess, Ended, EndedWithPeriod, TypeOK
  <2>3. state' \in {"closed", "open", "half_open"} /\ probes' \in 0..MaxProbes /\ lost' \in Nat
    BY <1>3, BreakerAssumption DEF OnSuccess, TypeOK
  <2>4. failures' \in 0..FailureThreshold /\ elapsed' \in 0..OpenSeconds
    BY <1>3, BreakerAssumption DEF OnSuccess, TypeOK
  <2>5. QED
    BY <2>1, <2>2, <2>3, <2>4 DEF TypeOK
<1>4. ASSUME NEW c \in Calls, OnFailure(c)
      PROVE  TypeOK'
  <2>1. outcomes' \in Seq({"ok", "failed"}) /\ Len(outcomes') <= RollingWindow
    <3>1. outcomes' = Window("failed")
      BY <1>4 DEF OnFailure
    <3>2. QED
      BY <3>1, WindowFacts, BreakerAssumption
  <2>2. call' \in [Calls -> {"idle", "regular", "probe"}]
    BY <1>4 DEF OnFailure, Ended, EndedWithPeriod, TypeOK
  <2>3. failures' \in 0..FailureThreshold
    BY <1>4, BreakerAssumption DEF OnFailure, MoreFailures, TypeOK
  <2>4. state' \in {"closed", "open", "half_open"} /\ probes' \in 0..MaxProbes /\ lost' \in Nat
    BY <1>4, BreakerAssumption DEF OnFailure, TypeOK
  <2>5. elapsed' \in 0..OpenSeconds
    BY <1>4, BreakerAssumption DEF OnFailure, TypeOK
  <2>6. QED
    BY <2>1, <2>2, <2>3, <2>4, <2>5 DEF TypeOK
<1>5. ASSUME NEW c \in Calls, NotReported(c)
      PROVE  TypeOK'
  BY <1>5 DEF NotReported, Ended, TypeOK
<1>6. CASE Tick
  BY <1>6, BreakerAssumption DEF Tick, TypeOK
<1>7. CASE UNCHANGED vars
  BY <1>7 DEF vars, TypeOK
<1>8. QED
  BY <1>1, <1>2, <1>3, <1>4, <1>5, <1>6, <1>7 DEF Next, Return, Reject

(* How a step changes the set of probes. *)
LEMMA ProbingMoves ==
    ASSUME TypeOK, NEW c \in Calls
    PROVE  /\ AdmitClosed(c) => Probing' = Probing
           /\ AdmitProbe(c) => Probing' = Probing \cup {c}
           /\ call' = EndedWithPeriod(c) => Probing' = {}
           /\ call' = Ended(c) => Probing' = Probing \ {c}
<1>1. AdmitClosed(c) => Probing' = Probing
  BY DEF AdmitClosed, Probing, TypeOK
<1>2. AdmitProbe(c) => Probing' = Probing \cup {c}
  BY DEF AdmitProbe, Probing, TypeOK
<1>3. call' = EndedWithPeriod(c) => Probing' = {}
  BY DEF EndedWithPeriod, Probing, TypeOK
<1>4. call' = Ended(c) => Probing' = Probing \ {c}
  BY DEF Ended, Probing, TypeOK
<1>5. QED
  BY <1>1, <1>2, <1>3, <1>4

(* Probes take slots, lost probes keep them, and the end of the period     *)
(* frees them all.                                                         *)
LEMMA SlotsPreserved ==
    ASSUME TypeOK, SlotsAccounted, [Next]_vars
    PROVE  SlotsAccounted'
<1>0. probes \in Nat /\ lost \in Nat
  BY DEF TypeOK
<1>1. ASSUME NEW c \in Calls, AdmitClosed(c)
      PROVE  SlotsAccounted'
  BY <1>1, ProbingMoves DEF AdmitClosed, SlotsAccounted
<1>2. ASSUME NEW c \in Calls, AdmitProbe(c)
      PROVE  SlotsAccounted'
  <2>1. Probing' = Probing \cup {c} /\ c \notin Probing
    BY <1>2, ProbingMoves DEF AdmitProbe, Probing
  <2>2. Cardinality(Probing') = Cardinality(Probing) + 1
    BY <2>1, ProbingFinite, FS_AddElement
  <2>3. \/ Cardinality(Probing) = 0 /\ lost = 0 /\ probes' = 1
        \/ probes = Cardinality(Probing) + lost /\ probes' = probes + 1
    BY <1>2, FS_EmptySet DEF AdmitProbe, CoolDownOver, SlotsAccounted
  <2>4. lost' = lost /\ state' = "half_open"
    BY <1>2 DEF AdmitProbe
  <2>5. QED
    BY <1>0, <2>2, <2>3, <2>4, ProbingFinite DEF SlotsAccounted
<1>3. ASSUME NEW c \in Calls, OnSuccess(c) \/ OnFailure(c)
      PROVE  SlotsAccounted'
  <2>1. state' # "half_open"
    BY <1>3 DEF OnSuccess, OnFailure, Trips
  <2>2. CASE state = "half_open"
    BY <1>3, <2>1, <2>2, ProbingMoves DEF OnSuccess, OnFailure, SlotsAccounted
  <2>3. CASE state # "half_open"
    <3>1. call' = Ended(c) /\ lost' = 0 /\ Probing = {}
      BY <1>3, <2>3 DEF OnSuccess, OnFailure, SlotsAccounted
    <3>2. QED
      BY <2>1, <3>1, ProbingMoves DEF SlotsAccounted
  <2>4. QED
    BY <2>2, <2>3
<1>4. ASSUME NEW c \in Calls, NotReported(c)
      PROVE  SlotsAccounted'
  <2>1. Probing' = Probing \ {c} /\ UNCHANGED <<state, probes>>
    BY <1>4, ProbingMoves DEF NotReported
  <2>2. CASE c \in Probing
    <3>1. Cardinality(Probing') = Cardinality(Probing) - 1
      BY <2>1, <2>2, ProbingFinite, FS_RemoveElement
    <3>2. lost' = lost + 1
      BY <1>4, <2>2 DEF NotReported, Probing
    <3>3. QED
      BY <1>0, <2>1, <2>2, <3>1, <3>2, ProbingFinite DEF SlotsAccounted
  <2>3. CASE c \notin Probing
    <3>1. lost' = lost
      BY <1>4, <2>3 DEF NotReported, Probing
    <3>2. QED
      BY <2>1, <2>3, <3>1 DEF SlotsAccounted
  <2>4. QED
    BY <2>2, <2>3
<1>5. CASE Tick
  BY <1>5 DEF Tick, SlotsAccounted, Probing
<1>6. CASE UNCHANGED vars
  BY <1>6 DEF vars, SlotsAccounted, Probing
<1>7. QED
  BY <1>1, <1>2, <1>3, <1>4, <1>5, <1>6 DEF Next, Return, Reject

(* The variables keep their types; in particular no more than MaxProbes    *)
(* slots are taken and the window never exceeds RollingWindow.             *)
THEOREM TypeCorrect == Spec => []TypeOK
<1>1. Init => TypeOK
  BY BreakerAssumption DEF Init, TypeOK
<1>2. TypeOK /\ [Next]_vars => TypeOK'
  BY TypePreserved
<1>3. QED
  BY <1>1, <1>2, PTL DEF Spec

(* Every slot is taken by a probe under way or by one that was lost. *)
THEOREM SlotsAccountedHolds == Spec => []SlotsAccounted
<1>1. Init => SlotsAccounted
  BY DEF Init, SlotsAccounted, Probing
<1>2. TypeOK /\ SlotsAccounted /\ [Next]_vars => SlotsAccounted'
  BY SlotsPreserved
<1>3. QED
  BY <1>1, <1>2, TypeCorrect, PTL DEF Spec

(* No half-open period admits more than MaxProbes calls at a time, and no  *)
(* probe outlives its period as one.                                       *)
THEOREM TrialsBoundedHolds == Spec => []TrialsBounded
<1>1. TypeOK /\ SlotsAccounted => TrialsBounded
  BY ProbingFinite, FS_EmptySet, BreakerAssumption DEF TypeOK, SlotsAccounted, TrialsBounded
<1>2. QED
  BY <1>1, TypeCorrect, SlotsAccountedHolds, PTL

(* A half-open breaker waits for a probe that is under way, unless one was *)
(* lost to a 429 or to a cancellation.                                     *)
THEOREM HalfOpenHasProbeHolds == Spec => []HalfOpenHasProbe
<1>1. SlotsAccounted => HalfOpenHasProbe
  BY FS_EmptySet DEF SlotsAccounted, HalfOpenHasProbe
<1>2. QED
  BY <1>1, SlotsAccountedHolds, PTL

(* A closed breaker never sits on a trigger that a failure reached.        *)
THEOREM ClosedIsHealthyHolds == Spec => []ClosedIsHealthy
<1>1. Init => ClosedIsHealthy
  BY BreakerAssumption DEF Init, ClosedIsHealthy
<1>2. ASSUME TypeOK, ClosedIsHealthy, [Next]_vars
      PROVE  ClosedIsHealthy'
  <2>1. ASSUME NEW c \in Calls, AdmitClosed(c) \/ AdmitProbe(c) \/ NotReported(c)
        PROVE  ClosedIsHealthy'
    BY <1>2, <2>1
      DEF AdmitClosed, AdmitProbe, NotReported, ClosedIsHealthy, RateReached, NumFailures
  <2>2. ASSUME NEW c \in Calls, OnSuccess(c)
        PROVE  ClosedIsHealthy'
    BY <1>2, <2>2, WindowFacts, BreakerAssumption DEF OnSuccess, ClosedIsHealthy
  <2>3. ASSUME NEW c \in Calls, OnFailure(c)
        PROVE  ClosedIsHealthy'
    <3>1. failures' \in Nat
      BY <1>2, <2>3 DEF OnFailure, MoreFailures, TypeOK
    <3>2. CASE Trips(failures', outcomes')
      BY <2>3, <3>2 DEF OnFailure, ClosedIsHealthy
    <3>3. CASE ~Trips(failures', outcomes')
      <4>1. state' = state
        BY <2>3, <3>3 DEF OnFailure
      <4>2. state = "closed" => failures' < FailureThreshold
        BY <3>1, <3>3, BreakerAssumption DEF Trips
      <4>3. state = "closed" /\ Len(outcomes') = RollingWindow => ~RateReached(outcomes')
        BY <3>3 DEF Trips
      <4>4. QED
        BY <4>1, <4>2, <4>3 DEF ClosedIsHealthy, RateReached, NumFailures
    <3>4. QED
      BY <3>2, <3>3
  <2>4. CASE Tick \/ UNCHANGED vars
    BY <1>2, <2>4 DEF Tick, vars, ClosedIsHealthy, RateReached, NumFailures
  <2>5. QED
    BY <1>2, <2>1, <2>2, <2>3, <2>4 DEF Next, Return, Reject
<1>3. QED
  BY <1>1, <1>2, TypeCorrect, PTL DEF Spec

(* During the cool-down nothing is admitted and no late outcome ends it.   *)
THEOREM CoolDownRespectedHolds == Spec => CoolDownRespected
<1>1. ASSUME TypeOK, [Next]_vars
      PROVE  [state = "open" /\ elapsed < OpenSeconds => NoneAdmitted]_vars
  <2> SUFFICES ASSUME Next, state = "open", elapsed < OpenSeconds
               PROVE  NoneAdmitted
    BY <1>1
  <2>1. ~ \E c \in Calls : AdmitClosed(c) \/ AdmitProbe(c)
    BY <1>1, BreakerAssumption DEF AdmitClosed, AdmitProbe, CoolDownOver, TypeOK
  <2>2. ASSUME NEW c \in Calls, Return(c)
        PROVE  NoneAdmitted
    <3>1. state' = "open"
      BY <2>2 DEF Return, OnSuccess, OnFailure, NotReported, Trips
    <3>2. call' = Ended(c) \/ call' = EndedWithPeriod(c)
      BY <2>2 DEF Return, OnSuccess, OnFailure, NotReported
    <3>3. InFlight' \subseteq InFlight
      BY <1>1, <3>2 DEF InFlight, Ended, EndedWithPeriod, TypeOK
    <3>4. QED
      BY <3>1, <3>3 DEF NoneAdmitted
  <2>3. CASE Tick \/ UNCHANGED vars
    BY <2>3 DEF Tick, vars, NoneAdmitted, InFlight
  <2>4. QED
    BY <2>1, <2>2, <2>3 DEF Next, Reject
<1>2. QED
  BY <1>1, TypeCorrect, PTL DEF Spec, CoolDownRespected

=============================================================================
