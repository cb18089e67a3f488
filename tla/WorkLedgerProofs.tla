-------------------------- MODULE WorkLedgerProofs --------------------------
(***************************************************************************)
(* HardenedClient implements WorkLedger.  The mapping reads the abstract   *)
(* state off the two tables, so a step of the client that touches neither  *)
(* them nor the history of what is owed is a stuttering step; the steps    *)
(* that do are one abstract action each.  The inductive invariant supplies *)
(* what the abstract actions ask for: an item that ends has a row, and a   *)
(* row is deleted only when its key is not owed.                           *)
(***************************************************************************)
EXTENDS HardenedClientProofs

Open   == {k \in Keys : inflight[k] # NoRow}
Buried == {JobKey[j] : j \in dlq}

(* Steps that leave the tables and the history alone. *)
LEMMA LedgerStutters ==
    ASSUME UNCHANGED <<durable, owed>>
    PROVE  UNCHANGED Ledger!vars
BY DEF durable, Ledger!vars

(* upsert_inflight() accepts the request, also one that raised before its  *)
(* statement was committed.                                                *)
LEMMA UpsertAccepts ==
    ASSUME IInv, NEW c \in Callers, Accept(KeyOf[c])
    PROVE  Ledger!Next
<1>1. KeyOf[c] \in Keys
  BY ConstantsAssumption
<1>2. inflight \in [Keys -> Nat \cup {NoRow}]
  BY DEF IInv, TypeOK
<1>3. Open' = Open \cup {KeyOf[c]}
  BY <1>1, <1>2 DEF Open, Accept, NoRow
<1>4. Ledger!Accept(KeyOf[c])
  BY <1>3 DEF Ledger!Accept, Open, Accept
<1>5. QED
  BY <1>1, <1>4 DEF Ledger!Next

(* An item that a worker executes, retries or gives up has a row. *)
LEMMA HandledIsOpen ==
    ASSUME IInv, NEW j \in Jobs, stage[j] \in {"execute", "retry", "bury"}
    PROVE  JobKey[j] \in Open
<1>1. JobKey[j] \in Keys
  BY JobFacts
<1>2. inflight[JobKey[j]] = attempt[j] /\ attempt[j] \in Nat
  BY DEF IInv, RetryCountPersisted, TypeOK
<1>3. QED
  BY <1>1, <1>2 DEF Open, NoRow

(* A successful exchange finishes the request. *)
LEMMA SucceedFinishes ==
    ASSUME IInv, NEW j \in Jobs, Succeed(j)
    PROVE  Ledger!Next
<1>1. JobKey[j] \in Open
  BY HandledIsOpen DEF Succeed, Handles
<1>2. UNCHANGED durable /\ owed' = owed \ {JobKey[j]}
  BY DEF Succeed
<1>3. Ledger!Finish(JobKey[j])
  BY <1>1, <1>2 DEF Ledger!Finish, Open, durable
<1>4. QED
  BY <1>1, <1>3 DEF Ledger!Next, Open

(* increment_retry() changes a count, not which rows there are. *)
LEMMA IncrementStutters ==
    ASSUME IInv, NEW j \in Jobs,
           inflight' = [inflight EXCEPT ![JobKey[j]] = Incremented(JobKey[j])],
           UNCHANGED <<dlq, owed>>
    PROVE  UNCHANGED Ledger!vars
<1>1. JobKey[j] \in Keys
  BY JobFacts
<1>2. inflight \in [Keys -> Nat \cup {NoRow}]
  BY DEF IInv, TypeOK
<1>3. Incremented(JobKey[j]) # NoRow <=> inflight[JobKey[j]] # NoRow
  BY <1>1, <1>2 DEF Incremented, NoRow
<1>4. Open' = Open
  BY <1>1, <1>2, <1>3 DEF Open
<1>5. QED
  BY <1>4 DEF Ledger!vars, Open

(* push_dead_letter() buries the request. *)
LEMMA PushBuries ==
    ASSUME IInv, NEW j \in Jobs, stage[j] = "bury",
           dlq' = dlq \cup {j}, owed' = owed \ {JobKey[j]}, UNCHANGED inflight
    PROVE  Ledger!Next
<1>1. JobKey[j] \in Open
  BY HandledIsOpen
<1>2. JobKey' = JobKey
  OBVIOUS
<1>3. Buried' = Buried \cup {JobKey[j]}
  BY <1>2 DEF Buried
<1>4. Ledger!Bury(JobKey[j])
  BY <1>1, <1>3 DEF Ledger!Bury, Open, Buried
<1>5. QED
  BY <1>1, <1>4 DEF Ledger!Next, Open

(* delete_inflight() closes what is not owed. *)
LEMMA DeleteCloses ==
    ASSUME IInv, NEW j \in Jobs, stage[j] \in {"clear", "success"},
           inflight' = [inflight EXCEPT ![JobKey[j]] = NoRow],
           UNCHANGED <<dlq, owed>>
    PROVE  Ledger!Next
<1>1. JobKey[j] \in Keys
  BY JobFacts
<1>2. inflight \in [Keys -> Nat \cup {NoRow}]
  BY DEF IInv, TypeOK
<1>3. JobKey[j] \notin owed
  BY DEF IInv, SettlingIsNotOwed
<1>4. Open' = Open \ {JobKey[j]}
  BY <1>1, <1>2 DEF Open
<1>5. Ledger!Close(JobKey[j])
  BY <1>3, <1>4 DEF Ledger!Close, Open
<1>6. QED
  BY <1>1, <1>5 DEF Ledger!Next

(* Every step of the client is a step of the ledger, or none. *)
LEMMA StepImplementsLedger ==
    ASSUME "cancel" \notin Events, IInv, [Next]_vars
    PROVE  [Ledger!Next]_(Ledger!vars)
<1>1. CASE UNCHANGED vars
  BY <1>1, LedgerStutters DEF vars, durable, history
<1>2. CASE Recovery
  BY <1>2, LedgerStutters
    DEF Recovery, Start, ListInflight, SpawnWorkers, RecoverRow, SkipRow, history
<1>3. ASSUME NEW c \in Callers, Upsert(c) \/ UpsertFails(c)
      PROVE  [Ledger!Next]_(Ledger!vars)
  BY <1>3, UpsertAccepts, LedgerStutters DEF Upsert, UpsertFails, history
<1>4. ASSUME NEW j \in Jobs, Enqueue(j) \/ Wake(j)
      PROVE  [Ledger!Next]_(Ledger!vars)
  BY <1>4, LedgerStutters DEF Enqueue, Wake, history
<1>5. CASE Handling
  <2>1. PICK j \in Jobs :
           \/ Take(j) \/ ShortCircuit(j)
           \/ Succeed(j) \/ Falter(j, TRUE) \/ Falter(j, FALSE)
           \/ IncrementRetry(j) \/ Schedule(j)
           \/ PushDeadLetter(j) \/ DeleteInflight(j) \/ Settle(j)
    BY <1>5 DEF Handling
  <2>2. CASE Take(j) \/ ShortCircuit(j) \/ Schedule(j) \/ Settle(j)
    BY <2>2, LedgerStutters DEF Take, ShortCircuit, Schedule, Settle, history
  <2>3. CASE Falter(j, TRUE) \/ Falter(j, FALSE)
    BY <2>3, LedgerStutters DEF Falter
  <2>4. CASE Succeed(j)
    BY <2>4, SucceedFinishes
  <2>5. CASE IncrementRetry(j)
    BY <2>5, IncrementStutters DEF IncrementRetry, history
  <2>6. CASE PushDeadLetter(j)
    BY <2>6, PushBuries DEF PushDeadLetter, Handles
  <2>7. CASE DeleteInflight(j)
    BY <2>7, DeleteCloses DEF DeleteInflight, Handles, history
  <2>8. QED
    BY <2>1, <2>2, <2>3, <2>4, <2>5, <2>6, <2>7
<1>6. CASE Close \/ \E d \in Drains : DrainChecks(d) \/ GatherReturns(d)
  BY <1>6, LedgerStutters DEF DrainChecks, GatherReturns, Close, history
<1>7. ASSUME NEW j \in Jobs, CancelHandler(j) \/ WorkerDies(j)
      PROVE  [Ledger!Next]_(Ledger!vars)
  <2>1. CASE UNCHANGED <<durable, owed>>
    BY <2>1, LedgerStutters
  <2>2. CASE /\ inflight' = [inflight EXCEPT ![JobKey[j]] = Incremented(JobKey[j])]
             /\ UNCHANGED <<dlq, owed>>
    BY <2>2, IncrementStutters
  <2>3. CASE /\ stage[j] = "bury"
             /\ dlq' = dlq \cup {j}
             /\ owed' = owed \ {JobKey[j]}
             /\ UNCHANGED inflight
    BY <2>3, PushBuries
  <2>4. CASE /\ stage[j] \in {"clear", "success"}
             /\ inflight' = [inflight EXCEPT ![JobKey[j]] = NoRow]
             /\ UNCHANGED <<dlq, owed>>
    BY <2>4, DeleteCloses
  <2>5. QED
    BY <1>7, <2>1, <2>2, <2>3, <2>4 DEF CancelHandler, WorkerDies, Interrupted
<1>8. CASE Submission
  BY <1>8, LedgerStutters DEF Submission, Refuse, Attach, Own, history
<1>9. CASE Stop \/ BeginDrain \/ Crash
  BY <1>9, LedgerStutters DEF Stop, BeginDrain, Crash, history
<1>10. ASSUME NEW c \in Callers, CancelCaller(c)
       PROVE  FALSE
  BY <1>10 DEF CancelCaller
<1>11. CASE Quiescent
  BY <1>1, <1>11 DEF Quiescent
<1>12. QED
  BY <1>1, <1>2, <1>3, <1>4, <1>5, <1>6, <1>7, <1>8, <1>9, <1>10, <1>11
    DEF Next, Progress, Shutdown, Environment

(* The client keeps the promise of WorkLedger for every number of callers, *)
(* keys, workers, queue slots, retries and restarts: no row of an accepted *)
(* request goes before its success or its dead letter.                     *)
THEOREM ClientImplementsLedger ==
    ASSUME "cancel" \notin Events
    PROVE  Spec => ImplementsLedger
<1>1. Init => Ledger!Init
  BY DEF Init, Ledger!Init
<1>2. IInv /\ [Next]_vars => [Ledger!Next]_(Ledger!vars)
  BY StepImplementsLedger
<1>3. QED
  BY <1>1, <1>2, InductiveInvariant, PTL DEF Spec, ImplementsLedger, Ledger!Spec

=============================================================================
