------------------------ MODULE HardenedClientProofs ------------------------
(***************************************************************************)
(* Proofs about HardenedClient: its inductive invariant, one lemma per     *)
(* action, and the safety properties that follow from it for any set of    *)
(* callers and keys, any number of workers, retries and starts and any     *)
(* size of the queue, as long as no caller is cancelled; then what holds   *)
(* of stop() for any events, and of waiters and rows when nothing but      *)
(* crashes and drains happens.                                             *)
(***************************************************************************)
EXTENDS HardenedClient, FiniteSetTheorems, TLAPS

USE DEF HandlerStages, RescheduleStages, Stages, NoRow

(* Jobs and their keys; there are finitely many jobs. *)
LEMMA JobFacts ==
    /\ \A j \in Jobs : JobKey[j] \in Keys
    /\ \A c \in Callers : c \in Jobs /\ JobKey[c] = KeyOf[c] /\ KeyOf[c] \in Keys
    /\ \A k \in Keys, b \in 1..MaxBoots :
          <<k, b>> \in Jobs /\ <<k, b>> \notin Callers /\ JobKey[<<k, b>>] = k
    /\ IsFiniteSet(Jobs)
<1>1. IsFiniteSet(1..MaxBoots)
  BY FS_Interval, ConstantsAssumption
<1>2. IsFiniteSet(Recovered)
  BY <1>1, FS_Product, ConstantsAssumption DEF Recovered
<1>3. IsFiniteSet(Jobs)
  BY <1>2, FS_Union, ConstantsAssumption DEF Jobs
<1>4. QED
  BY <1>3, ConstantsAssumption DEF Jobs, JobKey, Recovered

(* A put of an item that is not queued keeps the queue free of repetitions. *)
LEMMA QueueAppend ==
    ASSUME NEW j \in Jobs, TypeOK, QueueOnce, stage[j] # "queued",
           queue' = Append(queue, j), stage' = [stage EXCEPT ![j] = "queued"]
    PROVE  queue' \in Seq(Jobs) /\ QueueOnce'
<1>0. queue \in Seq(Jobs) /\ stage \in [Jobs -> Stages]
  BY DEF TypeOK
<1>1. queue' \in Seq(Jobs) /\ Len(queue') = Len(queue) + 1
  BY <1>0
<1>2. \A m \in 1..Len(queue) : queue'[m] = queue[m] /\ queue[m] \in Jobs
  BY <1>0
<1>3. queue'[Len(queue) + 1] = j
  OBVIOUS
<1>4. \A m \in 1..Len(queue) : queue[m] # j
  BY DEF QueueOnce
<1>5. DOMAIN queue' = 1..(Len(queue) + 1) /\ DOMAIN queue = 1..Len(queue) /\ Len(queue) \in Nat
  OBVIOUS
<1>6. QED
  BY <1>0, <1>1, <1>2, <1>3 DEF QueueOnce

(* So does a get, which takes a queued item out. *)
LEMMA QueueTail ==
    ASSUME NEW j, NEW s, s # "queued", TypeOK, QueueOnce, queue # <<>>, j = Head(queue),
           queue' = Tail(queue), stage' = [stage EXCEPT ![j] = s]
    PROVE  j \in Jobs /\ stage[j] = "queued" /\ queue' \in Seq(Jobs) /\ QueueOnce'
<1>0. queue \in Seq(Jobs) /\ stage \in [Jobs -> Stages]
  BY DEF TypeOK
<1>1. Len(queue) \in Nat \ {0} /\ j = queue[1] /\ DOMAIN queue = 1..Len(queue)
  OBVIOUS
<1>2. j \in Jobs /\ stage[j] = "queued"
  BY <1>0 DEF QueueOnce
<1>3. queue' \in Seq(Jobs) /\ DOMAIN queue' = 1..(Len(queue) - 1)
  BY <1>0
<1>4. \A m \in 1..(Len(queue) - 1) : queue'[m] = queue[m + 1] /\ m + 1 \in DOMAIN queue
  OBVIOUS
<1>5. \A m \in 1..(Len(queue) - 1) : queue[m + 1] # j /\ queue[m + 1] \in Jobs
  BY <1>0 DEF QueueOnce
<1>6. \A m \in DOMAIN queue' : stage'[queue'[m]] = "queued"
  BY <1>0, <1>3 DEF QueueOnce
<1>7. \A m, n \in DOMAIN queue' : queue'[m] = queue'[n] => m = n
  BY <1>1 DEF QueueOnce
<1>8. QED
  BY <1>2, <1>3 DEF QueueOnce

(* So does every step that moves an item which is not queued. *)
LEMMA QueueKept ==
    ASSUME NEW j \in Jobs, NEW s, TypeOK, QueueOnce, stage[j] # "queued",
           queue' = queue, stage' = [stage EXCEPT ![j] = s]
    PROVE  QueueOnce'
<1>1. \A m \in DOMAIN queue : queue[m] \in Jobs
  BY DEF TypeOK
<1>2. QED
  BY DEF QueueOnce

(* A step that moves one item adds it to the items in a handler or removes it. *)
LEMMA BusyMoves ==
    ASSUME NEW j \in Jobs, NEW s, TypeOK, stage' = [stage EXCEPT ![j] = s]
    PROVE  /\ IsFiniteSet(Busy) /\ Cardinality(Busy) \in Nat
           /\ s \in HandlerStages => Busy' = Busy \cup {j}
           /\ s \notin HandlerStages => Busy' = Busy \ {j}
<1>1. IsFiniteSet(Busy) /\ Cardinality(Busy) \in Nat
  BY JobFacts, FS_Subset, FS_CardinalityType DEF Busy
<1>2. s \in HandlerStages => Busy' = Busy \cup {j}
  BY DEF Busy, TypeOK
<1>3. s \notin HandlerStages => Busy' = Busy \ {j}
  BY DEF Busy, TypeOK
<1>4. QED
  BY <1>1, <1>2, <1>3

(* No step but a get adds a handler. *)
LEMMA HandlersKept ==
    ASSUME NEW j \in Jobs, NEW s, TypeOK, HandlersHaveWorkers,
           stage' = [stage EXCEPT ![j] = s],
           s \notin HandlerStages \/ stage[j] \in HandlerStages,
           UNCHANGED <<phase, workers>>
    PROVE  HandlersHaveWorkers'
<1>1. Busy' \subseteq Busy
  BY DEF Busy
<1>2. IsFiniteSet(Busy) /\ Cardinality(Busy) \in Nat
  BY BusyMoves
<1>3. Cardinality(Busy') <= Cardinality(Busy) /\ Cardinality(Busy') \in Nat
  BY <1>1, <1>2, FS_Subset, FS_CardinalityType
<1>4. workers \in Nat
  BY DEF TypeOK
<1>5. QED
  BY <1>1, <1>2, <1>3, <1>4 DEF HandlersHaveWorkers, HandlersRun

(* asyncio.Queue.put(): the item is queued, or waits. *)
LEMMA PutPreserves ==
    ASSUME NEW j \in Jobs, NEW w \in {"enqueue", "requeue"}, TypeOK, QueueOnce,
           stage[j] # "queued", PutOrWait(j, w)
    PROVE  /\ \E s \in {"queued", w} : stage' = [stage EXCEPT ![j] = s]
           /\ queue' \in Seq(Jobs) /\ QueueOnce'
<1>1. CASE Len(queue) < QueueSize
  BY <1>1, QueueAppend DEF PutOrWait, MoveTo
<1>2. CASE ~(Len(queue) < QueueSize)
  BY <1>2, QueueKept DEF PutOrWait, MoveTo, TypeOK
<1>3. QED
  BY <1>1, <1>2

(* A task_done() and the end of a _reschedule task leave drain() somewhere. *)
LEMMA DrainTypes ==
    ASSUME NEW j \in Jobs, TypeOK, TaskDone(j) \/ RescheduleEnds(j)
    PROVE  drain' \in [Drains -> DrainStates]
<1>1. \A d \in Drains : /\ drain[d] \in DrainStates
                        /\ [drain[d] EXCEPT !.waiting = @ \ {j}] \in DrainStates
  BY DEF TypeOK, DrainStates
<1>2. [pc |-> "check", waiting |-> {i \in Jobs : stage[i] = "sleep"}] \in DrainStates
  BY DEF DrainStates
<1>3. QED
  BY <1>1, <1>2 DEF TaskDone, RescheduleEnds

(* The counters are numbers. *)
LEMMA Numbers ==
    ASSUME TypeOK
    PROVE  /\ boots \in Nat /\ MaxRetries \in Nat
           /\ \A k \in Keys : calls[k] \in Nat /\ inflight[k] \in Int
           /\ \A k \in Keys : inflight[k] # NoRow => inflight[k] \in Nat
           /\ \A j \in Jobs : attempt[j] \in Nat /\ JobKey[j] \in Keys
  BY JobFacts, ConstantsAssumption DEF TypeOK

(* start() only opens the session: nothing that IInv speaks of changes. *)
LEMMA StartPreserves ==
    ASSUME IInv, Start
    PROVE  IInv'
<1>1. TypeOK'
  BY JobFacts, ConstantsAssumption DEF IInv, Start, durable, history, TypeOK, Phases
<1>2. QueueOnce' /\ HandlersHaveWorkers'
  BY DEF IInv, Start, durable, history, QueueOnce, HandlersHaveWorkers, HandlersRun, Busy
<1>3. WorkIsRegistered' /\ NoDuplicateWork' /\ RetryCountPersisted'
  BY DEF IInv, Start, durable, history, WorkIsRegistered, NoDuplicateWork,
         RetryCountPersisted, Live
<1>4. SettlingIsNotOwed' /\ NoLostWork'
  BY DEF IInv, Start, durable, history, SettlingIsNotOwed, NoLostWork
<1>5. SnapshotIsCurrent' /\ FreshStartsAtZero' /\ SettledIsRecorded'
  BY JobFacts
    DEF IInv, Start, durable, history, SnapshotIsCurrent, FreshStartsAtZero,
        SettledIsRecorded, Live
<1>6. ExchangesArePaid' /\ RetryBudget'
  BY Numbers DEF IInv, Start, durable, history, ExchangesArePaid, RetryBudget
<1>7. QED
  BY <1>1, <1>2, <1>3, <1>4, <1>5, <1>6 DEF IInv

(* The SELECT makes the snapshot current. *)
LEMMA ListInflightPreserves ==
    ASSUME IInv, ListInflight
    PROVE  IInv'
<1>1. TypeOK'
  BY JobFacts, ConstantsAssumption DEF IInv, ListInflight, durable, history, TypeOK, Phases
<1>2. QueueOnce' /\ HandlersHaveWorkers'
  BY DEF IInv, ListInflight, durable, history, QueueOnce, HandlersHaveWorkers, HandlersRun,
         Busy
<1>3. WorkIsRegistered' /\ NoDuplicateWork' /\ RetryCountPersisted'
  BY DEF IInv, ListInflight, durable, history, WorkIsRegistered, NoDuplicateWork,
         RetryCountPersisted, Live
<1>4. SettlingIsNotOwed' /\ NoLostWork'
  BY DEF IInv, ListInflight, durable, history, SettlingIsNotOwed, NoLostWork
<1>5. SnapshotIsCurrent' /\ FreshStartsAtZero' /\ SettledIsRecorded'
  BY JobFacts
    DEF IInv, ListInflight, durable, history, SnapshotIsCurrent, FreshStartsAtZero,
        SettledIsRecorded, Live
<1>6. ExchangesArePaid' /\ RetryBudget'
  BY JobFacts, ConstantsAssumption
    DEF IInv, ListInflight, durable, history, ExchangesArePaid, RetryBudget
<1>7. QED
  BY <1>1, <1>2, <1>3, <1>4, <1>5, <1>6 DEF IInv

(* Recovery owns a key no live item has, and resumes at the row's retry_count. *)
LEMMA RecoverRowPreserves ==
    ASSUME NEW k \in Keys, IInv, RecoverRow(k)
    PROVE  IInv'
<1> DEFINE j == <<k, boots>>
<1>1. j \in Jobs /\ j \notin Callers /\ JobKey[j] = k
  BY JobFacts, ConstantsAssumption DEF IInv, TypeOK, RecoverRow
<1>2. reg[k] = "none" /\ \A i \in Jobs : JobKey[i] = k => stage[i] = "none"
  BY DEF IInv, TypeOK, RecoverRow, WorkIsRegistered, Live
<1>3. PICK s \in {"queued", "enqueue"} : stage' = [stage EXCEPT ![j] = s]
  BY <1>1, <1>2, PutPreserves DEF IInv, RecoverRow
<1>4. queue' \in Seq(Jobs) /\ QueueOnce'
  BY <1>1, <1>2, PutPreserves DEF IInv, RecoverRow
<1>5. attempt' = [attempt EXCEPT ![j] = inflight[k]] /\ inflight[k] \in Nat
  BY <1>2 DEF IInv, TypeOK, RecoverRow, RecoveredAttempt, SnapshotIsCurrent
<1> HIDE DEF j
<1>6. TypeOK'
  BY <1>1, <1>3, <1>4, <1>5 DEF IInv, TypeOK, RecoverRow, durable, history
<1>7. HandlersHaveWorkers'
  BY <1>1, <1>3, HandlersKept DEF IInv, RecoverRow
<1>8. WorkIsRegistered' /\ NoDuplicateWork'
  BY <1>1, <1>2, <1>3, JobFacts
    DEF IInv, TypeOK, RecoverRow, WorkIsRegistered, NoDuplicateWork, Live
<1>9. RetryCountPersisted'
  <2>1. stage \in [Jobs -> Stages] /\ attempt \in [Jobs -> Nat] /\ RetryCountPersisted
    BY DEF IInv, TypeOK
  <2>2. inflight' = inflight
    BY DEF RecoverRow, durable
  <2>3. \A i \in Jobs : i # j => stage'[i] = stage[i] /\ attempt'[i] = attempt[i]
    BY <1>3, <1>5
  <2>4. stage'[j] \in {"queued", "enqueue"} /\ attempt'[j] = inflight[JobKey[j]]
    BY <1>1, <1>3, <1>5, <2>1
  <2>5. QED
    BY <2>1, <2>2, <2>3, <2>4 DEF RetryCountPersisted
<1>10. SettlingIsNotOwed' /\ NoLostWork'
  BY <1>1, <1>3
    DEF IInv, TypeOK, RecoverRow, durable, history, SettlingIsNotOwed, NoLostWork
<1>11. SnapshotIsCurrent' /\ FreshStartsAtZero'
  BY <1>1, <1>3, <1>5, JobFacts
    DEF IInv, TypeOK, RecoverRow, durable, SnapshotIsCurrent, FreshStartsAtZero, Live
<1>12. SettledIsRecorded'
  <2>1. stage \in [Jobs -> Stages] /\ SettledIsRecorded
    BY DEF IInv, TypeOK
  <2>2. UNCHANGED <<inflight, dlq>>
    BY DEF RecoverRow, durable
  <2>3. QED
    BY <1>1, <1>3, <2>1, <2>2 DEF SettledIsRecorded
<1>13. ExchangesArePaid' /\ RetryBudget'
  <2>1. calls[k] < inflight[k] + boots
    BY <1>2, <1>5 DEF IInv, RecoverRow, ExchangesArePaid
  <2>2. stage \in [Jobs -> Stages] /\ attempt \in [Jobs -> Nat]
    BY DEF IInv, TypeOK
  <2>3. UNCHANGED <<phase, boots, inflight, calls>>
    BY DEF RecoverRow, durable, history
  <2>4. \A i \in Keys : reg'[i] = "none" => reg[i] = "none"
    BY DEF RecoverRow
  <2>5. QED
    BY <1>1, <1>3, <1>5, <2>1, <2>2, <2>3, <2>4 DEF IInv, ExchangesArePaid, RetryBudget
<1>14. QED
  BY <1>4, <1>6, <1>7, <1>8, <1>9, <1>10, <1>11, <1>12, <1>13 DEF IInv

(* A row that is skipped leaves the snapshot. *)
LEMMA SkipRowPreserves ==
    ASSUME NEW k \in Keys, IInv, SkipRow(k)
    PROVE  IInv'
<1>1. TypeOK'
  BY JobFacts, ConstantsAssumption DEF IInv, SkipRow, durable, history, TypeOK
<1>2. QueueOnce' /\ HandlersHaveWorkers'
  BY DEF IInv, SkipRow, durable, history, QueueOnce, HandlersHaveWorkers, HandlersRun, Busy
<1>3. WorkIsRegistered' /\ NoDuplicateWork' /\ RetryCountPersisted'
  BY DEF IInv, SkipRow, durable, history, WorkIsRegistered, NoDuplicateWork,
         RetryCountPersisted, Live
<1>4. SettlingIsNotOwed' /\ NoLostWork'
  BY DEF IInv, SkipRow, durable, history, SettlingIsNotOwed, NoLostWork
<1>5. SnapshotIsCurrent' /\ FreshStartsAtZero' /\ SettledIsRecorded'
  BY JobFacts
    DEF IInv, SkipRow, durable, history, SnapshotIsCurrent, FreshStartsAtZero,
        SettledIsRecorded, Live
<1>6. ExchangesArePaid' /\ RetryBudget'
  BY JobFacts, ConstantsAssumption
    DEF IInv, SkipRow, durable, history, ExchangesArePaid, RetryBudget
<1>7. QED
  BY <1>1, <1>2, <1>3, <1>4, <1>5, <1>6 DEF IInv

(* No handler runs yet when the workers are made. *)
LEMMA SpawnWorkersPreserves ==
    ASSUME IInv, SpawnWorkers
    PROVE  IInv'
<1>1. workers' \in 0..NumWorkers
  BY ConstantsAssumption DEF SpawnWorkers
<1>2. stopping' \in BOOLEAN
  BY DEF SpawnWorkers
<1>3. TypeOK'
  BY <1>1, <1>2 DEF IInv, TypeOK, SpawnWorkers, durable, history, Phases
<1>4. QueueOnce'
  BY JobFacts DEF IInv, SpawnWorkers, durable, QueueOnce
<1>5. Busy = {} /\ Busy' = {}
  BY DEF IInv, SpawnWorkers, HandlersHaveWorkers, Busy
<1>6. HandlersHaveWorkers'
  BY <1>1, <1>5, FS_EmptySet DEF HandlersHaveWorkers
<1>7. WorkIsRegistered' /\ NoDuplicateWork'
  BY JobFacts
    DEF IInv, SpawnWorkers, durable, history, TypeOK, WorkIsRegistered, NoDuplicateWork,
        Live
<1>8. RetryCountPersisted'
  BY JobFacts
    DEF IInv, SpawnWorkers, durable, history, TypeOK, WorkIsRegistered, NoDuplicateWork,
        RetryCountPersisted
<1>9. SettlingIsNotOwed' /\ NoLostWork'
  BY JobFacts
    DEF IInv, SpawnWorkers, durable, history, TypeOK, WorkIsRegistered, NoDuplicateWork,
        Live, RetryCountPersisted, SettlingIsNotOwed, NoLostWork
<1>10. SnapshotIsCurrent' /\ FreshStartsAtZero'
  BY JobFacts
    DEF IInv, SpawnWorkers, durable, history, TypeOK, WorkIsRegistered, Live,
        SnapshotIsCurrent, FreshStartsAtZero
<1>11. SettledIsRecorded'
  BY JobFacts DEF IInv, SpawnWorkers, durable, history, SettledIsRecorded
<1>12. ExchangesArePaid' /\ RetryBudget'
  BY JobFacts, ConstantsAssumption
    DEF IInv, SpawnWorkers, durable, history, TypeOK, ExchangesArePaid, RetryBudget,
        RetryCountPersisted
<1>13. QED
  BY <1>3, <1>4, <1>6, <1>7, <1>8, <1>9, <1>10, <1>11, <1>12 DEF IInv

(* A refused caller was never a job. *)
LEMMA RefusePreserves ==
    ASSUME NEW c \in Callers, IInv, Refuse(c)
    PROVE  IInv'
<1>1. TypeOK'
  BY JobFacts, ConstantsAssumption
    DEF IInv, Refuse, control, durable, history, TypeOK, CallerStates
<1>2. QueueOnce' /\ HandlersHaveWorkers'
  BY DEF IInv, Refuse, control, durable, history, QueueOnce, HandlersHaveWorkers,
         HandlersRun, Busy
<1>3. WorkIsRegistered' /\ NoDuplicateWork' /\ RetryCountPersisted'
  BY DEF IInv, Refuse, control, durable, history, WorkIsRegistered, NoDuplicateWork,
         RetryCountPersisted, Live
<1>4. SettlingIsNotOwed' /\ NoLostWork'
  BY DEF IInv, Refuse, control, durable, history, SettlingIsNotOwed, NoLostWork
<1>5. SnapshotIsCurrent' /\ FreshStartsAtZero' /\ SettledIsRecorded'
  BY JobFacts
    DEF IInv, Refuse, control, durable, history, SnapshotIsCurrent, FreshStartsAtZero,
        SettledIsRecorded, Live
<1>6. ExchangesArePaid' /\ RetryBudget'
  BY JobFacts, ConstantsAssumption
    DEF IInv, Refuse, control, durable, history, ExchangesArePaid, RetryBudget
<1>7. QED
  BY <1>1, <1>2, <1>3, <1>4, <1>5, <1>6 DEF IInv

(* A caller that attaches adds no job. *)
LEMMA AttachPreserves ==
    ASSUME NEW c \in Callers, IInv, Attach(c)
    PROVE  IInv'
<1>1. TypeOK'
  BY JobFacts, ConstantsAssumption
    DEF IInv, Attach, control, durable, history, HasSession, TypeOK, CallerStates
<1>2. QueueOnce' /\ HandlersHaveWorkers'
  BY DEF IInv, Attach, control, durable, history, HasSession, QueueOnce,
         HandlersHaveWorkers, HandlersRun, Busy
<1>3. WorkIsRegistered' /\ NoDuplicateWork' /\ RetryCountPersisted'
  BY DEF IInv, Attach, control, durable, history, HasSession, WorkIsRegistered,
         NoDuplicateWork, RetryCountPersisted, Live
<1>4. SettlingIsNotOwed' /\ NoLostWork'
  BY DEF IInv, Attach, control, durable, history, HasSession, SettlingIsNotOwed, NoLostWork
<1>5. SnapshotIsCurrent' /\ FreshStartsAtZero' /\ SettledIsRecorded'
  BY JobFacts
    DEF IInv, Attach, control, durable, history, HasSession, SnapshotIsCurrent,
        FreshStartsAtZero, SettledIsRecorded, Live
<1>6. ExchangesArePaid' /\ RetryBudget'
  BY JobFacts, ConstantsAssumption
    DEF IInv, Attach, control, durable, history, HasSession, ExchangesArePaid, RetryBudget
<1>7. QED
  BY <1>1, <1>2, <1>3, <1>4, <1>5, <1>6 DEF IInv

(* The owner's key was free, so no live item has it. *)
LEMMA OwnPreserves ==
    ASSUME NEW c \in Callers, IInv, Own(c)
    PROVE  IInv'
<1>1. TypeOK'
  BY JobFacts, ConstantsAssumption
    DEF IInv, Own, control, durable, history, MoveTo, Free, HasSession, TypeOK, CallerStates
<1>2. QueueOnce'
  BY QueueKept, JobFacts
    DEF IInv, Own, control, durable, history, MoveTo, Free, HasSession, WorkIsRegistered,
        Live
<1>3. HandlersHaveWorkers'
  BY HandlersKept, JobFacts DEF IInv, Own, control, durable, MoveTo
<1>4. WorkIsRegistered' /\ NoDuplicateWork'
  BY JobFacts
    DEF IInv, Own, control, durable, history, MoveTo, Free, HasSession, TypeOK,
        WorkIsRegistered, NoDuplicateWork, Live
<1>5. RetryCountPersisted'
  BY JobFacts
    DEF IInv, Own, control, durable, history, MoveTo, Free, HasSession, TypeOK,
        WorkIsRegistered, NoDuplicateWork, RetryCountPersisted
<1>6. SettlingIsNotOwed' /\ NoLostWork'
  BY JobFacts
    DEF IInv, Own, control, durable, history, MoveTo, Free, HasSession, TypeOK,
        WorkIsRegistered, NoDuplicateWork, Live, RetryCountPersisted, SettlingIsNotOwed,
        NoLostWork
<1>7. SnapshotIsCurrent' /\ FreshStartsAtZero'
  BY JobFacts
    DEF IInv, Own, control, durable, history, MoveTo, Free, HasSession, TypeOK,
        WorkIsRegistered, Live, SnapshotIsCurrent, FreshStartsAtZero
<1>8. SettledIsRecorded'
  BY JobFacts
    DEF IInv, Own, control, durable, history, MoveTo, Free, HasSession, SettledIsRecorded
<1>9. ExchangesArePaid' /\ RetryBudget'
  BY JobFacts, ConstantsAssumption
    DEF IInv, Own, control, durable, history, MoveTo, Free, HasSession, TypeOK,
        ExchangesArePaid, RetryBudget, RetryCountPersisted
<1>10. QED
  BY <1>1, <1>2, <1>3, <1>4, <1>5, <1>6, <1>7, <1>8, <1>9 DEF IInv

(* The row is written with the count of the new item, and the key becomes owed. *)
LEMMA UpsertPreserves ==
    ASSUME NEW c \in Callers, IInv, Upsert(c)
    PROVE  IInv'
<1>1. \A i \in Jobs : i # c /\ Live(i) => JobKey[i] # KeyOf[c]
  BY JobFacts DEF IInv, Upsert, NoDuplicateWork, Live
<1>2. reg[KeyOf[c]] = "pending" /\ c \in Jobs /\ JobKey[c] = KeyOf[c]
  BY JobFacts DEF IInv, Upsert, WorkIsRegistered, Live
<1>3. TypeOK'
  BY JobFacts, ConstantsAssumption DEF IInv, Upsert, Accept, control, MoveTo, TypeOK
<1>4. QueueOnce'
  BY QueueKept, JobFacts DEF IInv, Upsert, Accept, control, MoveTo
<1>5. HandlersHaveWorkers'
  BY HandlersKept, JobFacts DEF IInv, Upsert, Accept, control, MoveTo
<1>6. WorkIsRegistered' /\ NoDuplicateWork'
  BY JobFacts
    DEF IInv, Upsert, Accept, control, MoveTo, HasSession, TypeOK, WorkIsRegistered,
        NoDuplicateWork, Live
<1>7. RetryCountPersisted'
  BY <1>1, <1>2, JobFacts
    DEF IInv, Upsert, Accept, control, MoveTo, HasSession, TypeOK, Live, RetryCountPersisted,
        FreshStartsAtZero
<1>8. SettlingIsNotOwed' /\ NoLostWork'
  BY <1>1, <1>2, JobFacts
    DEF IInv, Upsert, Accept, control, MoveTo, HasSession, TypeOK, Live, SettlingIsNotOwed,
        NoLostWork
<1>9. SnapshotIsCurrent'
  BY <1>2 DEF IInv, TypeOK, Upsert, Accept, control, SnapshotIsCurrent
<1>10. FreshStartsAtZero'
  BY JobFacts DEF IInv, Upsert, Accept, control, MoveTo, HasSession, TypeOK, Live, FreshStartsAtZero
<1>11. SettledIsRecorded'
  BY <1>1, <1>2, JobFacts
    DEF IInv, Upsert, Accept, control, MoveTo, HasSession, TypeOK, SettledIsRecorded, Live
<1>12. ExchangesArePaid' /\ RetryBudget'
  BY <1>1, <1>2, JobFacts, ConstantsAssumption
    DEF IInv, Upsert, Accept, control, MoveTo, HasSession, TypeOK, ExchangesArePaid, RetryBudget,
        RetryCountPersisted, ShouldRetry
<1>13. QED
  BY <1>3, <1>4, <1>5, <1>6, <1>7, <1>8, <1>9, <1>10, <1>11, <1>12 DEF IInv

(* A submission that fails leaves no item; the key of a row that it leaves *)
(* stays taken.                                                            *)
LEMMA UpsertFailsPreserves ==
    ASSUME NEW c \in Callers, IInv, UpsertFails(c)
    PROVE  IInv'
<1>1. \A i \in Jobs : i # c /\ Live(i) => JobKey[i] # KeyOf[c]
  BY JobFacts DEF IInv, UpsertFails, NoDuplicateWork, Live
<1>2. /\ c \in Jobs /\ JobKey[c] = KeyOf[c] /\ KeyOf[c] \in Keys
      /\ stage[c] = "upsert" /\ reg[KeyOf[c]] = "pending"
  BY JobFacts DEF IInv, UpsertFails, WorkIsRegistered, Live
<1>3. /\ stage' = [stage EXCEPT ![c] = "none"] /\ caller' = [caller EXCEPT ![c] = "error"]
      /\ UNCHANGED <<phase, stopping, boots, workers, drain, todo, reg, queue, attempt, dlq>>
  BY DEF UpsertFails, MoveTo, control, durable, Accept
<1>4. \/ UNCHANGED <<inflight, owed, calls>>
      \/ /\ inflight' = [inflight EXCEPT ![KeyOf[c]] = 0]
         /\ owed' = owed \cup {KeyOf[c]}
         /\ calls' = [calls EXCEPT ![KeyOf[c]] = 0]
  BY DEF UpsertFails, Accept, durable, history
<1>5. \A i \in Jobs : stage'[i] # "none" => stage'[i] = stage[i] /\ Live(i) /\ i # c
  BY <1>2, <1>3 DEF IInv, TypeOK, Live
<1>6. \A i \in Jobs : stage'[i] # "none" =>
          /\ inflight'[JobKey[i]] = inflight[JobKey[i]] /\ calls'[JobKey[i]] = calls[JobKey[i]]
          /\ JobKey[i] \in owed' => JobKey[i] \in owed
  <2>0. inflight \in [Keys -> Nat \cup {NoRow}] /\ calls \in [Keys -> Nat]
    BY DEF IInv, TypeOK
  <2>1. CASE UNCHANGED <<inflight, owed, calls>>
    BY <2>1
  <2>2. CASE ~UNCHANGED <<inflight, owed, calls>>
    BY <1>1, <1>2, <1>4, <1>5, <2>0, <2>2, JobFacts
  <2>3. QED
    BY <2>1, <2>2
<1>7. TypeOK'
  <2>0. inflight \in [Keys -> Nat \cup {NoRow}] /\ calls \in [Keys -> Nat] /\ 0 \in Nat
    BY DEF IInv, TypeOK
  <2>1. inflight' \in [Keys -> Nat \cup {NoRow}] /\ calls' \in [Keys -> Nat]
    <3>1. CASE UNCHANGED <<inflight, owed, calls>>
      BY <2>0, <3>1
    <3>2. CASE ~UNCHANGED <<inflight, owed, calls>>
      BY <1>4, <2>0, <3>2
    <3>3. QED
      BY <3>1, <3>2
  <2>2. owed' \subseteq Keys
    BY <1>2, <1>4 DEF IInv, TypeOK
  <2>3. QED
    BY <1>2, <1>3, <2>1, <2>2 DEF IInv, TypeOK, CallerStates
<1>8. QueueOnce'
  BY <1>2, <1>3, QueueKept DEF IInv
<1>9. HandlersHaveWorkers'
  BY <1>2, <1>3, HandlersKept DEF IInv
<1>10. WorkIsRegistered' /\ NoDuplicateWork'
  BY <1>3, <1>5 DEF IInv, WorkIsRegistered, NoDuplicateWork, Live
<1>11. RetryCountPersisted' /\ SettlingIsNotOwed' /\ SettledIsRecorded'
  BY <1>3, <1>5, <1>6 DEF IInv, RetryCountPersisted, SettlingIsNotOwed, SettledIsRecorded
<1>12. NoLostWork'
  <2>1. inflight \in [Keys -> Nat \cup {NoRow}] /\ owed \subseteq Keys /\ NoLostWork
    BY DEF IInv, TypeOK
  <2>2. CASE UNCHANGED <<inflight, owed, calls>>
    BY <2>1, <2>2 DEF NoLostWork
  <2>3. CASE ~UNCHANGED <<inflight, owed, calls>>
    BY <1>2, <1>4, <2>1, <2>3 DEF NoLostWork
  <2>4. QED
    BY <2>2, <2>3
<1>13. SnapshotIsCurrent'
  BY <1>2, <1>3, <1>4 DEF IInv, TypeOK, SnapshotIsCurrent
<1>14. FreshStartsAtZero'
  BY <1>2, <1>3, JobFacts DEF IInv, TypeOK, FreshStartsAtZero, Live
<1>15. ExchangesArePaid' /\ RetryBudget'
  <2>1. \A k \in Keys : \/ inflight'[k] = inflight[k] /\ calls'[k] = calls[k]
                        \/ k = KeyOf[c] /\ inflight'[k] = 0 /\ calls'[k] = 0
    BY <1>2, <1>4 DEF IInv, TypeOK
  <2>2. RetryBudget'
    BY <1>3, <2>1, Numbers DEF IInv, RetryBudget
  <2>3. ExchangesArePaid'
    BY <1>2, <1>3, <1>5, <1>6, <2>1, Numbers DEF IInv, ExchangesArePaid
  <2>4. QED
    BY <2>2, <2>3
<1>16. QED
  BY <1>7, <1>8, <1>9, <1>10, <1>11, <1>12, <1>13, <1>14, <1>15 DEF IInv

(* A put moves one item into the queue, once. *)
LEMMA EnqueuePreserves ==
    ASSUME NEW j \in Jobs, IInv, Enqueue(j)
    PROVE  IInv'
<1>1. stage' = [stage EXCEPT ![j] = "queued"] /\ queue' \in Seq(Jobs) /\ QueueOnce'
  BY QueueAppend DEF IInv, Enqueue, MoveTo
<1>2. drain' \in [Drains -> DrainStates]
  BY DrainTypes DEF IInv, TypeOK, Enqueue
<1>3. TypeOK'
  BY <1>1, <1>2 DEF IInv, TypeOK, Enqueue, durable, history
<1>4. HandlersHaveWorkers'
  BY <1>1, HandlersKept DEF IInv, Enqueue
<1>5. WorkIsRegistered' /\ NoDuplicateWork'
  BY <1>1 DEF IInv, TypeOK, Enqueue, WorkIsRegistered, NoDuplicateWork, Live
<1>6. RetryCountPersisted'
  BY <1>1 DEF IInv, TypeOK, Enqueue, durable, RetryCountPersisted
<1>7. SettlingIsNotOwed' /\ NoLostWork'
  BY <1>1 DEF IInv, TypeOK, Enqueue, durable, history, SettlingIsNotOwed, NoLostWork
<1>8. SnapshotIsCurrent' /\ FreshStartsAtZero'
  BY <1>1, JobFacts
    DEF IInv, TypeOK, Enqueue, durable, SnapshotIsCurrent, FreshStartsAtZero, Live
<1>9. SettledIsRecorded'
  BY <1>1, JobFacts DEF IInv, Enqueue, durable, history, MoveTo, SettledIsRecorded
<1>10. ExchangesArePaid' /\ RetryBudget'
  BY <1>1, JobFacts, ConstantsAssumption
    DEF IInv, Enqueue, durable, history, MoveTo, TypeOK, ExchangesArePaid, RetryBudget,
        ShouldRetry
<1>11. QED
  BY <1>1, <1>3, <1>4, <1>5, <1>6, <1>7, <1>8, <1>9, <1>10 DEF IInv

(* A worker takes the item at the head; there are more workers than handlers. *)
LEMMA TakePreserves ==
    ASSUME NEW j \in Jobs, IInv, Take(j)
    PROVE  IInv'
<1>1. PICK s \in {"execute"} : stage' = [stage EXCEPT ![j] = s]
  BY DEF Take, MoveTo
<1>2. stage[j] = "queued" /\ queue' \in Seq(Jobs) /\ QueueOnce'
  BY <1>1, QueueTail DEF IInv, Take, CanTake
<1>3. TypeOK'
  BY <1>1, <1>2 DEF IInv, TypeOK, Take, control, durable, history
<1>4. HandlersHaveWorkers'
  <2>1. Busy' = Busy \cup {j} /\ IsFiniteSet(Busy) /\ Cardinality(Busy) \in Nat
    BY <1>1, BusyMoves DEF IInv
  <2>2. Cardinality(Busy') \in {Cardinality(Busy), Cardinality(Busy) + 1}
    BY <2>1, FS_AddElement
  <2>3. Cardinality(Busy) < workers /\ workers \in Nat /\ HandlersRun
    BY DEF IInv, TypeOK, Take, CanTake
  <2>4. Cardinality(Busy') <= workers
    BY <2>1, <2>2, <2>3
  <2>5. QED
    BY <2>3, <2>4 DEF Take, control, HandlersHaveWorkers, HandlersRun
<1>5. WorkIsRegistered' /\ NoDuplicateWork'
  BY <1>1, <1>2 DEF IInv, TypeOK, Take, WorkIsRegistered, NoDuplicateWork, Live
<1>6. RetryCountPersisted'
  BY <1>1, <1>2 DEF IInv, TypeOK, Take, durable, RetryCountPersisted
<1>7. SettlingIsNotOwed' /\ NoLostWork'
  BY <1>1, <1>2 DEF IInv, TypeOK, Take, durable, history, SettlingIsNotOwed, NoLostWork
<1>8. SnapshotIsCurrent' /\ FreshStartsAtZero'
  BY <1>1, <1>2, JobFacts
    DEF IInv, TypeOK, Take, control, durable, SnapshotIsCurrent, FreshStartsAtZero, Live
<1>9. SettledIsRecorded'
  BY <1>1, <1>2, JobFacts
    DEF IInv, Take, control, durable, history, CanTake, MoveTo, HandlersRun,
        SettledIsRecorded
<1>10. ExchangesArePaid' /\ RetryBudget'
  BY <1>1, <1>2, JobFacts, ConstantsAssumption
    DEF IInv, Take, control, durable, history, CanTake, MoveTo, HandlersRun, TypeOK,
        ExchangesArePaid, RetryBudget, ShouldRetry
<1>11. QED
  BY <1>2, <1>3, <1>4, <1>5, <1>6, <1>7, <1>8, <1>9, <1>10 DEF IInv

(* The same with an open breaker: the item goes to its retry or its dead letter. *)
LEMMA ShortCircuitPreserves ==
    ASSUME NEW j \in Jobs, IInv, ShortCircuit(j)
    PROVE  IInv'
<1>1. PICK s \in {"retry", "bury"} : stage' = [stage EXCEPT ![j] = s]
  BY DEF ShortCircuit, RetryOrBury, MoveTo
<1>2. stage[j] = "queued" /\ queue' \in Seq(Jobs) /\ QueueOnce'
  BY <1>1, QueueTail DEF IInv, ShortCircuit, CanTake
<1>3. TypeOK'
  BY <1>1, <1>2 DEF IInv, TypeOK, ShortCircuit, control, durable, history
<1>4. HandlersHaveWorkers'
  <2>1. Busy' = Busy \cup {j} /\ IsFiniteSet(Busy) /\ Cardinality(Busy) \in Nat
    BY <1>1, BusyMoves DEF IInv
  <2>2. Cardinality(Busy') \in {Cardinality(Busy), Cardinality(Busy) + 1}
    BY <2>1, FS_AddElement
  <2>3. Cardinality(Busy) < workers /\ workers \in Nat /\ HandlersRun
    BY DEF IInv, TypeOK, ShortCircuit, CanTake
  <2>4. Cardinality(Busy') <= workers
    BY <2>1, <2>2, <2>3
  <2>5. QED
    BY <2>3, <2>4 DEF ShortCircuit, control, HandlersHaveWorkers, HandlersRun
<1>5. WorkIsRegistered' /\ NoDuplicateWork'
  BY <1>1, <1>2 DEF IInv, TypeOK, ShortCircuit, WorkIsRegistered, NoDuplicateWork, Live
<1>6. RetryCountPersisted'
  BY <1>1, <1>2 DEF IInv, TypeOK, ShortCircuit, durable, RetryCountPersisted
<1>7. SettlingIsNotOwed' /\ NoLostWork'
  BY <1>1, <1>2
    DEF IInv, TypeOK, ShortCircuit, durable, history, SettlingIsNotOwed, NoLostWork
<1>8. SnapshotIsCurrent' /\ FreshStartsAtZero'
  BY <1>1, <1>2, JobFacts
    DEF IInv, TypeOK, ShortCircuit, control, durable, SnapshotIsCurrent, FreshStartsAtZero,
        Live
<1>9. SettledIsRecorded'
  BY <1>1, <1>2, JobFacts
    DEF IInv, ShortCircuit, control, durable, history, CanTake, MoveTo, RetryOrBury,
        HandlersRun, SettledIsRecorded
<1>10. ExchangesArePaid' /\ RetryBudget'
  BY <1>1, <1>2, JobFacts, ConstantsAssumption
    DEF IInv, ShortCircuit, control, durable, history, CanTake, MoveTo, RetryOrBury,
        HandlersRun, TypeOK, ExchangesArePaid, RetryBudget, ShouldRetry
<1>11. QED
  BY <1>2, <1>3, <1>4, <1>5, <1>6, <1>7, <1>8, <1>9, <1>10 DEF IInv

(* After a success the key is not owed. *)
LEMMA SucceedPreserves ==
    ASSUME NEW j \in Jobs, IInv, Succeed(j)
    PROVE  IInv'
<1>1. TypeOK'
  BY JobFacts, ConstantsAssumption
    DEF IInv, Succeed, control, durable, Handles, MoveTo, TypeOK
<1>2. QueueOnce'
  BY QueueKept, JobFacts DEF IInv, Succeed, control, durable, Handles, MoveTo
<1>3. HandlersHaveWorkers'
  BY HandlersKept, JobFacts DEF IInv, Succeed, control, durable, Handles, MoveTo
<1>4. WorkIsRegistered' /\ NoDuplicateWork'
  BY JobFacts
    DEF IInv, Succeed, control, durable, Handles, MoveTo, HandlersRun, TypeOK,
        WorkIsRegistered, NoDuplicateWork, Live
<1>5. RetryCountPersisted'
  BY JobFacts
    DEF IInv, Succeed, control, durable, Handles, MoveTo, HandlersRun, TypeOK,
        WorkIsRegistered, NoDuplicateWork, RetryCountPersisted
<1>6. SettlingIsNotOwed' /\ NoLostWork'
  BY JobFacts
    DEF IInv, Succeed, control, durable, Handles, MoveTo, HandlersRun, TypeOK,
        WorkIsRegistered, NoDuplicateWork, Live, RetryCountPersisted, SettlingIsNotOwed,
        NoLostWork
<1>7. SnapshotIsCurrent' /\ FreshStartsAtZero'
  BY JobFacts
    DEF IInv, Succeed, control, durable, Handles, MoveTo, HandlersRun, TypeOK,
        WorkIsRegistered, Live, SnapshotIsCurrent, FreshStartsAtZero
<1>8. SettledIsRecorded'
  BY JobFacts
    DEF IInv, Succeed, control, durable, Handles, MoveTo, HandlersRun, SettledIsRecorded
<1>9. ExchangesArePaid' /\ RetryBudget'
  <2>1. stage[j] = "execute" /\ JobKey[j] \in Keys
    BY JobFacts DEF Succeed, Handles
  <2>2. \A i \in Jobs : i # j /\ Live(i) => JobKey[i] # JobKey[j]
    BY <2>1 DEF IInv, NoDuplicateWork, Live
  <2>3. calls[JobKey[j]] + 1 <= inflight[JobKey[j]] + boots
    BY <2>1, Numbers DEF IInv, ExchangesArePaid
  <2>4. PICK s \in {"success"} :
            stage' = [stage EXCEPT ![j] = s] /\ (s = "retry" => attempt[j] < MaxRetries)
    BY DEF Succeed, MoveTo
  <2>5. \A i \in Jobs : Live(i) /\ i # j => calls'[JobKey[i]] = calls[JobKey[i]]
    BY <2>1, <2>2, JobFacts DEF Succeed
  <2>6. \A k \in Keys : calls'[k] = IF k = JobKey[j] THEN calls[k] + 1 ELSE calls[k]
    BY <2>1 DEF IInv, TypeOK, Succeed
  <2>7. inflight' = inflight /\ boots' = boots /\ phase' = phase /\ reg' = reg /\ attempt' = attempt
    BY DEF Succeed, control, durable
  <2>8. HandlersRun /\ inflight[JobKey[j]] = attempt[j]
    BY <2>1 DEF IInv, Succeed, Handles, RetryCountPersisted
  <2>9. RetryBudget'
    BY <2>1, <2>3, <2>6, <2>7, Numbers DEF IInv, ExchangesArePaid, RetryBudget
  <2>10. ExchangesArePaid'
    BY <2>1, <2>3, <2>4, <2>5, <2>6, <2>7, <2>8, Numbers
      DEF IInv, TypeOK, ExchangesArePaid, HandlersRun, Live
  <2>11. QED
    BY <2>9, <2>10
<1>10. QED
  BY <1>1, <1>2, <1>3, <1>4, <1>5, <1>6, <1>7, <1>8, <1>9 DEF IInv

(* A failure moves the item within its handler. *)
LEMMA FalterPreserves ==
    ASSUME NEW j \in Jobs, NEW r \in BOOLEAN, IInv, Falter(j, r)
    PROVE  IInv'
<1>1. TypeOK'
  BY JobFacts, ConstantsAssumption
    DEF IInv, Falter, control, durable, Handles, RetryOrBury, MoveTo, TypeOK
<1>2. QueueOnce'
  BY QueueKept, JobFacts DEF IInv, Falter, control, durable, Handles, RetryOrBury, MoveTo
<1>3. HandlersHaveWorkers'
  BY HandlersKept, JobFacts DEF IInv, Falter, control, durable, Handles, RetryOrBury, MoveTo
<1>4. WorkIsRegistered' /\ NoDuplicateWork'
  BY JobFacts
    DEF IInv, Falter, control, durable, Handles, RetryOrBury, MoveTo, HandlersRun, TypeOK,
        WorkIsRegistered, NoDuplicateWork, Live
<1>5. RetryCountPersisted'
  BY JobFacts
    DEF IInv, Falter, control, durable, Handles, RetryOrBury, MoveTo, HandlersRun, TypeOK,
        WorkIsRegistered, NoDuplicateWork, RetryCountPersisted
<1>6. SettlingIsNotOwed' /\ NoLostWork'
  BY JobFacts
    DEF IInv, Falter, control, durable, Handles, RetryOrBury, MoveTo, HandlersRun, TypeOK,
        WorkIsRegistered, NoDuplicateWork, Live, RetryCountPersisted, SettlingIsNotOwed,
        NoLostWork
<1>7. SnapshotIsCurrent' /\ FreshStartsAtZero'
  BY JobFacts
    DEF IInv, Falter, control, durable, Handles, RetryOrBury, MoveTo, HandlersRun, TypeOK,
        WorkIsRegistered, Live, SnapshotIsCurrent, FreshStartsAtZero
<1>8. SettledIsRecorded'
  BY JobFacts
    DEF IInv, Falter, control, durable, Handles, RetryOrBury, MoveTo, HandlersRun,
        SettledIsRecorded
<1>9. ExchangesArePaid' /\ RetryBudget'
  <2>1. stage[j] = "execute" /\ JobKey[j] \in Keys
    BY JobFacts DEF Falter, Handles
  <2>2. \A i \in Jobs : i # j /\ Live(i) => JobKey[i] # JobKey[j]
    BY <2>1 DEF IInv, NoDuplicateWork, Live
  <2>3. calls[JobKey[j]] + 1 <= inflight[JobKey[j]] + boots
    BY <2>1, Numbers DEF IInv, ExchangesArePaid
  <2>4. PICK s \in {"retry", "bury"} :
            stage' = [stage EXCEPT ![j] = s] /\ (s = "retry" => attempt[j] < MaxRetries)
    BY DEF Falter, RetryOrBury, ShouldRetry, MoveTo
  <2>5. \A i \in Jobs : Live(i) /\ i # j => calls'[JobKey[i]] = calls[JobKey[i]]
    BY <2>1, <2>2, JobFacts DEF Falter
  <2>6. \A k \in Keys : calls'[k] = IF k = JobKey[j] THEN calls[k] + 1 ELSE calls[k]
    BY <2>1 DEF IInv, TypeOK, Falter
  <2>7. inflight' = inflight /\ boots' = boots /\ phase' = phase /\ reg' = reg /\ attempt' = attempt
    BY DEF Falter, control, durable
  <2>8. HandlersRun /\ inflight[JobKey[j]] = attempt[j]
    BY <2>1 DEF IInv, Falter, Handles, RetryCountPersisted
  <2>9. RetryBudget'
    BY <2>1, <2>3, <2>6, <2>7, Numbers DEF IInv, ExchangesArePaid, RetryBudget
  <2>10. ExchangesArePaid'
    BY <2>1, <2>3, <2>4, <2>5, <2>6, <2>7, <2>8, Numbers
      DEF IInv, TypeOK, ExchangesArePaid, HandlersRun, Live
  <2>11. QED
    BY <2>9, <2>10
<1>10. QED
  BY <1>1, <1>2, <1>3, <1>4, <1>5, <1>6, <1>7, <1>8, <1>9 DEF IInv

(* The count of the row runs ahead of the item's attempt. *)
LEMMA IncrementRetryPreserves ==
    ASSUME NEW j \in Jobs, IInv, IncrementRetry(j)
    PROVE  IInv'
<1>1. \A i \in Jobs : i # j /\ Live(i) => JobKey[i] # JobKey[j]
  BY DEF IInv, IncrementRetry, Handles, NoDuplicateWork, Live
<1>2. /\ stage \in [Jobs -> Stages] /\ inflight \in [Keys -> Nat \cup {NoRow}]
      /\ attempt \in [Jobs -> Nat] /\ JobKey[j] \in Keys
  BY JobFacts DEF IInv, TypeOK
<1>3. stage[j] = "retry" /\ stage' = [stage EXCEPT ![j] = "schedule"]
  BY DEF IncrementRetry, Handles, MoveTo
<1>4. inflight[JobKey[j]] = attempt[j] /\ attempt[j] < MaxRetries /\ attempt[j] \in Nat
  BY <1>2, <1>3 DEF IInv, RetryCountPersisted, ExchangesArePaid
<1>5. inflight' = [inflight EXCEPT ![JobKey[j]] = attempt[j] + 1]
  <2>1. Incremented(JobKey[j]) = attempt[j] + 1
    BY <1>4 DEF Incremented
  <2>2. QED
    BY <2>1 DEF IncrementRetry
<1>6. UNCHANGED <<control, caller, reg, dlq, queue, attempt, history>>
  BY DEF IncrementRetry
<1>7. TypeOK'
  <2>1. stage' \in [Jobs -> Stages] /\ inflight' \in [Keys -> Nat \cup {NoRow}]
    BY <1>2, <1>3, <1>5
  <2>2. QED
    BY <1>6, <2>1 DEF IInv, TypeOK, control, history
<1>8. QueueOnce' /\ HandlersHaveWorkers'
  BY <1>3, <1>6, QueueKept, HandlersKept DEF IInv, control
<1>9. WorkIsRegistered' /\ NoDuplicateWork'
  BY <1>2, <1>3, <1>6 DEF IInv, WorkIsRegistered, NoDuplicateWork, Live
<1>10. RetryCountPersisted'
  BY <1>1, <1>2, <1>3, <1>4, <1>5, <1>6, JobFacts DEF IInv, RetryCountPersisted, Live
<1>11. SettlingIsNotOwed' /\ NoLostWork'
  BY <1>2, <1>3, <1>4, <1>5, <1>6 DEF IInv, TypeOK, history, SettlingIsNotOwed, NoLostWork
<1>12. SnapshotIsCurrent' /\ FreshStartsAtZero'
  <2>1. reg[JobKey[j]] = "pending"
    BY <1>3 DEF IInv, WorkIsRegistered, Live
  <2>2. QED
    BY <1>2, <1>3, <1>5, <1>6, <2>1, JobFacts
      DEF IInv, control, SnapshotIsCurrent, FreshStartsAtZero, Live
<1>13. SettledIsRecorded'
  BY <1>1, <1>2, <1>3, <1>5, <1>6, JobFacts DEF IInv, SettledIsRecorded, Live
<1>14. ExchangesArePaid' /\ RetryBudget'
  <2>1. \A k \in Keys : k # JobKey[j] => inflight'[k] = inflight[k]
    BY <1>5
  <2>2. inflight'[JobKey[j]] = attempt[j] + 1 /\ inflight[JobKey[j]] # NoRow
    BY <1>2, <1>4, <1>5
  <2>3. calls[JobKey[j]] <= attempt[j] + boots
    BY <1>2, <1>4, <2>2 DEF IInv, ExchangesArePaid
  <2>4. \A i \in Jobs : i # j => stage'[i] = stage[i]
    BY <1>3
  <2>5. stage'[j] = "schedule"
    BY <1>2, <1>3
  <2>6. phase \notin {"opening", "recovering"}
    BY DEF IncrementRetry, Handles, HandlersRun
  <2>7. UNCHANGED <<phase, boots, calls, attempt, reg>>
    BY <1>6 DEF control, history
  <2>8. RetryBudget'
    BY <2>7 DEF IInv, RetryBudget
  <2>9. ExchangesArePaid'
    BY <1>1, <1>4, <2>1, <2>2, <2>3, <2>4, <2>5, <2>6, <2>7, Numbers
      DEF IInv, ExchangesArePaid
  <2>10. QED
    BY <2>8, <2>9
<1>15. QED
  BY <1>7, <1>8, <1>9, <1>10, <1>11, <1>12, <1>13, <1>14 DEF IInv

(* The item's attempt catches up, and the handler ends. *)
LEMMA SchedulePreserves ==
    ASSUME NEW j \in Jobs, IInv, Schedule(j)
    PROVE  IInv'
<1>1. TypeOK'
  <2>1. drain' \in [Drains -> DrainStates]
    BY DrainTypes DEF IInv, Schedule
  <2>2. QED
    BY <2>1, JobFacts, ConstantsAssumption
      DEF IInv, Schedule, durable, history, Handles, MoveTo, HandlersRun, TypeOK
<1>2. QueueOnce'
  BY QueueKept, JobFacts DEF IInv, Schedule, durable, history, Handles, MoveTo
<1>3. HandlersHaveWorkers'
  BY HandlersKept, JobFacts DEF IInv, Schedule, durable, history, MoveTo
<1>4. WorkIsRegistered' /\ NoDuplicateWork'
  BY JobFacts
    DEF IInv, Schedule, durable, history, Handles, MoveTo, HandlersRun, TaskDone, TypeOK,
        WorkIsRegistered, NoDuplicateWork, Live
<1>5. RetryCountPersisted'
  BY JobFacts
    DEF IInv, Schedule, durable, history, Handles, MoveTo, HandlersRun, TaskDone, TypeOK,
        WorkIsRegistered, NoDuplicateWork, RetryCountPersisted
<1>6. SettlingIsNotOwed' /\ NoLostWork'
  BY JobFacts
    DEF IInv, Schedule, durable, history, Handles, MoveTo, HandlersRun, TaskDone, TypeOK,
        WorkIsRegistered, NoDuplicateWork, Live, RetryCountPersisted, SettlingIsNotOwed,
        NoLostWork
<1>7. SnapshotIsCurrent' /\ FreshStartsAtZero'
  BY JobFacts
    DEF IInv, Schedule, durable, history, Handles, MoveTo, HandlersRun, TaskDone, TypeOK,
        WorkIsRegistered, Live, SnapshotIsCurrent, FreshStartsAtZero
<1>8. SettledIsRecorded'
  BY JobFacts
    DEF IInv, Schedule, durable, history, Handles, MoveTo, HandlersRun, TaskDone,
        SettledIsRecorded
<1>9. ExchangesArePaid' /\ RetryBudget'
  BY JobFacts, ConstantsAssumption
    DEF IInv, Schedule, durable, history, Handles, MoveTo, HandlersRun, TaskDone, TypeOK,
        ExchangesArePaid, RetryBudget, RetryCountPersisted
<1>10. QED
  BY <1>1, <1>2, <1>3, <1>4, <1>5, <1>6, <1>7, <1>8, <1>9 DEF IInv

(* After the dead letter the key is not owed. *)
LEMMA PushDeadLetterPreserves ==
    ASSUME NEW j \in Jobs, IInv, PushDeadLetter(j)
    PROVE  IInv'
<1>1. TypeOK'
  BY JobFacts, ConstantsAssumption
    DEF IInv, PushDeadLetter, control, Handles, MoveTo, TypeOK
<1>2. QueueOnce'
  BY QueueKept, JobFacts DEF IInv, PushDeadLetter, control, Handles, MoveTo
<1>3. HandlersHaveWorkers'
  BY HandlersKept, JobFacts DEF IInv, PushDeadLetter, control, Handles, MoveTo
<1>4. WorkIsRegistered' /\ NoDuplicateWork'
  BY JobFacts
    DEF IInv, PushDeadLetter, control, Handles, MoveTo, HandlersRun, TypeOK,
        WorkIsRegistered, NoDuplicateWork, Live
<1>5. RetryCountPersisted'
  BY JobFacts
    DEF IInv, PushDeadLetter, control, Handles, MoveTo, HandlersRun, TypeOK,
        WorkIsRegistered, NoDuplicateWork, RetryCountPersisted
<1>6. SettlingIsNotOwed' /\ NoLostWork'
  BY JobFacts
    DEF IInv, PushDeadLetter, control, Handles, MoveTo, HandlersRun, TypeOK,
        WorkIsRegistered, NoDuplicateWork, Live, RetryCountPersisted, SettlingIsNotOwed,
        NoLostWork
<1>7. SnapshotIsCurrent' /\ FreshStartsAtZero'
  BY JobFacts
    DEF IInv, PushDeadLetter, control, Handles, MoveTo, HandlersRun, TypeOK,
        WorkIsRegistered, Live, SnapshotIsCurrent, FreshStartsAtZero
<1>8. SettledIsRecorded'
  BY JobFacts
    DEF IInv, PushDeadLetter, control, Handles, MoveTo, HandlersRun, SettledIsRecorded
<1>9. ExchangesArePaid' /\ RetryBudget'
  BY JobFacts, ConstantsAssumption
    DEF IInv, PushDeadLetter, control, Handles, MoveTo, HandlersRun, TypeOK,
        ExchangesArePaid, RetryBudget, RetryCountPersisted
<1>10. QED
  BY <1>1, <1>2, <1>3, <1>4, <1>5, <1>6, <1>7, <1>8, <1>9 DEF IInv

(* The row goes when the key is not owed any more. *)
LEMMA DeleteInflightPreserves ==
    ASSUME NEW j \in Jobs, IInv, DeleteInflight(j)
    PROVE  IInv'
<1>1. \A i \in Jobs : i # j /\ Live(i) => JobKey[i] # JobKey[j]
  BY DEF IInv, DeleteInflight, Handles, NoDuplicateWork, Live
<1>2. PICK s \in {"fail", "resolve"} : stage' = [stage EXCEPT ![j] = s]
  BY DEF DeleteInflight, MoveTo
<1>3. HandlersRun /\ stage[j] \in HandlerStages /\ Live(j)
  BY DEF DeleteInflight, Handles, Live
<1>4. TypeOK'
  BY <1>2, JobFacts DEF IInv, TypeOK, DeleteInflight, control, history
<1>5. QueueOnce'
  BY <1>2, <1>3, QueueKept DEF IInv, DeleteInflight
<1>6. HandlersHaveWorkers'
  BY <1>2, <1>3, HandlersKept DEF IInv, DeleteInflight, control
<1>7. WorkIsRegistered' /\ NoDuplicateWork'
  BY <1>2, <1>3 DEF IInv, TypeOK, DeleteInflight, WorkIsRegistered, NoDuplicateWork, Live
<1>8. RetryCountPersisted'
  BY <1>1, <1>2, JobFacts DEF IInv, TypeOK, DeleteInflight, RetryCountPersisted, Live
<1>9. SettlingIsNotOwed' /\ NoLostWork'
  BY JobFacts
    DEF IInv, DeleteInflight, control, history, Handles, MoveTo, HandlersRun, TypeOK,
        WorkIsRegistered, NoDuplicateWork, Live, RetryCountPersisted, SettlingIsNotOwed,
        NoLostWork
<1>10. SnapshotIsCurrent' /\ FreshStartsAtZero'
  BY JobFacts
    DEF IInv, DeleteInflight, control, history, Handles, MoveTo, HandlersRun, TypeOK,
        WorkIsRegistered, Live, SnapshotIsCurrent, FreshStartsAtZero
<1>11. SettledIsRecorded'
  BY <1>1, <1>2, JobFacts
    DEF IInv, DeleteInflight, control, history, Handles, MoveTo, HandlersRun, TypeOK,
        SettledIsRecorded
<1>12. ExchangesArePaid' /\ RetryBudget'
  BY <1>1, <1>2, JobFacts, ConstantsAssumption
    DEF IInv, DeleteInflight, control, history, Handles, MoveTo, HandlersRun, TypeOK,
        ExchangesArePaid, RetryBudget, RetryCountPersisted, ShouldRetry, Live
<1>13. QED
  BY <1>4, <1>5, <1>6, <1>7, <1>8, <1>9, <1>10, <1>11, <1>12 DEF IInv

(* The item and its future go together. *)
LEMMA SettlePreserves ==
    ASSUME NEW j \in Jobs, IInv, Settle(j)
    PROVE  IInv'
<1>1. TypeOK'
  <2>1. drain' \in [Drains -> DrainStates]
    BY DrainTypes DEF IInv, Settle
  <2>2. QED
    BY <2>1, JobFacts, ConstantsAssumption
      DEF IInv, Settle, durable, history, Handles, Deliver, MoveTo, HandlersRun,
          TypeOK, CallerStates
<1>2. QueueOnce'
  BY QueueKept, JobFacts DEF IInv, Settle, durable, history, Handles, Deliver, MoveTo
<1>3. HandlersHaveWorkers'
  BY HandlersKept, JobFacts DEF IInv, Settle, durable, history, Handles, MoveTo
<1>4. WorkIsRegistered' /\ NoDuplicateWork'
  BY JobFacts
    DEF IInv, Settle, durable, history, Handles, Deliver, MoveTo, HandlersRun, TaskDone,
        TypeOK, WorkIsRegistered, NoDuplicateWork, Live
<1>5. RetryCountPersisted'
  BY JobFacts
    DEF IInv, Settle, durable, history, Handles, Deliver, MoveTo, HandlersRun, TaskDone,
        TypeOK, WorkIsRegistered, NoDuplicateWork, RetryCountPersisted
<1>6. SettlingIsNotOwed' /\ NoLostWork'
  BY JobFacts
    DEF IInv, Settle, durable, history, Handles, Deliver, MoveTo, HandlersRun, TaskDone,
        TypeOK, WorkIsRegistered, NoDuplicateWork, Live, RetryCountPersisted,
        SettlingIsNotOwed, NoLostWork
<1>7. SnapshotIsCurrent' /\ FreshStartsAtZero'
  BY JobFacts
    DEF IInv, Settle, durable, history, Handles, Deliver, MoveTo, HandlersRun, TaskDone,
        TypeOK, WorkIsRegistered, Live, SnapshotIsCurrent, FreshStartsAtZero
<1>8. SettledIsRecorded'
  BY JobFacts
    DEF IInv, Settle, durable, history, Handles, Deliver, MoveTo, HandlersRun, TaskDone,
        SettledIsRecorded
<1>9. ExchangesArePaid' /\ RetryBudget'
  BY JobFacts, ConstantsAssumption
    DEF IInv, Settle, durable, history, Handles, Deliver, MoveTo, HandlersRun, TaskDone,
        TypeOK, ExchangesArePaid, RetryBudget, RetryCountPersisted
<1>10. QED
  BY <1>1, <1>2, <1>3, <1>4, <1>5, <1>6, <1>7, <1>8, <1>9 DEF IInv

(* A handler that is interrupted leaves its row, or has settled the key    *)
(* before, whether or not its last statement takes effect.                 *)
LEMMA InterruptedPreserves ==
    ASSUME NEW j \in Jobs, IInv, stage[j] \in HandlerStages, Interrupted(j), MoveTo(j, "none"),
           TaskDone(j), phase \in {"running", "draining", "cancelling"},
           workers' \in 0..NumWorkers, HandlersHaveWorkers',
           UNCHANGED <<phase, stopping, boots, todo, caller, reg, queue, attempt, calls>>
    PROVE  IInv'
<1> DEFINE k == JobKey[j]
<1>1. \A i \in Jobs : i # j /\ Live(i) => JobKey[i] # k
  BY DEF IInv, NoDuplicateWork, Live
<1>2. /\ stage' = [stage EXCEPT ![j] = "none"] /\ k \in Keys
      /\ \A i \in Jobs : stage'[i] # "none" => stage'[i] = stage[i] /\ Live(i) /\ i # j
  BY JobFacts DEF IInv, TypeOK, MoveTo, Live
<1>3. PICK r : /\ inflight' = [inflight EXCEPT ![k] = r]
               /\ \/ r = inflight[k]
                  \/ r = NoRow /\ stage[j] \in {"clear", "success"} /\ owed' = owed
                  \/ stage[j] = "retry" /\ r = inflight[k] + 1
  BY <1>2 DEF IInv, TypeOK, Interrupted, durable, Incremented
<1>4. owed' \in {owed, owed \ {k}} /\ dlq' \in {dlq, dlq \cup {j}}
  BY DEF Interrupted, durable
<1>5. stage[j] = "retry" => attempt[j] < MaxRetries /\ inflight[k] = attempt[j]
  BY DEF IInv, ExchangesArePaid, RetryCountPersisted
<1>6. r \in Nat \cup {NoRow} /\ r <= MaxRetries /\ (r # NoRow => calls[k] <= r + boots)
  BY <1>2, <1>3, <1>5, Numbers DEF IInv, ExchangesArePaid
<1>7. \A i \in Keys : inflight'[i] = IF i = k THEN r ELSE inflight[i]
  BY <1>2, <1>3 DEF IInv, TypeOK
<1>8. \A i \in Jobs : Live(i) /\ i # j => inflight'[JobKey[i]] = inflight[JobKey[i]]
  BY <1>1, <1>7, JobFacts
<1>9. TypeOK'
  <2>1. inflight' \in [Keys -> Nat \cup {NoRow}]
    BY <1>2, <1>3, <1>6 DEF IInv, TypeOK
  <2>2. dlq' \subseteq Jobs /\ owed' \subseteq Keys
    BY <1>4 DEF IInv, TypeOK
  <2>3. drain' \in [Drains -> DrainStates]
    BY DrainTypes DEF IInv
  <2>4. QED
    BY <1>2, <2>1, <2>2, <2>3 DEF IInv, TypeOK
<1>10. QueueOnce'
  BY <1>2, QueueKept DEF IInv
<1> HIDE DEF k
<1>11. WorkIsRegistered' /\ NoDuplicateWork'
  BY <1>2 DEF IInv, WorkIsRegistered, NoDuplicateWork, Live
<1>12. RetryCountPersisted' /\ SettlingIsNotOwed' /\ SettledIsRecorded'
  <2>1. RetryCountPersisted'
    BY <1>2, <1>8 DEF IInv, RetryCountPersisted
  <2>2. SettlingIsNotOwed'
    BY <1>2, <1>4 DEF IInv, SettlingIsNotOwed
  <2>3. SettledIsRecorded'
    BY <1>2, <1>4, <1>8 DEF IInv, SettledIsRecorded
  <2>4. QED
    BY <2>1, <2>2, <2>3
<1>13. NoLostWork'
  <2>1. stage[j] \in {"clear", "success"} => k \notin owed
    BY DEF IInv, SettlingIsNotOwed, k
  <2>2. stage[j] = "retry" => r \in Nat
    <3>1. stage[j] = "retry" => inflight[k] \in Nat
      BY <1>5, Numbers DEF IInv
    <3>2. QED
      BY <1>3, <3>1
  <2>3. QED
    BY <1>3, <1>4, <1>7, <2>1, <2>2 DEF IInv, TypeOK, NoLostWork
<1>14. SnapshotIsCurrent' /\ FreshStartsAtZero'
  BY <1>2, JobFacts DEF IInv, TypeOK, SnapshotIsCurrent, FreshStartsAtZero, Live
<1>15. RetryBudget'
  BY DEF IInv, RetryBudget
<1>16. ExchangesArePaid'
  BY <1>2, <1>6, <1>7, <1>8, Numbers DEF IInv, ExchangesArePaid
<1>17. QED
  BY <1>9, <1>10, <1>11, <1>12, <1>13, <1>14, <1>15, <1>16 DEF IInv

(* A worker takes its item with it. *)
LEMMA WorkerDiesPreserves ==
    ASSUME NEW j \in Jobs, IInv, WorkerDies(j)
    PROVE  IInv'
<1>1. stage' = [stage EXCEPT ![j] = "none"] /\ j \in Busy
  BY DEF WorkerDies, MoveTo, Busy
<1>2. Busy' = Busy \ {j} /\ IsFiniteSet(Busy) /\ Cardinality(Busy) \in Nat
  BY <1>1, BusyMoves, "none" \notin HandlerStages DEF IInv
<1>3. Cardinality(Busy') = Cardinality(Busy) - 1 /\ Cardinality(Busy') \in Nat
  BY <1>1, <1>2, FS_RemoveElement, FS_CardinalityType
<1>4. workers' \in 0..NumWorkers /\ Cardinality(Busy') <= workers'
  BY <1>2, <1>3, ConstantsAssumption DEF IInv, TypeOK, HandlersHaveWorkers, WorkerDies
<1>5. HandlersHaveWorkers'
  BY <1>4 DEF WorkerDies, HandlersHaveWorkers, HandlersRun
<1>6. QED
  BY <1>4, <1>5, InterruptedPreserves DEF WorkerDies, HandlersRun

(* A retry is dropped, queued, or waits for a slot. *)
LEMMA WakePreserves ==
    ASSUME NEW j \in Jobs, IInv, Wake(j)
    PROVE  IInv'
<1>1. PICK s \in {"none", "queued", "requeue"} : stage' = [stage EXCEPT ![j] = s]
  BY PutPreserves DEF IInv, Wake, MoveTo
<1>2. queue' \in Seq(Jobs) /\ QueueOnce'
  <2>1. CASE stopping
    BY <2>1, QueueKept DEF IInv, TypeOK, Wake, MoveTo
  <2>2. CASE ~stopping
    BY <2>2, PutPreserves DEF IInv, Wake
  <2>3. QED
    BY <2>1, <2>2
<1>3. drain' \in [Drains -> DrainStates]
  BY DrainTypes DEF IInv, TypeOK, Wake
<1>4. TypeOK'
  BY <1>1, <1>2, <1>3 DEF IInv, TypeOK, Wake, durable, history
<1>5. HandlersHaveWorkers'
  BY <1>1, HandlersKept DEF IInv, Wake
<1>6. WorkIsRegistered' /\ NoDuplicateWork'
  BY <1>1 DEF IInv, TypeOK, Wake, WorkIsRegistered, NoDuplicateWork, Live
<1>7. RetryCountPersisted'
  BY <1>1 DEF IInv, TypeOK, Wake, durable, RetryCountPersisted
<1>8. SettlingIsNotOwed' /\ NoLostWork'
  BY <1>1 DEF IInv, TypeOK, Wake, durable, history, SettlingIsNotOwed, NoLostWork
<1>9. SnapshotIsCurrent' /\ FreshStartsAtZero'
  BY <1>1, JobFacts
    DEF IInv, TypeOK, Wake, durable, SnapshotIsCurrent, FreshStartsAtZero, Live
<1>10. SettledIsRecorded'
  BY <1>1, JobFacts DEF IInv, Wake, durable, history, PutOrWait, MoveTo, SettledIsRecorded
<1>11. ExchangesArePaid' /\ RetryBudget'
  BY <1>1, JobFacts, ConstantsAssumption
    DEF IInv, Wake, durable, history, PutOrWait, MoveTo, TypeOK, ExchangesArePaid,
        RetryBudget, ShouldRetry
<1>12. QED
  BY <1>2, <1>4, <1>5, <1>6, <1>7, <1>8, <1>9, <1>10, <1>11 DEF IInv

(* drain() moves no item, whoever called it. *)
LEMMA DrainReachesPreserves ==
    ASSUME IInv, NEW d \in Drains, NEW ph, phase = ph \/ (phase = "running" /\ ph = "draining"),
           DrainReaches(d, EnterJoin, ph) \/ DrainReaches(d, AfterJoin, ph),
           stopping' \in BOOLEAN,
           UNCHANGED <<boots, todo, caller, reg, durable, queue, stage, attempt, history>>
    PROVE  IInv'
<1>1. AfterJoin \in DrainStates /\ EnterJoin \in DrainStates
  BY DEF AfterJoin, EnterJoin, DrainOff, DrainStates
<1>2. \/ phase' = ph /\ workers' = workers
      \/ ph = "draining" /\ phase' = "cancelling" /\ workers' = 0
  BY DEF DrainReaches
<1>3. drain' \in [Drains -> DrainStates]
  BY <1>1 DEF IInv, TypeOK, DrainReaches
<1>4. workers' \in 0..NumWorkers
  BY <1>2, ConstantsAssumption DEF IInv, TypeOK
<1>5. TypeOK'
  BY <1>2, <1>3, <1>4 DEF IInv, durable, history, TypeOK, Phases
<1>6. QueueOnce' /\ HandlersHaveWorkers'
  BY <1>2 DEF IInv, QueueOnce, HandlersHaveWorkers, HandlersRun, Busy
<1>7. WorkIsRegistered' /\ NoDuplicateWork' /\ RetryCountPersisted'
  BY DEF IInv, durable, WorkIsRegistered, NoDuplicateWork, RetryCountPersisted, Live
<1>8. SettlingIsNotOwed' /\ NoLostWork'
  BY DEF IInv, durable, history, SettlingIsNotOwed, NoLostWork
<1>9. SnapshotIsCurrent' /\ FreshStartsAtZero' /\ SettledIsRecorded'
  BY <1>2, JobFacts
    DEF IInv, durable, history, SnapshotIsCurrent, FreshStartsAtZero, SettledIsRecorded, Live
<1>10. ExchangesArePaid' /\ RetryBudget'
  BY <1>2 DEF IInv, durable, history, ExchangesArePaid, RetryBudget
<1>11. QED
  BY <1>5, <1>6, <1>7, <1>8, <1>9, <1>10 DEF IInv

(* stop() and drain() do nothing else. *)
LEMMA DrainStepsPreserve ==
    ASSUME IInv, Stop \/ BeginDrain \/ \E d \in Drains : DrainChecks(d) \/ GatherReturns(d)
    PROVE  IInv'
<1>0. stopping \in BOOLEAN /\ "stop" \in Drains /\ "drain" \in Drains
  BY DEF IInv, TypeOK, Drains
<1>1. CASE Stop
  <2>1. stopping' \in BOOLEAN
    BY <1>1 DEF Stop
  <2>2. QED
    BY <1>0, <1>1, <2>1, DrainReachesPreserves DEF Stop
<1>2. CASE BeginDrain
  BY <1>0, <1>2, DrainReachesPreserves DEF BeginDrain
<1>3. CASE \E d \in Drains : DrainChecks(d) \/ GatherReturns(d)
  BY <1>0, <1>3, DrainReachesPreserves DEF DrainChecks, GatherReturns
<1>4. QED
  BY <1>1, <1>2, <1>3

(* A cancelled handler. *)
LEMMA CancelHandlerPreserves ==
    ASSUME NEW j \in Jobs, IInv, CancelHandler(j)
    PROVE  IInv'
<1>1. HandlersHaveWorkers'
  BY HandlersKept DEF IInv, CancelHandler, MoveTo
<1>2. workers' \in 0..NumWorkers
  BY DEF IInv, TypeOK, CancelHandler
<1>3. QED
  BY <1>1, <1>2, InterruptedPreserves DEF CancelHandler

(* The workers are gone when the storage closes. *)
LEMMA ClosePreserves ==
    ASSUME IInv, Close
    PROVE  IInv'
<1>1. TypeOK'
  BY JobFacts, ConstantsAssumption DEF IInv, Close, durable, history, TypeOK, Phases
<1>2. QueueOnce' /\ HandlersHaveWorkers'
  BY DEF IInv, Close, durable, history, QueueOnce, HandlersHaveWorkers, HandlersRun, Busy
<1>3. WorkIsRegistered' /\ NoDuplicateWork' /\ RetryCountPersisted'
  BY DEF IInv, Close, durable, history, WorkIsRegistered, NoDuplicateWork,
         RetryCountPersisted, Live
<1>4. SettlingIsNotOwed' /\ NoLostWork'
  BY DEF IInv, Close, durable, history, SettlingIsNotOwed, NoLostWork
<1>5. SnapshotIsCurrent' /\ FreshStartsAtZero' /\ SettledIsRecorded'
  BY JobFacts
    DEF IInv, Close, durable, history, SnapshotIsCurrent, FreshStartsAtZero,
        SettledIsRecorded, Live
<1>6. ExchangesArePaid' /\ RetryBudget'
  BY JobFacts, ConstantsAssumption
    DEF IInv, Close, durable, history, ExchangesArePaid, RetryBudget
<1>7. QED
  BY <1>1, <1>2, <1>3, <1>4, <1>5, <1>6 DEF IInv

(* Nothing is live after a crash, the rows stay. *)
LEMMA CrashPreserves ==
    ASSUME IInv, Crash
    PROVE  IInv'
<1>1. queue' \in Seq(Jobs) /\ workers' \in 0..NumWorkers
  BY ConstantsAssumption DEF Crash
<1>2. stopping' \in BOOLEAN
  BY DEF Crash
<1>3. caller' \in [Callers -> CallerStates]
  BY DEF IInv, TypeOK, Crash, CallerStates
<1>4. drain' \in [Drains -> DrainStates]
  BY DEF Crash, DrainOff, DrainStates
<1>5. TypeOK'
  BY <1>1, <1>2, <1>3, <1>4 DEF IInv, TypeOK, Crash, durable, history, Phases
<1>6. QueueOnce'
  BY JobFacts DEF IInv, Crash, durable, history, QueueOnce
<1>7. HandlersHaveWorkers'
  BY JobFacts
    DEF IInv, Crash, durable, history, DrainOff, HandlersHaveWorkers, Busy, HandlersRun
<1>8. WorkIsRegistered' /\ NoDuplicateWork'
  BY JobFacts
    DEF IInv, Crash, durable, history, DrainOff, TypeOK, WorkIsRegistered, NoDuplicateWork,
        Live
<1>9. RetryCountPersisted'
  BY JobFacts
    DEF IInv, Crash, durable, history, DrainOff, TypeOK, WorkIsRegistered, NoDuplicateWork,
        RetryCountPersisted
<1>10. SettlingIsNotOwed' /\ NoLostWork'
  BY JobFacts
    DEF IInv, Crash, durable, history, DrainOff, TypeOK, WorkIsRegistered, NoDuplicateWork,
        Live, RetryCountPersisted, SettlingIsNotOwed, NoLostWork
<1>11. SnapshotIsCurrent' /\ FreshStartsAtZero'
  BY JobFacts
    DEF IInv, Crash, durable, history, DrainOff, TypeOK, WorkIsRegistered, Live,
        SnapshotIsCurrent, FreshStartsAtZero
<1>12. SettledIsRecorded'
  BY JobFacts DEF IInv, Crash, durable, history, DrainOff, SettledIsRecorded
<1>13. ExchangesArePaid' /\ RetryBudget'
  BY JobFacts, ConstantsAssumption
    DEF IInv, Crash, durable, history, DrainOff, TypeOK, ExchangesArePaid, RetryBudget,
        RetryCountPersisted
<1>14. QED
  BY <1>5, <1>6, <1>7, <1>8, <1>9, <1>10, <1>11, <1>12, <1>13 DEF IInv

(* The empty tables of a client that never ran satisfy the invariant. *)
LEMMA InitEstablishes == Init => IInv
<1> SUFFICES ASSUME Init PROVE IInv
  OBVIOUS
<1>1. queue \in Seq(Jobs) /\ workers \in 0..NumWorkers /\ boots \in 0..MaxBoots
  BY ConstantsAssumption DEF Init
<1>2. stopping \in BOOLEAN
  BY DEF Init
<1>3. drain \in [Drains -> DrainStates]
  BY DEF Init, DrainOff, DrainStates
<1>4. TypeOK
  BY <1>1, <1>2, <1>3 DEF Init, TypeOK, Phases, CallerStates
<1>5. QueueOnce
  BY DEF Init, QueueOnce
<1>6. HandlersHaveWorkers
  BY DEF Init, HandlersHaveWorkers, HandlersRun, Busy
<1>7. WorkIsRegistered /\ NoDuplicateWork /\ FreshStartsAtZero
  BY JobFacts DEF Init, WorkIsRegistered, NoDuplicateWork, FreshStartsAtZero, Live
<1>8. RetryCountPersisted /\ SettlingIsNotOwed /\ NoLostWork /\ SnapshotIsCurrent
  BY DEF Init, RetryCountPersisted, SettlingIsNotOwed, NoLostWork, SnapshotIsCurrent
<1>9. SettledIsRecorded /\ ExchangesArePaid /\ RetryBudget
  BY JobFacts, ConstantsAssumption
    DEF Init, SettledIsRecorded, ExchangesArePaid, RetryBudget
<1>10. QED
  BY <1>4, <1>5, <1>6, <1>7, <1>8, <1>9 DEF IInv

(* A step that changes nothing. *)
LEMMA StutterPreserves ==
    ASSUME IInv, UNCHANGED vars
    PROVE  IInv'
<1>1. TypeOK' /\ QueueOnce' /\ HandlersHaveWorkers'
  BY DEF IInv, vars, control, durable, history, TypeOK, QueueOnce, HandlersHaveWorkers,
         HandlersRun, Busy
<1>2. WorkIsRegistered' /\ NoDuplicateWork' /\ FreshStartsAtZero'
  BY DEF IInv, vars, control, durable, history, WorkIsRegistered, NoDuplicateWork,
         FreshStartsAtZero, Live
<1>3. RetryCountPersisted' /\ SettlingIsNotOwed' /\ NoLostWork' /\ SnapshotIsCurrent'
  BY DEF IInv, vars, control, durable, history, RetryCountPersisted, SettlingIsNotOwed,
         NoLostWork, SnapshotIsCurrent
<1>4. SettledIsRecorded' /\ ExchangesArePaid' /\ RetryBudget'
  BY DEF IInv, vars, control, durable, history, SettledIsRecorded, ExchangesArePaid,
         RetryBudget
<1>5. QED
  BY <1>1, <1>2, <1>3, <1>4 DEF IInv

(* Every step of a client whose callers are not cancelled keeps IInv. *)
LEMMA NextPreserves ==
    ASSUME "cancel" \notin Events, IInv, [Next]_vars
    PROVE  IInv'
<1>1. CASE Recovery
  BY <1>1, StartPreserves, ListInflightPreserves, SpawnWorkersPreserves,
     RecoverRowPreserves, SkipRowPreserves
    DEF Recovery
<1>2. CASE \E c \in Callers : Upsert(c) \/ UpsertFails(c)
  BY <1>2, UpsertPreserves, UpsertFailsPreserves
<1>3. CASE \E j \in Jobs : Enqueue(j) \/ Wake(j)
  BY <1>3, EnqueuePreserves, WakePreserves
<1>4. CASE Handling
  <2>1. PICK j \in Jobs :
            \/ Take(j) \/ ShortCircuit(j) \/ Succeed(j) \/ Falter(j, TRUE) \/ Falter(j, FALSE)
            \/ IncrementRetry(j) \/ Schedule(j) \/ PushDeadLetter(j) \/ DeleteInflight(j)
            \/ Settle(j)
    BY <1>4 DEF Handling
  <2>2. QED
    BY <2>1, TakePreserves, ShortCircuitPreserves, SucceedPreserves, FalterPreserves,
       IncrementRetryPreserves, SchedulePreserves, PushDeadLetterPreserves,
       DeleteInflightPreserves, SettlePreserves
<1>5. CASE Shutdown
  BY <1>5, DrainStepsPreserve, ClosePreserves, CancelHandlerPreserves DEF Shutdown
<1>6. CASE Submission
  BY <1>6, RefusePreserves, AttachPreserves, OwnPreserves DEF Submission
<1>7. CASE Environment
  <2>1. ~ \E c \in Callers : CancelCaller(c)
    BY DEF CancelCaller
  <2>2. QED
    BY <1>7, <2>1, DrainStepsPreserve, CrashPreserves, WorkerDiesPreserves DEF Environment
<1>8. CASE Quiescent \/ UNCHANGED vars
  BY <1>8, StutterPreserves DEF Quiescent
<1>9. QED
  BY <1>1, <1>2, <1>3, <1>4, <1>5, <1>6, <1>7, <1>8 DEF Next, Progress

(* As long as no caller is cancelled, IInv holds throughout: through       *)
(* crashes, restarts, shutdowns, full queues and failing storage, for any  *)
(* number of callers, keys, workers, retries and starts.                   *)
THEOREM InductiveInvariant ==
    ASSUME "cancel" \notin Events
    PROVE  Spec => []IInv
<1>1. Init => IInv
  BY InitEstablishes
<1>2. IInv /\ [Next]_vars => IInv'
  BY NextPreserves
<1>3. QED
  BY <1>1, <1>2, PTL DEF Spec

(* The variables keep their types: retry counts are naturals, the number   *)
(* of workers stays in its range, the queue holds jobs.                    *)
THEOREM TypeCorrect ==
    ASSUME "cancel" \notin Events
    PROVE  Spec => []TypeOK
<1>1. IInv => TypeOK
  BY DEF IInv
<1>2. QED
  BY <1>1, InductiveInvariant, PTL

(* The registry admits at most one item per idempotency key at a time,     *)
(* from callers, retries and recovery together.                            *)
THEOREM NoDuplicateWorkHolds ==
    ASSUME "cancel" \notin Events
    PROVE  Spec => []NoDuplicateWork
<1>1. IInv => NoDuplicateWork
  BY DEF IInv
<1>2. QED
  BY <1>1, InductiveInvariant, PTL

(* An accepted request always has a row in inflight_requests until it has  *)
(* succeeded or is in the dead-letter queue.                               *)
THEOREM NoLostWorkHolds ==
    ASSUME "cancel" \notin Events
    PROVE  Spec => []NoLostWork
<1>1. IInv => NoLostWork
  BY DEF IInv
<1>2. QED
  BY <1>1, InductiveInvariant, PTL

(* The row's retry_count never falls behind nor overtakes the item that a  *)
(* restart would resume from it.                                           *)
THEOREM RetryCountPersistedHolds ==
    ASSUME "cancel" \notin Events
    PROVE  Spec => []RetryCountPersisted
<1>1. IInv => RetryCountPersisted
  BY DEF IInv
<1>2. QED
  BY <1>1, InductiveInvariant, PTL

(* A request costs at most MaxRetries + 1 exchanges and one more per       *)
(* start() after the first.                                                *)
THEOREM RetryBudgetHolds ==
    ASSUME "cancel" \notin Events
    PROVE  Spec => []RetryBudget
<1>1. IInv => RetryBudget
  BY DEF IInv
<1>2. QED
  BY <1>1, InductiveInvariant, PTL

(* Only resolve() and fail() answer a caller that waits; the step that     *)
(* runs them finds the row deleted and the dead letter written.            *)
LEMMA StepAnswersSettled ==
    ASSUME "cancel" \notin Events, IInv, [Next]_vars
    PROVE  [AnswerIsSettled]_vars
<1> SUFFICES ASSUME Next
             PROVE  AnswerIsSettled
  OBVIOUS
<1>1. ASSUME NEW j \in Jobs, Settle(j)
      PROVE  AnswerIsSettled
  BY <1>1, JobFacts
    DEF AnswerIsSettled, Settle, Handles, Deliver, durable, IInv, SettledIsRecorded
<1>2. ASSUME ~ \E j \in Jobs : Settle(j)
      PROVE  \A c \in Callers : caller[c] = "attached" => caller'[c] \notin {"ok", "failed"}
  <2>1. caller \in [Callers -> CallerStates]
    BY DEF IInv, TypeOK
  <2>2. CASE Recovery
    BY <2>2 DEF Recovery, Start, ListInflight, SpawnWorkers, RecoverRow, SkipRow
  <2>3. CASE \E c \in Callers : Upsert(c) \/ UpsertFails(c)
    BY <2>1, <2>3 DEF Upsert, UpsertFails
  <2>4. CASE \E j \in Jobs : Enqueue(j) \/ Wake(j)
    BY <2>4 DEF Enqueue, Wake
  <2>5. CASE Handling
    BY <1>2, <2>5
      DEF Handling, Take, ShortCircuit, Succeed, Falter, IncrementRetry, Schedule,
          PushDeadLetter, DeleteInflight
  <2>6. CASE Shutdown
    BY <2>6 DEF Shutdown, DrainChecks, GatherReturns, Close, CancelHandler
  <2>7. CASE Submission
    BY <2>1, <2>7 DEF Submission, Refuse, Attach, Own
  <2>8. CASE Environment
    BY <2>1, <2>8 DEF Environment, Stop, BeginDrain, Crash, WorkerDies, CancelCaller
  <2>9. CASE Quiescent
    BY <2>9 DEF Quiescent, vars
  <2>10. QED
    BY <2>2, <2>3, <2>4, <2>5, <2>6, <2>7, <2>8, <2>9 DEF Next, Progress
<1>3. QED
  BY <1>1, <1>2 DEF AnswerIsSettled

(* A caller is answered only when no crash can undo or repeat what it was  *)
(* told: the row is gone, and the dead letter is there if it failed.       *)
THEOREM AnsweredAfterSettledHolds ==
    ASSUME "cancel" \notin Events
    PROVE  Spec => AnsweredAfterSettled
<1>1. IInv /\ [Next]_vars => [AnswerIsSettled]_vars
  BY StepAnswersSettled
<1>2. QED
  BY <1>1, InductiveInvariant, PTL DEF Spec, AnsweredAfterSettled
-----------------------------------------------------------------------------
(* The end of stop() *)

(* Handlers run only between SpawnWorkers and Close, and nobody sleeps     *)
(* before a retry once drain() has let stop() go on to cancel the workers. *)
NoLateWork ==
    /\ stage \in [Jobs -> Stages]
    /\ phase \notin {"running", "draining", "cancelling"} =>
          \A j \in Jobs : stage[j] \notin HandlerStages
    /\ phase \notin {"running", "draining"} =>
          \A j \in Jobs : stage[j] \notin RescheduleStages

(* drain() returns to stop() only when it has found no pending reschedule. *)
LEMMA DrainLeavesNoRetry ==
    ASSUME NoLateWork, NEW d, NEW ph, phase = ph \/ (phase = "running" /\ ph = "draining"),
           DrainReaches(d, EnterJoin, ph) \/ DrainReaches(d, AfterJoin, ph), stage' = stage
    PROVE  NoLateWork'
<1>1. CASE \E j \in Jobs : stage[j] \in RescheduleStages
  <2>1. AfterJoin.pc = "gather" /\ EnterJoin.pc \in {"gather", "join"}
    BY <1>1 DEF AfterJoin, EnterJoin
  <2>2. phase' = ph
    BY <2>1 DEF DrainReaches
  <2>3. QED
    BY <2>2 DEF NoLateWork
<1>2. CASE ~ \E j \in Jobs : stage[j] \in RescheduleStages
  <2>1. phase' = ph \/ (ph = "draining" /\ phase' = "cancelling")
    BY DEF DrainReaches
  <2>2. QED
    BY <1>2, <2>1 DEF NoLateWork
<1>3. QED
  BY <1>1, <1>2

(* Whatever is cancelled, refused or fails, no step starts work for a      *)
(* session that is closed.                                                 *)
LEMMA NoLateWorkPreserved ==
    ASSUME NoLateWork, [Next]_vars
    PROVE  NoLateWork'
<1>1. CASE Recovery
  <2>1. CASE Start \/ ListInflight \/ SpawnWorkers
    BY <2>1 DEF Start, ListInflight, SpawnWorkers, NoLateWork
  <2>2. CASE \E k \in Keys : RecoverRow(k) \/ SkipRow(k)
    <3>1. \/ stage' = stage
          \/ \E k \in Keys, s \in {"queued", "enqueue"} :
                stage' = [stage EXCEPT ![<<k, boots>>] = s]
      BY <2>2 DEF RecoverRow, SkipRow, PutOrWait, MoveTo
    <3>2. phase' = phase
      BY <2>2 DEF RecoverRow, SkipRow
    <3>3. QED
      BY <3>1, <3>2 DEF NoLateWork
  <2>3. QED
    BY <1>1, <2>1, <2>2 DEF Recovery
<1>2. CASE \E c \in Callers : Upsert(c) \/ UpsertFails(c)
  BY <1>2 DEF Upsert, UpsertFails, control, MoveTo, NoLateWork
<1>3. ASSUME NEW j \in Jobs, Enqueue(j) \/ Wake(j)
      PROVE  NoLateWork'
  BY <1>3 DEF Enqueue, Wake, PutOrWait, MoveTo, NoLateWork
<1>4. CASE Handling
  <2>1. PICK j \in Jobs :
            \/ Take(j) \/ ShortCircuit(j) \/ Succeed(j) \/ Falter(j, TRUE) \/ Falter(j, FALSE)
            \/ IncrementRetry(j) \/ Schedule(j) \/ PushDeadLetter(j) \/ DeleteInflight(j)
            \/ Settle(j)
    BY <1>4 DEF Handling
  <2>2. phase \in {"running", "draining"} /\ phase' = phase
    BY <2>1
      DEF Take, ShortCircuit, CanTake, Succeed, Falter, IncrementRetry, Schedule,
          PushDeadLetter, DeleteInflight, Settle, Handles, HandlersRun, control
  <2>3. stage' \in [Jobs -> Stages]
    BY <2>1
      DEF Take, ShortCircuit, Succeed, Falter, IncrementRetry, Schedule, PushDeadLetter,
          DeleteInflight, Settle, RetryOrBury, MoveTo, NoLateWork
  <2>4. QED
    BY <2>2, <2>3 DEF NoLateWork
<1>5. CASE \E d \in Drains : DrainChecks(d) \/ GatherReturns(d)
  BY <1>5, DrainLeavesNoRetry DEF DrainChecks, GatherReturns
<1>6. CASE Close \/ \E j \in Jobs : CancelHandler(j)
  BY <1>6 DEF Close, Busy, CancelHandler, MoveTo, control, NoLateWork
<1>7. CASE Submission
  BY <1>7 DEF Submission, Refuse, Attach, Own, MoveTo, control, NoLateWork
<1>8. CASE Stop \/ BeginDrain
  BY <1>8, DrainLeavesNoRetry DEF Stop, BeginDrain
<1>9. CASE Crash
  BY <1>9 DEF Crash, NoLateWork
<1>10. CASE \E j \in Jobs : WorkerDies(j)
  BY <1>10 DEF WorkerDies, HandlersRun, MoveTo, NoLateWork
<1>11. CASE \E c \in Callers : CancelCaller(c)
  BY <1>11 DEF CancelCaller, MoveTo, control, NoLateWork
<1>12. CASE Quiescent \/ UNCHANGED vars
  BY <1>12 DEF Quiescent, vars, control, NoLateWork
<1>13. QED
  BY <1>1, <1>2, <1>3, <1>4, <1>5, <1>6, <1>7, <1>8, <1>9, <1>10, <1>11, <1>12
    DEF Next, Progress, Shutdown, Environment

(* After stop() has closed the session and the storage no handler and no   *)
(* _reschedule task is left that would use them.  This holds for every set *)
(* of events, cancelled callers included.                                  *)
THEOREM NothingOutlivesStopHolds == Spec => []NothingOutlivesStop
<1>1. Init => NoLateWork
  BY DEF Init, NoLateWork
<1>2. NoLateWork /\ [Next]_vars => NoLateWork'
  BY NoLateWorkPreserved
<1>3. NoLateWork => NothingOutlivesStop
  BY DEF NoLateWork, NothingOutlivesStop
<1>4. QED
  BY <1>1, <1>2, <1>3, PTL DEF Spec
-----------------------------------------------------------------------------
(* Waiters and rows, as long as nothing disturbs the client but crashes *)

(* The client is never stopped; without a process there are no items. *)
NeverStopped ==
    /\ phase \in {"down", "opening", "recovering", "running"} /\ ~stopping
    /\ phase = "down" => \A j \in Jobs : ~Live(j)

(* A pending future has an item that will settle it, a waiting caller has  *)
(* a pending future.                                                       *)
FuturesHaveWork ==
    /\ \A k \in Keys : reg[k] = "pending" => \E j \in Jobs : Live(j) /\ JobKey[j] = k
    /\ \A c \in Callers : caller[c] = "attached" => reg[KeyOf[c]] = "pending"

(* Recovery has listed every row whose key is still free, and has taken    *)
(* the key of every row when it is over.                                   *)
RowsAreTaken ==
    /\ phase = "recovering" =>
          \A k \in Keys : inflight[k] # NoRow /\ reg[k] = "none" => todo[k] # NoRow
    /\ phase = "running" => \A k \in Keys : inflight[k] # NoRow => reg[k] = "pending"

Served == NeverStopped /\ FuturesHaveWork /\ RowsAreTaken

(* A step that moves an item but does not end it leaves every future its   *)
(* item, and the rows that remain their futures.                           *)
LEMMA MoveServes ==
    ASSUME TypeOK, Served, NEW j \in Jobs, NEW s \in Stages, s # "none",
           stage' = [stage EXCEPT ![j] = s],
           stage[j] # "none" \/ phase # "down",
           \A k \in Keys : inflight'[k] # NoRow => inflight[k] # NoRow \/ reg[k] = "pending",
           UNCHANGED <<phase, stopping, todo, caller, reg>>
    PROVE  Served'
<1>1. stage \in [Jobs -> Stages] /\ reg \in [Keys -> {"none", "pending", "cancelled"}]
  BY DEF TypeOK
<1>2. \A i \in Jobs : Live(i) => Live(i)'
  BY <1>1 DEF Live
<1>3. NeverStopped'
  BY <1>1 DEF Served, NeverStopped, Live
<1>4. FuturesHaveWork'
  BY <1>2 DEF Served, FuturesHaveWork
<1>5. RowsAreTaken'
  BY <1>1 DEF Served, RowsAreTaken
<1>6. QED
  BY <1>3, <1>4, <1>5 DEF Served

(* start() and recovery: a row is skipped only if its key has an item. *)
LEMMA RecoveryServes ==
    ASSUME IInv, Served, Recovery
    PROVE  Served'
<1>0. /\ stage \in [Jobs -> Stages] /\ reg \in [Keys -> {"none", "pending"}]
      /\ boots \in 0..MaxBoots /\ (phase # "down" => boots > 0)
      /\ todo \in [Keys -> Nat \cup {NoRow}]
  BY DEF IInv, TypeOK, WorkIsRegistered
<1>1. CASE Start
  BY <1>1 DEF Start, durable, Served, NeverStopped, FuturesHaveWork, RowsAreTaken, Live
<1>2. CASE ListInflight
  BY <1>2 DEF ListInflight, durable, Served, NeverStopped, FuturesHaveWork, RowsAreTaken, Live
<1>3. CASE SpawnWorkers
  <2>1. NeverStopped'
    BY <1>3 DEF SpawnWorkers, NeverStopped
  <2>2. FuturesHaveWork'
    BY <1>3 DEF SpawnWorkers, Served, FuturesHaveWork, Live
  <2>3. RowsAreTaken'
    BY <1>0, <1>3 DEF SpawnWorkers, durable, Served, RowsAreTaken
  <2>4. QED
    BY <2>1, <2>2, <2>3 DEF Served
<1>4. ASSUME NEW k \in Keys, RecoverRow(k)
      PROVE  Served'
  <2>0. PICK j : j = <<k, boots>>
    OBVIOUS
  <2>1. j \in Jobs /\ JobKey[j] = k
    BY <1>0, <1>4, <2>0, JobFacts DEF RecoverRow
  <2>2. PICK s \in {"queued", "enqueue"} : stage' = [stage EXCEPT ![j] = s]
    BY <1>4, <2>0 DEF RecoverRow, PutOrWait, MoveTo
  <2>3. \A i \in Jobs : Live(i) \/ i = j => Live(i)'
    BY <1>0, <2>2 DEF Live
  <2>4. /\ reg' = [reg EXCEPT ![k] = "pending"] /\ todo' = [todo EXCEPT ![k] = NoRow]
        /\ phase = "recovering" /\ UNCHANGED <<phase, stopping, caller, inflight>>
    BY <1>4 DEF RecoverRow, durable
  <2>5. NeverStopped'
    BY <2>4 DEF Served, NeverStopped
  <2>6. FuturesHaveWork'
    BY <1>0, <2>1, <2>3, <2>4, JobFacts DEF Served, FuturesHaveWork
  <2>7. RowsAreTaken'
    BY <1>0, <2>4 DEF Served, RowsAreTaken
  <2>8. QED
    BY <2>5, <2>6, <2>7 DEF Served
<1>5. ASSUME NEW k \in Keys, SkipRow(k)
      PROVE  Served'
  <2>1. /\ todo' = [todo EXCEPT ![k] = NoRow] /\ reg[k] = "pending" /\ phase = "recovering"
        /\ UNCHANGED <<phase, stopping, caller, inflight, stage, reg>>
    BY <1>5 DEF SkipRow, durable
  <2>2. NeverStopped' /\ FuturesHaveWork'
    BY <2>1 DEF Served, NeverStopped, FuturesHaveWork, Live
  <2>3. RowsAreTaken'
    BY <1>0, <2>1 DEF Served, RowsAreTaken
  <2>4. QED
    BY <2>2, <2>3 DEF Served
<1>6. QED
  BY <1>1, <1>2, <1>3, <1>4, <1>5 DEF Recovery

(* An owner brings its item with it, the others attach to one that exists. *)
LEMMA SubmissionServes ==
    ASSUME IInv, Served, NEW c \in Callers, Refuse(c) \/ Attach(c) \/ Own(c)
    PROVE  Served'
<1>0. /\ stage \in [Jobs -> Stages] /\ reg \in [Keys -> {"none", "pending"}]
      /\ caller \in [Callers -> CallerStates] /\ c \in Jobs /\ KeyOf[c] \in Keys
      /\ JobKey[c] = KeyOf[c] /\ \A d \in Callers : KeyOf[d] \in Keys
  BY JobFacts DEF IInv, TypeOK, WorkIsRegistered
<1>1. ~Refuse(c)
  BY DEF Refuse, Served, NeverStopped
<1>2. CASE Attach(c)
  <2>1. NeverStopped' /\ RowsAreTaken'
    BY <1>2 DEF Attach, control, durable, Served, NeverStopped, RowsAreTaken, Live
  <2>2. FuturesHaveWork'
    BY <1>0, <1>2 DEF Attach, Served, FuturesHaveWork, Live
  <2>3. QED
    BY <2>1, <2>2 DEF Served
<1>3. CASE Own(c)
  <2>1. /\ stage' = [stage EXCEPT ![c] = "upsert"] /\ reg' = [reg EXCEPT ![KeyOf[c]] = "pending"]
        /\ caller' = [caller EXCEPT ![c] = "attached"] /\ phase # "down"
        /\ UNCHANGED <<phase, stopping, todo, inflight>>
    BY <1>3 DEF Own, MoveTo, HasSession, control, durable
  <2>2. \A i \in Jobs : Live(i) \/ i = c => Live(i)'
    BY <1>0, <2>1 DEF Live
  <2>3. NeverStopped'
    BY <2>1 DEF Served, NeverStopped
  <2>4. FuturesHaveWork'
    BY <1>0, <2>1, <2>2 DEF Served, FuturesHaveWork
  <2>5. RowsAreTaken'
    BY <1>0, <2>1 DEF Served, RowsAreTaken
  <2>6. QED
    BY <2>3, <2>4, <2>5 DEF Served
<1>4. QED
  BY <1>1, <1>2, <1>3

(* resolve() and fail() answer everyone who waits for the key, whose row   *)
(* is gone.                                                                *)
LEMMA SettleServes ==
    ASSUME IInv, Served, NEW j \in Jobs, Settle(j)
    PROVE  Served'
<1>0. /\ stage \in [Jobs -> Stages] /\ reg \in [Keys -> {"none", "pending"}]
      /\ JobKey[j] \in Keys /\ \A d \in Callers : KeyOf[d] \in Keys
  BY JobFacts DEF IInv, TypeOK, WorkIsRegistered
<1>1. /\ stage' = [stage EXCEPT ![j] = "none"] /\ reg' = [reg EXCEPT ![JobKey[j]] = "none"]
      /\ stage[j] \in {"resolve", "fail"} /\ phase \in {"running", "draining"}
      /\ UNCHANGED <<phase, stopping, todo, inflight>>
  BY DEF Settle, Handles, HandlersRun, MoveTo, durable
<1>2. \A c \in Callers : caller'[c] = "attached" => caller[c] = "attached" /\ KeyOf[c] # JobKey[j]
  BY DEF Settle, Deliver
<1>3. \A i \in Jobs : Live(i) /\ JobKey[i] # JobKey[j] => Live(i)'
  BY <1>0, <1>1 DEF Live
<1>4. NeverStopped'
  BY <1>1 DEF Served, NeverStopped
<1>5. FuturesHaveWork'
  BY <1>0, <1>1, <1>2, <1>3 DEF Served, FuturesHaveWork
<1>6. inflight[JobKey[j]] = NoRow
  BY <1>1 DEF IInv, SettledIsRecorded
<1>7. RowsAreTaken'
  BY <1>0, <1>1, <1>6 DEF Served, NeverStopped, RowsAreTaken
<1>8. QED
  BY <1>4, <1>5, <1>7 DEF Served
(* The other steps of the workers keep the item in the process and make no *)
(* row.                                                                    *)
LEMMA HandlingServes ==
    ASSUME IInv, Served, Handling
    PROVE  Served'
<1>0. TypeOK
  BY DEF IInv
<1>1. PICK j \in Jobs :
          \/ Take(j) \/ ShortCircuit(j) \/ Succeed(j) \/ Falter(j, TRUE) \/ Falter(j, FALSE)
          \/ IncrementRetry(j) \/ Schedule(j) \/ PushDeadLetter(j) \/ DeleteInflight(j)
          \/ Settle(j)
  BY DEF Handling
<1>2. CASE Settle(j)
  BY <1>2, SettleServes
<1>3. CASE ~Settle(j)
  <2>1. \E s \in Stages : s # "none" /\ stage' = [stage EXCEPT ![j] = s]
    BY <1>1, <1>3
      DEF Take, ShortCircuit, Succeed, Falter, IncrementRetry, Schedule, PushDeadLetter,
          DeleteInflight, RetryOrBury, MoveTo
  <2>2. phase \in {"running", "draining"} /\ UNCHANGED <<phase, stopping, todo, caller, reg>>
    BY <1>1, <1>3
      DEF Take, ShortCircuit, CanTake, Succeed, Falter, IncrementRetry, Schedule,
          PushDeadLetter, DeleteInflight, Handles, HandlersRun, control
  <2>3. \A k \in Keys : inflight'[k] # NoRow => inflight[k] # NoRow
    <3>1. inflight \in [Keys -> Nat \cup {NoRow}]
      BY <1>0 DEF TypeOK
    <3>2. CASE IncrementRetry(j)
      BY <3>1, <3>2 DEF IncrementRetry, Incremented
    <3>3. CASE DeleteInflight(j)
      BY <3>1, <3>3 DEF DeleteInflight
    <3>4. CASE ~IncrementRetry(j) /\ ~DeleteInflight(j)
      BY <1>1, <1>3, <3>4
        DEF Take, ShortCircuit, Succeed, Falter, Schedule, PushDeadLetter, durable
    <3>5. QED
      BY <3>2, <3>3, <3>4
  <2>4. QED
    BY <1>0, <2>1, <2>2, <2>3, MoveServes
<1>4. QED
  BY <1>2, <1>3

(* The row of a submission belongs to its owner's future; a slot in the    *)
(* queue, a retry that wakes: the item stays in the process.               *)
LEMMA QueueingServes ==
    ASSUME IInv, Served, NEW j \in Jobs,
           (j \in Callers /\ Upsert(j)) \/ Enqueue(j) \/ Wake(j)
    PROVE  Served'
<1>0. TypeOK /\ stage[j] # "none" /\ ~stopping
  BY DEF IInv, Upsert, Enqueue, Wake, Served, NeverStopped
<1>1. \E s \in Stages : s # "none" /\ stage' = [stage EXCEPT ![j] = s]
  BY <1>0 DEF Upsert, Enqueue, Wake, PutOrWait, MoveTo
<1>2. UNCHANGED <<phase, stopping, todo, caller, reg>>
  BY DEF Upsert, Enqueue, Wake, control
<1>3. \A k \in Keys : inflight'[k] # NoRow => inflight[k] # NoRow \/ reg[k] = "pending"
  <2>1. CASE j \in Callers /\ Upsert(j)
    <3>1. reg[KeyOf[j]] = "pending"
      BY <1>0, <2>1, JobFacts DEF IInv, WorkIsRegistered, Live
    <3>2. inflight \in [Keys -> Nat \cup {NoRow}] /\ inflight' = [inflight EXCEPT ![KeyOf[j]] = 0]
      BY <1>0, <2>1 DEF TypeOK, Upsert, Accept
    <3>3. QED
      BY <3>1, <3>2
  <2>2. CASE Enqueue(j) \/ Wake(j)
    BY <2>2 DEF Enqueue, Wake, durable
  <2>3. QED
    BY <2>1, <2>2
<1>4. QED
  BY <1>0, <1>1, <1>2, <1>3, MoveServes

(* Every step of a client that nobody stops or cancels and whose storage   *)
(* does not fail keeps its callers and its rows served.                    *)
LEMMA NextServes ==
    ASSUME Events \subseteq {"crash", "drain", "restart"}, IInv, Served, [Next]_vars
    PROVE  Served'
<1>1. CASE Recovery
  BY <1>1, RecoveryServes
<1>2. ASSUME NEW c \in Callers, Upsert(c) \/ UpsertFails(c)
      PROVE  Served'
  <2>1. c \in Jobs
    BY JobFacts
  <2>2. ~UpsertFails(c)
    BY <2>1 DEF UpsertFails, HasSession, Served, NeverStopped, Live
  <2>3. QED
    BY <1>2, <2>1, <2>2, QueueingServes
<1>3. CASE \E j \in Jobs : Enqueue(j) \/ Wake(j)
  BY <1>3, QueueingServes
<1>4. CASE Handling
  BY <1>4, HandlingServes
<1>5. CASE BeginDrain \/ \E d \in Drains : DrainChecks(d) \/ GatherReturns(d)
  <2>1. /\ phase' = phase
        /\ UNCHANGED <<stopping, todo, caller, reg, inflight, stage>>
    BY <1>5
      DEF DrainChecks, GatherReturns, BeginDrain, DrainReaches, durable, Served, NeverStopped
  <2>2. QED
    BY <2>1 DEF Served, NeverStopped, FuturesHaveWork, RowsAreTaken, Live
<1>6. ~Close /\ ~Stop /\ \A j \in Jobs : ~CancelHandler(j) /\ ~WorkerDies(j)
  BY DEF Close, Stop, CancelHandler, WorkerDies, Served, NeverStopped
<1>7. \A c \in Callers : ~CancelCaller(c)
  BY DEF CancelCaller
<1>8. CASE Submission
  BY <1>8, SubmissionServes DEF Submission
<1>9. CASE Crash
  BY <1>9 DEF Crash, durable, Served, NeverStopped, FuturesHaveWork, RowsAreTaken, Live
<1>10. CASE Quiescent \/ UNCHANGED vars
  BY <1>10
    DEF Quiescent, vars, control, durable, Served, NeverStopped, FuturesHaveWork,
        RowsAreTaken, Live
<1>11. QED
  BY <1>1, <1>2, <1>3, <1>4, <1>5, <1>6, <1>7, <1>8, <1>9, <1>10
    DEF Next, Progress, Shutdown, Environment

(* Unless the client is stopped, a caller is cancelled or the storage      *)
(* fails, every future has its item, every waiting caller its future and   *)
(* every row its place in recovery.                                        *)
THEOREM ServedThroughout ==
    ASSUME Events \subseteq {"crash", "drain", "restart"}
    PROVE  Spec => []Served
<1>1. Init => Served
  BY DEF Init, Served, NeverStopped, FuturesHaveWork, RowsAreTaken, Live
<1>2. Spec => []IInv
  BY InductiveInvariant
<1>3. IInv /\ Served /\ [Next]_vars => Served'
  BY NextServes
<1>4. QED
  BY <1>1, <1>2, <1>3, PTL DEF Spec

(* With crashes, drains and full queues in any order, a caller that waits  *)
(* in request() always has an item in the process that will wake it.       *)
THEOREM WaitersHaveWorkHolds ==
    ASSUME Events \subseteq {"crash", "drain", "restart"}
    PROVE  Spec => []WaitersHaveWork
<1>1. Served => WaitersHaveWork
  BY JobFacts DEF Served, FuturesHaveWork, WaitersHaveWork
<1>2. QED
  BY <1>1, ServedThroughout, PTL

(* When start() has returned, no row waits for another restart: recovery   *)
(* has enqueued it or an item of its key was there before.                 *)
THEOREM RowsHaveWorkHolds ==
    ASSUME Events \subseteq {"crash", "drain", "restart"}
    PROVE  Spec => []RowsHaveWork
<1>1. Served => RowsHaveWork
  BY DEF Served, FuturesHaveWork, RowsAreTaken, RowsHaveWork
<1>2. QED
  BY <1>1, ServedThroughout, PTL

====
