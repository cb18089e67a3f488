--------------------------- MODULE HardenedClient ---------------------------
(***************************************************************************)
(* The request lifecycle of AsyncHardenedClient                            *)
(* (src/async_hardened_client/client.py): submission and deduplication,    *)
(* the bounded queue, the worker pool, retries, the dead-letter queue,     *)
(* graceful shutdown, crash and recovery.                                  *)
(*                                                                         *)
(* Everything runs on one event loop, so a step of the model is what one   *)
(* coroutine does between two suspension points.  The locks of the dedup   *)
(* registry and of the circuit breaker are never held across an await:     *)
(* their critical sections are atomic.  A storage operation takes effect   *)
(* at its COMMIT, in aiosqlite's thread; the coroutine that issued it      *)
(* resumes later, so there is a stage before and a stage after it.         *)
(*                                                                         *)
(* A job is one lineage of QueueItems: the one an owning caller enqueues,  *)
(* or the one that recovery enqueues for a row it found.  Its stage says   *)
(* where the item is and which coroutine acts next.  A caller is one       *)
(* invocation of request().  Workers are interchangeable, so only their    *)
(* number is kept.                                                         *)
(***************************************************************************)
EXTENDS Integers, Sequences, FiniteSets

CONSTANTS
    Callers,      \* the invocations of request()
    Keys,         \* idempotency keys
    KeyOf,        \* the idempotency key of each caller's Request
    NumWorkers,   \* QueueConfig.workers
    QueueSize,    \* QueueConfig.max_size
    MaxRetries,   \* RetryPolicy.max_retries
    MaxBoots,     \* bound: how often start() is called
    Events        \* the environment's events that may happen, a subset of AllEvents

AllEvents == {"crash", "stop", "restart", "drain", "cancel", "upsertError", "storageError"}

(* The jobs that recovery creates: at most one per row and per start(). *)
Recovered == Keys \X (1..MaxBoots)
Jobs      == Callers \cup Recovered

ASSUME ConstantsAssumption ==
    /\ IsFiniteSet(Callers)
    /\ IsFiniteSet(Keys)
    /\ KeyOf \in [Callers -> Keys]
    /\ Callers \cap Recovered = {}
    /\ NumWorkers \in Nat \ {0}
    /\ QueueSize \in Nat \ {0}
    /\ MaxRetries \in Nat
    /\ MaxBoots \in Nat
    /\ Events \subseteq AllEvents

JobKey == [j \in Jobs |-> IF j \in Callers THEN KeyOf[j] ELSE j[1]]

VARIABLES
    phase,      \* progress of start() and stop(); "down" when there is no process
    stopping,   \* self._stopping
    boots,      \* how often start() has run
    workers,    \* worker tasks that are alive
    caller,     \* what each invocation of request() is doing, or how it ended
    reg,        \* InFlightRegistry._inflight: the state of each key's future
    inflight,   \* table inflight_requests: retry_count per key, or NoRow
    dlq,        \* table dead_letter_queue: the jobs whose rows are in it
    queue,      \* RequestQueue
    stage,      \* where each job is
    attempt,    \* QueueItem.attempt of each job
    todo,       \* rows that list_inflight() returned and the loop has still to visit
    drain,      \* where the coroutines in drain() are, that of stop() and another one
    owed,       \* history: keys accepted, and since then neither succeeded nor dead-lettered
    calls       \* history: HTTP exchanges per key since its last acceptance

durable == <<inflight, dlq>>
history == <<owed, calls>>
control == <<phase, stopping, boots, workers, drain, todo>>
vars    == <<control, caller, reg, durable, queue, stage, attempt, history>>

NoRow == -1

(* Stages in which a worker holds the job: task_done() is still to come. *)
HandlerStages ==
    {"execute", "retry", "schedule", "bury", "clear", "fail", "success", "resolve"}
(* Stages in which a _reschedule task holds the job. *)
RescheduleStages == {"sleep", "requeue"}
Stages == {"none", "upsert", "enqueue", "queued"} \cup HandlerStages \cup RescheduleStages

Phases == {"down", "opening", "recovering", "running", "draining", "cancelling", "stopped"}
CallerStates == {"idle", "attached", "ok", "failed", "error", "cancelled", "lost"}
(* Who calls drain(): stop(), or the application on its own. *)
Drains == {"stop", "drain"}
DrainStates == [pc : {"off", "join", "check", "gather"}, waiting : SUBSET Jobs]

TypeOK ==
    /\ phase \in Phases
    /\ stopping \in BOOLEAN
    /\ boots \in 0..MaxBoots
    /\ phase # "down" => boots > 0
    /\ workers \in 0..NumWorkers
    /\ caller \in [Callers -> CallerStates]
    /\ reg \in [Keys -> {"none", "pending", "cancelled"}]
    /\ inflight \in [Keys -> Nat \cup {NoRow}]
    /\ dlq \subseteq Jobs
    /\ queue \in Seq(Jobs)
    /\ stage \in [Jobs -> Stages]
    /\ attempt \in [Jobs -> Nat]
    /\ todo \in [Keys -> Nat \cup {NoRow}]
    /\ drain \in [Drains -> DrainStates]
    /\ owed \subseteq Keys
    /\ calls \in [Keys -> Nat]

DrainOff == [pc |-> "off", waiting |-> {}]

Init ==
    /\ phase = "down"
    /\ stopping = FALSE
    /\ boots = 0
    /\ workers = 0
    /\ caller = [c \in Callers |-> "idle"]
    /\ reg = [k \in Keys |-> "none"]
    /\ inflight = [k \in Keys |-> NoRow]
    /\ dlq = {}
    /\ queue = <<>>
    /\ stage = [j \in Jobs |-> "none"]
    /\ attempt = [j \in Jobs |-> 0]
    /\ todo = [k \in Keys |-> NoRow]
    /\ drain = [d \in Drains |-> DrainOff]
    /\ owed = {}
    /\ calls = [k \in Keys |-> 0]

-----------------------------------------------------------------------------
(* Helpers *)

Live(j) == stage[j] # "none"

MoveTo(j, s) == stage' = [stage EXCEPT ![j] = s]

(* Mutant: put_nowait() whose QueueFull is ignored. *)
PutOrDrop(j, waiting) ==
    IF Len(queue) < QueueSize
    THEN /\ queue' = Append(queue, j)
         /\ MoveTo(j, "queued")
    ELSE /\ MoveTo(j, "none")
         /\ UNCHANGED queue

(* asyncio.Queue.put: immediate when there is room, otherwise the putter waits. *)
PutOrWait(j, waiting) ==
    IF Len(queue) < QueueSize
    THEN /\ queue' = Append(queue, j)
         /\ MoveTo(j, "queued")
    ELSE /\ MoveTo(j, waiting)
         /\ UNCHANGED queue

(* What wakes up every coroutine that awaits the key's future: resolve(),  *)
(* fail(), or the cancellation of one of them.  At most one future per key *)
(* is pending, so the callers attached to it are those still waiting.      *)
Deliver(k, outcome) ==
    caller' = [c \in Callers |->
                 IF caller[c] = "attached" /\ KeyOf[c] = k THEN outcome ELSE caller[c]]

-----------------------------------------------------------------------------
(* Start-up and recovery *)

(* start(): open the storage and create the session.  A new process has a  *)
(* new client; "restart" calls start() again on a client that was stopped. *)
Start ==
    /\ phase = "down" \/ (phase = "stopped" /\ "restart" \in Events)
    /\ boots < MaxBoots
    /\ boots' = boots + 1
    /\ phase' = "opening"
    /\ UNCHANGED <<stopping, workers, drain, todo, caller, reg, durable, queue, stage,
                   attempt, history>>

(* The SELECT of list_inflight(). *)
ListInflight ==
    /\ phase = "opening"
    /\ phase' = "recovering"
    /\ todo' = inflight
    /\ UNCHANGED <<stopping, boots, workers, drain, caller, reg, durable, queue, stage,
                   attempt, history>>

(* The loop over the rows waits in enqueue() for the row before. *)
RecoveryBlocked == \E k \in Keys : stage[<<k, boots>>] = "enqueue"

(* Mutants: the row's retry_count is ignored, or counted from one. *)
RecoveredAttemptAfresh(k) == 0
RecoveredAttemptOffByOne(k) == todo[k] - 1

(* The attempt at which the recovered item resumes. *)
RecoveredAttempt(k) == todo[k]

(* One iteration: the key is free, so recovery owns it and enqueues the row. *)
RecoverRow(k) ==
    /\ phase = "recovering" /\ ~RecoveryBlocked
    /\ todo[k] # NoRow
    /\ reg[k] # "pending"
    /\ todo' = [todo EXCEPT ![k] = NoRow]
    /\ reg' = [reg EXCEPT ![k] = "pending"]
    /\ attempt' = [attempt EXCEPT ![<<k, boots>>] = RecoveredAttempt(k)]
    /\ PutOrWait(<<k, boots>>, "enqueue")
    /\ UNCHANGED <<phase, stopping, boots, workers, drain, caller, durable, history>>

(* One iteration: somebody in this process owns the key; do nothing. *)
SkipRow(k) ==
    /\ phase = "recovering" /\ ~RecoveryBlocked
    /\ todo[k] # NoRow
    /\ reg[k] = "pending"
    /\ todo' = [todo EXCEPT ![k] = NoRow]
    /\ UNCHANGED <<phase, stopping, boots, workers, drain, caller, reg, durable, queue,
                   stage, attempt, history>>

SpawnWorkers ==
    /\ phase = "recovering" /\ ~RecoveryBlocked
    /\ \A k \in Keys : todo[k] = NoRow
    /\ phase' = "running"
    /\ stopping' = FALSE
    /\ workers' = NumWorkers
    /\ UNCHANGED <<boots, drain, todo, caller, reg, durable, queue, stage, attempt, history>>

-----------------------------------------------------------------------------
(* Submission: request() and _submit() *)

HasSession == phase \notin {"down", "stopped"}

(* request() on a stopped client raises RuntimeError. *)
Refuse(c) ==
    /\ caller[c] = "idle"
    /\ phase = "stopped"
    /\ caller' = [caller EXCEPT ![c] = "error"]
    /\ UNCHANGED <<control, reg, durable, queue, stage, attempt, history>>

(* get_or_create() finds a future that is not done. *)
Attach(c) ==
    /\ caller[c] = "idle" /\ HasSession
    /\ reg[KeyOf[c]] = "pending"
    /\ caller' = [caller EXCEPT ![c] = "attached"]
    /\ UNCHANGED <<control, reg, durable, queue, stage, attempt, history>>

(* Mutant: every caller is an owner. *)
FreeWithoutDedup(k) == TRUE

(* When get_or_create() makes the caller the owner. *)
Free(k) == reg[k] # "pending"

Own(c) ==
    /\ caller[c] = "idle" /\ HasSession
    /\ Free(KeyOf[c])
    /\ caller' = [caller EXCEPT ![c] = "attached"]
    /\ reg' = [reg EXCEPT ![KeyOf[c]] = "pending"]
    /\ MoveTo(c, "upsert")
    /\ UNCHANGED <<control, durable, queue, attempt, history>>

(* The INSERT of upsert_inflight() is committed; ON CONFLICT resets retry_count. *)
Accept(k) ==
    /\ inflight' = [inflight EXCEPT ![k] = 0]
    /\ owed' = owed \cup {k}
    /\ calls' = [calls EXCEPT ![k] = 0]
    /\ UNCHANGED dlq

Upsert(c) ==
    /\ stage[c] = "upsert"
    /\ HasSession
    /\ Accept(KeyOf[c])
    /\ MoveTo(c, "enqueue")
    /\ UNCHANGED <<control, caller, reg, queue, attempt>>

(* upsert_inflight() raises: the payload cannot be serialised, SQLite fails,   *)
(* or stop() has closed the connection.  The future stays in the registry, so  *)
(* nobody else in the process works on the key.  An open connection may be     *)
(* left with the statement, which the next commit() then makes durable.        *)
UpsertFails(c) ==
    /\ stage[c] = "upsert"
    /\ "upsertError" \in Events \/ ~HasSession
    /\ \/ UNCHANGED <<durable, history>>
       \/ HasSession /\ Accept(KeyOf[c])
    /\ MoveTo(c, "none")
    /\ caller' = [caller EXCEPT ![c] = "error"]
    /\ UNCHANGED <<control, reg, queue, attempt>>

(* A _reschedule task that ends: every gather() has one less to wait for. *)
RescheduleEnds(j) == drain' = [d \in Drains |-> [drain[d] EXCEPT !.waiting = @ \ {j}]]

(* enqueue() returns: an owner, recovery or a _reschedule task gets a slot. *)
Enqueue(j) ==
    /\ stage[j] \in {"enqueue", "requeue"}
    /\ Len(queue) < QueueSize
    /\ queue' = Append(queue, j)
    /\ MoveTo(j, "queued")
    /\ RescheduleEnds(j)
    /\ UNCHANGED <<phase, stopping, boots, workers, todo, caller, reg, durable, attempt, history>>

-----------------------------------------------------------------------------
(* Workers: _worker(), _handle() and _handle_retry_or_dlq() *)

Busy       == {j \in Jobs : stage[j] \in HandlerStages}
Unfinished == Len(queue) + Cardinality(Busy)

HandlersRun == phase \in {"running", "draining"}

Handles(j, s) == HandlersRun /\ stage[j] = s

(* Mutant: one retry too many. *)
ShouldRetryOffByOne(n) == n <= MaxRetries

(* should_retry() *)
ShouldRetry(n) == n < MaxRetries

(* The first decision of _handle_retry_or_dlq(). *)
RetryOrBury(j, retryable) ==
    MoveTo(j, IF retryable /\ ShouldRetry(attempt[j]) THEN "retry" ELSE "bury")

(* task_done() for j.  The last one sets the event that every drain() waits *)
(* for in join(); before the loop gets to them, only sleeps that had begun  *)
(* earlier can end.                                                         *)
TaskDone(j) ==
    drain' = [d \in Drains |->
                IF drain[d].pc = "join" /\ queue = <<>> /\ Busy = {j}
                THEN [pc |-> "check", waiting |-> {i \in Jobs : stage[i] = "sleep"}]
                ELSE drain[d]]

(* An idle worker takes the head of the queue. *)
CanTake(j) ==
    /\ HandlersRun
    /\ Cardinality(Busy) < workers
    /\ queue # <<>>
    /\ j = Head(queue)

(* dequeue(), then before_call() lets the request pass. *)
Take(j) ==
    /\ CanTake(j)
    /\ queue' = Tail(queue)
    /\ MoveTo(j, "execute")
    /\ UNCHANGED <<control, caller, reg, durable, attempt, history>>

(* dequeue(), then before_call() raises CircuitOpenError. *)
ShortCircuit(j) ==
    /\ CanTake(j)
    /\ queue' = Tail(queue)
    /\ RetryOrBury(j, TRUE)
    /\ UNCHANGED <<control, caller, reg, durable, attempt, history>>

(* _execute() returns a Response. *)
Succeed(j) ==
    /\ Handles(j, "execute")
    /\ MoveTo(j, "success")
    /\ calls' = [calls EXCEPT ![JobKey[j]] = @ + 1]
    /\ owed' = owed \ {JobKey[j]}
    /\ UNCHANGED <<control, caller, reg, durable, queue, attempt>>

(* _execute() raises: 5xx, 429 and transport errors are retryable, other   *)
(* statuses and exceptions are not.                                        *)
Falter(j, retryable) ==
    /\ Handles(j, "execute")
    /\ RetryOrBury(j, retryable)
    /\ calls' = [calls EXCEPT ![JobKey[j]] = @ + 1]
    /\ UNCHANGED <<control, caller, reg, durable, queue, attempt, owed>>

(* The effect of increment_retry(): an UPDATE, so nothing without a row. *)
Incremented(k) == IF inflight[k] = NoRow THEN NoRow ELSE inflight[k] + 1

IncrementRetry(j) ==
    /\ Handles(j, "retry")
    /\ inflight' = [inflight EXCEPT ![JobKey[j]] = Incremented(JobKey[j])]
    /\ MoveTo(j, "schedule")
    /\ UNCHANGED <<control, caller, reg, dlq, queue, attempt, history>>

(* create_task(_reschedule(item, attempt + 1, delay)) and task_done(). *)
Schedule(j) ==
    /\ Handles(j, "schedule")
    /\ attempt' = [attempt EXCEPT ![j] = @ + 1]
    /\ MoveTo(j, "sleep")
    /\ TaskDone(j)
    /\ UNCHANGED <<phase, stopping, boots, workers, todo, caller, reg, durable, queue, history>>

(* Mutant: the row is deleted before the dead letter is written. *)
DeleteBeforePush(j) ==
    /\ Handles(j, "bury")
    /\ inflight' = [inflight EXCEPT ![JobKey[j]] = NoRow]
    /\ MoveTo(j, "clear")
    /\ UNCHANGED <<control, caller, reg, dlq, queue, attempt, history>>

(* The INSERT of push_dead_letter(); the table has no unique key. *)
PushDeadLetter(j) ==
    /\ Handles(j, "bury")
    /\ dlq' = dlq \cup {j}
    /\ owed' = owed \ {JobKey[j]}
    /\ MoveTo(j, "clear")
    /\ UNCHANGED <<control, caller, reg, inflight, queue, attempt, calls>>

(* Mutant: the row survives its dead letter. *)
DeleteInflightAfterSuccess(j) ==
    /\ \/ Handles(j, "clear")   /\ MoveTo(j, "fail") /\ UNCHANGED inflight
       \/ /\ Handles(j, "success") /\ MoveTo(j, "resolve")
          /\ inflight' = [inflight EXCEPT ![JobKey[j]] = NoRow]
    /\ UNCHANGED <<control, caller, reg, dlq, queue, attempt, history>>

(* delete_inflight(), after push_dead_letter() or after a success. *)
DeleteInflight(j) ==
    /\ \/ Handles(j, "clear")   /\ MoveTo(j, "fail")
       \/ Handles(j, "success") /\ MoveTo(j, "resolve")
    /\ inflight' = [inflight EXCEPT ![JobKey[j]] = NoRow]
    /\ UNCHANGED <<control, caller, reg, dlq, queue, attempt, history>>

(* Mutant: resolve() before delete_inflight(). *)
SettleBeforeDelete(j) ==
    /\ \/ Handles(j, "success") /\ Deliver(JobKey[j], "ok")
       \/ Handles(j, "fail")    /\ Deliver(JobKey[j], "failed")
    /\ reg' = [reg EXCEPT ![JobKey[j]] = "none"]
    /\ MoveTo(j, "none")
    /\ TaskDone(j)
    /\ UNCHANGED <<phase, stopping, boots, workers, todo, durable, queue, attempt, history>>

(* Mutant: discard() where fail() belongs. *)
SettleDiscards(j) ==
    /\ \/ Handles(j, "resolve") /\ Deliver(JobKey[j], "ok")
       \/ Handles(j, "fail")    /\ UNCHANGED caller
    /\ reg' = [reg EXCEPT ![JobKey[j]] = "none"]
    /\ MoveTo(j, "none")
    /\ TaskDone(j)
    /\ UNCHANGED <<phase, stopping, boots, workers, todo, durable, queue, attempt, history>>

(* Mutant: set_result() on a cancelled future raises and ends the worker. *)
SettleUnguarded(j) ==
    /\ \/ Handles(j, "resolve") /\ Deliver(JobKey[j], "ok")
       \/ Handles(j, "fail")    /\ Deliver(JobKey[j], "failed")
    /\ reg' = [reg EXCEPT ![JobKey[j]] = "none"]
    /\ workers' = IF reg[JobKey[j]] = "cancelled" THEN workers - 1 ELSE workers
    /\ MoveTo(j, "none")
    /\ TaskDone(j)
    /\ UNCHANGED <<phase, stopping, boots, todo, durable, queue, attempt, history>>

(* The response hook, then resolve(); or fail().  Then task_done(). *)
Settle(j) ==
    /\ \/ Handles(j, "resolve") /\ Deliver(JobKey[j], "ok")
       \/ Handles(j, "fail")    /\ Deliver(JobKey[j], "failed")
    /\ reg' = [reg EXCEPT ![JobKey[j]] = "none"]
    /\ MoveTo(j, "none")
    /\ TaskDone(j)
    /\ UNCHANGED <<phase, stopping, boots, workers, todo, durable, queue, attempt, history>>

(* What becomes of the storage operation in which a handler is interrupted *)
(* by CancelledError or by an error of its own.  Its statement may already *)
(* be committed in aiosqlite's thread, or be left in the open transaction  *)
(* for the next commit(); or it never takes effect.  The future of the key *)
(* stays pending, so when it does makes no difference to the process.      *)
Interrupted(j) ==
    \/ UNCHANGED <<durable, owed>>
    \/ /\ stage[j] = "retry"
       /\ inflight' = [inflight EXCEPT ![JobKey[j]] = Incremented(JobKey[j])]
       /\ UNCHANGED <<dlq, owed>>
    \/ /\ stage[j] = "bury"
       /\ dlq' = dlq \cup {j}
       /\ owed' = owed \ {JobKey[j]}
       /\ UNCHANGED inflight
    \/ /\ stage[j] \in {"clear", "success"}
       /\ inflight' = [inflight EXCEPT ![JobKey[j]] = NoRow]
       /\ UNCHANGED <<dlq, owed>>

(* A storage operation raises in _handle(), in "schedule" the SELECT that  *)
(* ends increment_retry(): nothing catches it, the worker task ends after  *)
(* task_done().                                                            *)
WorkerDies(j) ==
    /\ "storageError" \in Events
    /\ HandlersRun
    /\ stage[j] \in {"retry", "schedule", "bury", "clear", "success"}
    /\ Interrupted(j)
    /\ workers' = workers - 1
    /\ MoveTo(j, "none")
    /\ TaskDone(j)
    /\ UNCHANGED <<phase, stopping, boots, todo, caller, reg, queue, attempt, calls>>

(* _reschedule() after its sleep. *)
Wake(j) ==
    /\ stage[j] = "sleep"
    /\ \A d \in Drains : drain[d].pc = "check" => j \in drain[d].waiting
    /\ IF stopping
       THEN MoveTo(j, "none") /\ UNCHANGED queue
       ELSE PutOrWait(j, "requeue")
    /\ IF stage'[j] = "requeue" THEN UNCHANGED drain ELSE RescheduleEnds(j)
    /\ UNCHANGED <<phase, stopping, boots, workers, todo, caller, reg, durable, attempt, history>>

-----------------------------------------------------------------------------
(* drain() and stop() *)

(* Mutant: the pending reschedules are ignored. *)
AfterJoinReturns == DrainOff

(* After join() returned: gather the pending reschedules, or return. *)
AfterJoin ==
    LET pending == {j \in Jobs : stage[j] \in RescheduleStages}
    IN  IF pending = {} THEN DrainOff ELSE [pc |-> "gather", waiting |-> pending]

(* join() returns at once, or waits for the last task_done(). *)
EnterJoin == IF Unfinished = 0 THEN AfterJoin ELSE [pc |-> "join", waiting |-> {}]

(* The drain() that d called is at `at`; when it returns to stop(), the    *)
(* workers are cancelled.                                                  *)
DrainReaches(d, at, ph) ==
    LET cancels == d = "stop" /\ ph = "draining" /\ at.pc = "off"
    IN  /\ drain' = [drain EXCEPT ![d] = at]
        /\ phase' = IF cancels THEN "cancelling" ELSE ph
        /\ workers' = IF cancels THEN 0 ELSE workers

(* stop() is called, perhaps while a drain() is under way. *)
Stop ==
    /\ "stop" \in Events
    /\ phase = "running"
    /\ stopping' = TRUE
    /\ DrainReaches("stop", EnterJoin, "draining")
    /\ UNCHANGED <<boots, todo, caller, reg, durable, queue, stage, attempt, history>>

(* drain() called on its own, perhaps while stop() is in its own; when it  *)
(* returns at once nothing changes.                                        *)
BeginDrain ==
    /\ "drain" \in Events
    /\ HandlersRun /\ drain["drain"].pc = "off"
    /\ DrainReaches("drain", EnterJoin, phase)
    /\ UNCHANGED <<stopping, boots, todo, caller, reg, durable, queue, stage, attempt, history>>

(* drain() goes on after join(). *)
DrainChecks(d) ==
    /\ drain[d].pc = "check"
    /\ DrainReaches(d, AfterJoin, phase)
    /\ UNCHANGED <<stopping, boots, todo, caller, reg, durable, queue, stage, attempt, history>>

(* gather() returns: join() again. *)
GatherReturns(d) ==
    /\ drain[d].pc = "gather" /\ drain[d].waiting = {}
    /\ DrainReaches(d, EnterJoin, phase)
    /\ UNCHANGED <<stopping, boots, todo, caller, reg, durable, queue, stage, attempt, history>>

(* CancelledError in _handle(), then task_done(). *)
CancelHandler(j) ==
    /\ phase = "cancelling"
    /\ stage[j] \in HandlerStages
    /\ Interrupted(j)
    /\ MoveTo(j, "none")
    /\ TaskDone(j)
    /\ UNCHANGED <<phase, stopping, boots, workers, todo, caller, reg, queue, attempt, calls>>

(* The workers are gone: close the session and the storage. *)
Close ==
    /\ phase = "cancelling"
    /\ Busy = {}
    /\ phase' = "stopped"
    /\ UNCHANGED <<stopping, boots, workers, drain, todo, caller, reg, durable, queue, stage,
                   attempt, history>>

-----------------------------------------------------------------------------
(* The environment *)

(* The task running request() is cancelled.  In `await future` this cancels *)
(* the shared future; before, it abandons the submission.                   *)
CancelCaller(c) ==
    /\ "cancel" \in Events
    /\ \/ /\ caller[c] = "attached" /\ stage[c] \notin {"upsert", "enqueue"}
          /\ Deliver(KeyOf[c], "cancelled")
          /\ reg' = [reg EXCEPT ![KeyOf[c]] = "cancelled"]
          /\ UNCHANGED <<durable, stage, history>>
       \/ /\ stage[c] \in {"upsert", "enqueue"}
          /\ caller' = [caller EXCEPT ![c] = "cancelled"]
          /\ MoveTo(c, "none")
          /\ \/ UNCHANGED <<durable, history>>
             \/ stage[c] = "upsert" /\ HasSession /\ Accept(KeyOf[c])
          /\ UNCHANGED reg
    /\ UNCHANGED <<control, queue, attempt>>

(* The process ends at any point, by kill -9 or after stop(): the tables remain. *)
Crash ==
    /\ "crash" \in Events
    /\ phase # "down" /\ boots < MaxBoots
    /\ phase' = "down"
    /\ stopping' = FALSE
    /\ workers' = 0
    /\ caller' = [c \in Callers |-> IF caller[c] = "attached" THEN "lost" ELSE caller[c]]
    /\ reg' = [k \in Keys |-> "none"]
    /\ queue' = <<>>
    /\ stage' = [j \in Jobs |-> "none"]
    /\ todo' = [k \in Keys |-> NoRow]
    /\ drain' = [d \in Drains |-> DrainOff]
    /\ UNCHANGED <<boots, durable, attempt, history>>

(* Nothing is left to do. *)
Quiescent ==
    /\ phase \in {"running", "stopped"}
    /\ \A j \in Jobs : ~Live(j)
    /\ \A c \in Callers : caller[c] # "idle"
    /\ UNCHANGED vars

-----------------------------------------------------------------------------

Recovery == Start \/ ListInflight \/ SpawnWorkers \/ \E k \in Keys : RecoverRow(k) \/ SkipRow(k)

Submission == \E c \in Callers : Refuse(c) \/ Attach(c) \/ Own(c)

Handling ==
    \E j \in Jobs :
        \/ Take(j) \/ ShortCircuit(j)
        \/ Succeed(j) \/ Falter(j, TRUE) \/ Falter(j, FALSE)
        \/ IncrementRetry(j) \/ Schedule(j)
        \/ PushDeadLetter(j) \/ DeleteInflight(j) \/ Settle(j)

Shutdown ==
    \/ \E d \in Drains : DrainChecks(d) \/ GatherReturns(d)
    \/ Close
    \/ \E j \in Jobs : CancelHandler(j)

Environment ==
    \/ Stop \/ BeginDrain \/ Crash
    \/ \E j \in Jobs : WorkerDies(j)
    \/ \E c \in Callers : CancelCaller(c)

(* What the event loop runs without being asked again. *)
Progress ==
    \/ Recovery
    \/ \E c \in Callers : Upsert(c) \/ UpsertFails(c)
    \/ \E j \in Jobs : Enqueue(j) \/ Wake(j)
    \/ Handling
    \/ Shutdown

Next == Progress \/ Submission \/ Environment \/ Quiescent

Spec == Init /\ [][Next]_vars

(* The loop never idles while a coroutine is ready: sleeps are finite,     *)
(* ClientTimeout(total) ends every HTTP exchange, a supervisor restarts    *)
(* the process.  Which coroutine runs is left open.                        *)
FairSpec == Spec /\ WF_vars(Progress)

-----------------------------------------------------------------------------
(* Safety *)

(* At most one item per idempotency key is in the process, whichever       *)
(* callers, retries and recovery produced it: what InFlightRegistry is for *)
(* (dedup.py, "no duplicate in-process work").                             *)
NoDuplicateWork ==
    \A i, j \in Jobs : Live(i) /\ Live(j) /\ JobKey[i] = JobKey[j] => i = j

(* Accepted work that has neither succeeded nor reached the dead-letter    *)
(* queue has a row for recovery to find, wherever a crash, a shutdown or a *)
(* failing storage operation falls ("no lost work across crashes").        *)
NoLostWork == \A k \in owed : inflight[k] # NoRow

(* The row's retry_count is the attempt of the item in the process, one    *)
(* ahead between increment_retry() and _reschedule(): a crash never gives  *)
(* the item a fresh retry budget and never takes a retry away from it.     *)
RetryCountPersisted ==
    \A j \in Jobs :
        /\ stage[j] \in {"enqueue", "queued", "execute", "retry", "bury", "clear", "success",
                         "sleep", "requeue"}
              => inflight[JobKey[j]] = attempt[j]
        /\ stage[j] = "schedule" => inflight[JobKey[j]] = attempt[j] + 1

(* An accepted request costs at most MaxRetries + 1 HTTP exchanges, and one *)
(* more for each time the process was started again: the exchange whose     *)
(* outcome a crash kept from being recorded.                                *)
RetryBudget == \A k \in Keys : calls[k] <= MaxRetries + boots

(* Once stop() has closed the session and the storage, no handler and no   *)
(* _reschedule task is left that would use them, although retries can be   *)
(* scheduled while drain() is on its way out of join().                    *)
NothingOutlivesStop ==
    phase = "stopped" => \A j \in Jobs : stage[j] \notin HandlerStages \cup RescheduleStages

(* A caller that waits has an item in the process that will wake it: the   *)
(* future it awaits is never an orphan ("the same future the worker will   *)
(* eventually resolve").                                                   *)
WaitersHaveWork ==
    \A c \in Callers : caller[c] = "attached" => \E j \in Jobs : Live(j) /\ JobKey[j] = KeyOf[c]

(* Once recovery is over, every row belongs to an item in the process: no  *)
(* row waits for the next restart.                                         *)
RowsHaveWork ==
    phase = "running" =>
        \A k \in Keys : inflight[k] # NoRow => \E j \in Jobs : Live(j) /\ JobKey[j] = k

(* What a step that answers a caller must find in the tables. *)
AnswerIsSettled ==
    \A c \in Callers :
        caller[c] = "attached" /\ caller'[c] \in {"ok", "failed"} =>
            /\ inflight'[KeyOf[c]] = NoRow
            /\ caller'[c] = "failed" => \E j \in dlq' : JobKey[j] = KeyOf[c]

(* A caller gets its answer only when the row is gone, and an error only   *)
(* when the request is in the dead-letter queue: no crash after the answer *)
(* makes the request run again or disappear.                               *)
AnsweredAfterSettled == [][AnswerIsSettled]_vars

-----------------------------------------------------------------------------
(* Refinement *)

Ledger == INSTANCE WorkLedger WITH
    open   <- {k \in Keys : inflight[k] # NoRow},
    buried <- {JobKey[j] : j \in dlq}

(* Seen through its tables, the client is a WorkLedger: whatever crashes,   *)
(* restarts, shutdowns, failing storage operations and retries do, a row    *)
(* goes only after the success or the dead letter of its request, and       *)
(* outcomes are recorded only for requests that have a row ("the two layers *)
(* ensure no duplicate in-process work and no lost work across crashes").   *)
ImplementsLedger == Ledger!Spec

-----------------------------------------------------------------------------
(* The inductive invariant from which the safety properties follow as long *)
(* as no caller is cancelled                                               *)

(* What is in the queue is queued, once. *)
QueueOnce ==
    /\ \A m \in DOMAIN queue : stage[queue[m]] = "queued"
    /\ \A m, n \in DOMAIN queue : queue[m] = queue[n] => m = n

(* Handlers run only between SpawnWorkers and Close, one per worker. *)
HandlersHaveWorkers ==
    /\ phase \notin {"running", "draining", "cancelling"} => Busy = {}
    /\ HandlersRun => Cardinality(Busy) <= workers

(* The future of a key in the process is pending: an item never outlives   *)
(* its entry in the registry.                                              *)
WorkIsRegistered ==
    /\ \A j \in Jobs : Live(j) => reg[JobKey[j]] = "pending"
    /\ \A k \in Keys : reg[k] # "cancelled"

(* What is past its success or its dead letter is not owed any more. *)
SettlingIsNotOwed ==
    \A j \in Jobs : stage[j] \in {"clear", "fail", "success", "resolve"} => JobKey[j] \notin owed

(* The rows that recovery has still to visit have not changed since the    *)
(* SELECT, except those whose key has been taken.                          *)
SnapshotIsCurrent ==
    phase = "recovering" =>
        \A k \in Keys : todo[k] # NoRow /\ reg[k] = "none" => inflight[k] = todo[k]

(* A submission starts at attempt 0. *)
FreshStartsAtZero ==
    \A c \in Callers :
        /\ caller[c] = "idle" => ~Live(c)
        /\ caller[c] = "idle" \/ stage[c] = "upsert" => attempt[c] = 0

(* What is past delete_inflight() has no row, what is past                *)
(* push_dead_letter() has its dead letter.                                 *)
SettledIsRecorded ==
    \A j \in Jobs :
        /\ stage[j] \in {"resolve", "fail"} => inflight[JobKey[j]] = NoRow
        /\ stage[j] \in {"clear", "fail"} => j \in dlq

(* The exchanges of a key are paid for by its retry_count and the starts;  *)
(* an item that is not yet executing, or waits for its retry, has one left. *)
ExchangesArePaid ==
    /\ \A k \in Keys : inflight[k] <= MaxRetries
    /\ \A k \in Keys : inflight[k] # NoRow => calls[k] <= inflight[k] + boots
    /\ \A j \in Jobs :
          /\ stage[j] \in {"enqueue", "queued", "execute", "schedule", "sleep", "requeue"}
                => calls[JobKey[j]] < inflight[JobKey[j]] + boots
          /\ stage[j] = "retry" => attempt[j] < MaxRetries
    /\ phase \in {"opening", "recovering"} =>
          \A k \in Keys : inflight[k] # NoRow /\ reg[k] = "none" => calls[k] < inflight[k] + boots

IInv ==
    /\ TypeOK
    /\ QueueOnce
    /\ HandlersHaveWorkers
    /\ WorkIsRegistered
    /\ NoDuplicateWork
    /\ RetryCountPersisted
    /\ SettlingIsNotOwed
    /\ NoLostWork
    /\ SnapshotIsCurrent
    /\ FreshStartsAtZero
    /\ SettledIsRecorded
    /\ ExchangesArePaid
    /\ RetryBudget

-----------------------------------------------------------------------------
(* Liveness, under FairSpec *)

(* Every request() returns or raises, also when the queue is full, a retry *)
(* waits for a slot and other callers attach to the same future.           *)
EveryRequestAnswered == \A c \in Callers : caller[c] = "attached" ~> caller[c] # "attached"

(* Every row is worked off after the last crash: it leads to a success or  *)
(* to a dead letter without anyone calling request() again.                *)
RowsWorkedOff == \A k \in Keys : inflight[k] # NoRow ~> inflight[k] = NoRow

(* Every item leaves the process, whoever cancels the callers behind it    *)
(* and whichever submissions fail.                                         *)
EveryItemLeaves == \A j \in Jobs : Live(j) ~> ~Live(j)

-----------------------------------------------------------------------------
(* What the documentation says and the code does not do *)

(* stop(): "the 'no dropped requests' guarantee on graceful exit".  No     *)
(* caller still waits for a request that a worker has begun to retry.      *)
GracefulStopDropsNothing ==
    phase = "stopped" => \A c \in Callers : caller[c] = "attached" => inflight[KeyOf[c]] <= 0

=============================================================================
