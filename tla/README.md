# Verification of async-hardened-client

TLA+ models of `src/async_hardened_client`, a single-process asyncio HTTP client
that wraps every request in deduplication, a bounded queue, a worker pool, a
circuit breaker, a rate limiter, retries, a dead-letter queue and crash recovery
from SQLite. TLC checks the models on small instances, TLAPS proves the main
safety properties for every value of the parameters.

## The system

Everything runs on one event loop; the only other thread is aiosqlite's. A step
of a model is what one coroutine does between two suspension points.

| Component | State | Operations | What makes it correct |
| --- | --- | --- | --- |
| `AsyncHardenedClient` (client.py) | session, workers, reschedule tasks, stopping flag | `start`, `request`, `drain`, `stop`; workers and reschedules in the background | no request is lost, executed twice at a time, or left unanswered |
| `InFlightRegistry` (dedup.py) | future per idempotency key | `get_or_create`, `resolve`, `fail` | one owner per key; every future is settled |
| `RequestQueue` (queue.py) | bounded FIFO, count of unfinished items | `enqueue`, `dequeue`, `task_done`, `join` | backpressure without deadlock |
| `Storage` (storage.py) | tables `inflight_requests`, `dead_letter_queue`; connection, write lock | upsert, increment, delete, list, push, remove, purge | the tables say at any moment what a crash must not lose |
| `CircuitBreaker` (circuit_breaker.py) | state, failure counter, window, probe slots | `before_call`, `on_success`, `on_failure` | cool-down, bounded probing, leaves half-open |
| `HostRateLimiter`, `TokenBucket` (rate_limiter.py) | tokens, time of the last refill | `acquire`, `set_override` | the rate holds over every interval |
| retry.py, errors.py | none | `should_retry`, `backoff_seconds`, classification | the retry budget |
| dead_letter.py, cli.py | none of their own | replay, purge, list, metrics | a replay neither loses nor duplicates work |
| observability.py, models.py, config.py | counters, plain data | | |

A request travels `request` -> registry -> `upsert_inflight` -> queue -> worker
-> breaker -> limiter -> exchange, and ends in `delete_inflight` + `resolve`, in
`increment_retry` + a sleeping `_reschedule` task that enqueues it again, or in
`push_dead_letter` + `delete_inflight` + `fail`. The registry is shared by callers,
workers and recovery, the tables by all of them and by the next process.

Hard to test, and what the properties are for (the list with lines is under
`hazards` in PROJECT.json): the moment of a crash between two storage operations;
ownership of a key while its future is settled, cancelled or recovered; a full
queue with every producer waiting; retries that fire while `drain()` and `stop()`
are under way; outcomes that reach the breaker in a later state than the one that
admitted the call; waits computed from a token count that others then change;
a task cancelled between `execute()` and `commit()`; a replay that is cut short
after it has deleted the dead letter; commands that run beside the application
on its database; retries spent on an open breaker.

## Modules

| Module | Models | State |
| --- | --- | --- |
| `HardenedClient` | client.py, dedup.py, queue.py and the tables of storage.py | below |
| `CircuitBreaker` | one host's breaker and how `_handle()` reports to it | `_state`, `_consecutive_failures`, `_opened_at` as `elapsed`, `_inflight_probes`, `_outcomes`; the calls in flight |
| `RateLimiter` | one host's buckets, tasks in `acquire()`, overrides | clock, tokens, last refill, each task's bucket and remaining sleep; grants as history |
| `DeadLetterReplay` | dead_letter.py, cli.py, the DLQ operations; several processes on one database | tables, each process's command and items; accepted and dropped keys as history |
| `SqliteStorage` | storage.py on its connections: write lock, `execute()`, `commit()` | the file, the open transaction and who has it, the lock's queue, each task |
| `RetryPolicy` | retry.py, errors.py and the exceptions of client.py | none: operators |
| `HostPipeline` | the items of one host in `_handle()`, with `CircuitBreaker`, `RetryPolicy` and time | that of the breaker; stage, attempt and remaining sleep of each item |
| `WorkLedger` | abstract: what the client promises about the tables | keys with a row, keys owed, keys dead-lettered |
| `AtomicStore` | abstract: what the client relies on when it calls `Storage` | the tables, each task's operation, abandoned operations |
| `HardenedClientProofs`, `WorkLedgerProofs`, `CircuitBreakerProofs`, `RateLimiterProofs`, `SqliteStorageProofs`, `HostPipelineProofs`, `DeadLetterReplayProofs` | theorems about the module each is named after (`WorkLedgerProofs`: the client implements the ledger) | |
| `MC...` | instances for TLC | |

`HardenedClient` implements `WorkLedger`, `SqliteStorage` implements `AtomicStore`
(both with `INSTANCE ... WITH` and the abstract specification as a property);
`HostPipeline` composes `CircuitBreaker` and `RetryPolicy`. `HardenedClient` and
`DeadLetterReplay` use storage operations that are atomic, which `SqliteStorage`
justifies.

The comment `Mutant` marks operators that no specification uses: each is a
plausible bug that can replace the definition after it, to see that a property
notices.

### HardenedClient

A *job* is one lineage of `QueueItem`s: the one an owning caller makes (named
after the caller) or the one recovery makes for a row (named after the key and
the start). `stage[j]` says where it is:

| Stage | Where the code is |
| --- | --- |
| `upsert`, `enqueue` | `_submit()` or the recovery loop, before and after the row is committed |
| `queued` | in the queue |
| `execute` | in `_handle()`, past `before_call()`: limiter and exchange |
| `retry`, `schedule` | before and after the commit of `increment_retry()` |
| `bury`, `clear`, `fail` | before `push_dead_letter()`, before `delete_inflight()`, before `dedup.fail()` |
| `success`, `resolve` | before `delete_inflight()`, before `dedup.resolve()` |
| `sleep`, `requeue` | in `_reschedule()`: asleep, waiting for a slot |

Further state: `phase` follows `start()` and `stop()`; `reg` is the state of each
key's future (none, pending, cancelled); `inflight` holds the row's `retry_count`
or `NoRow`; `dlq` the dead letters; `todo` the rows that recovery has listed and
not yet visited; `drain` the positions of the `drain()` that `stop()` calls and of one
called on its own, which may overlap. `owed` and
`calls` are history: keys accepted and not yet finished, and exchanges made for
a key.

Each handler is a sequence of actions, split where the code awaits the storage:
`Take`, `Succeed`/`Falter`, `IncrementRetry`, `Schedule`, `PushDeadLetter`,
`DeleteInflight`, `Settle`. A storage operation takes effect at its commit, in
aiosqlite's thread, and the coroutine resumes later. An operation that raises or
whose task is cancelled may still take effect, since nothing rolls back: the
statement is committed with a later one, or never (`Interrupted` in `WorkerDies` and
`CancelHandler`, the second alternatives of `UpsertFails` and `CancelCaller`). The
model lets it take effect at once or not at all; the key's future stays pending
either way, so nothing in the process looks at the row or the letter in between,
and a crash in between is the case in which it never does. Whether the breaker admits the request, how the exchange ends
and whether the failure is retryable is nondeterministic; the delays are
arbitrary. `TaskDone` and `drain.waiting` keep one detail of asyncio: `join()` is
woken by the last `task_done()`, but `drain()` runs later, and sleeps that were
already under way can end in between. `stop()` may be called while a `drain()` is
under way and the other way round; it is not called while `start()` is still
recovering (`async with` awaits `start()` first), and not twice at a time.

`Events` selects what the environment may do: crash, stop, start again, drain,
cancel a caller, fail an upsert, fail a storage operation of a handler.

### CircuitBreaker

A call is `idle`, `regular`, or a `probe` of the current half-open period;
a period that ends turns its other probes into regular calls, whose outcomes
come late. `lost` counts the probes of the period that ended without a report.
`failures` saturates at the threshold and `elapsed` at `OpenSeconds`,
beyond which neither changes what the code does. A 429 and a cancelled worker
are `NotReported`.

### RateLimiter

Time in ticks, tokens in units (`Token` units are one), so rates are integers and
there is no rounding; the code's floats are not modelled. The sleep `deficit / rate`
is kept exactly, by its numerator: the units that will flow in meanwhile. Its end may
lie between two ticks, and the task wakes at the next tick or later, as
`asyncio.sleep()` may. A task that sleeps on a
bucket keeps it when an override replaces it. In `Configs` the first entry is the
default and the others are overrides, in the order in which they are set.

### WorkLedger

A request is in `inflight_requests` from its acceptance until it has succeeded or
is in the dead-letter queue: `Accept`, `Finish`, `Bury`, and `Close`, which needs
that nothing is owed. Rows may outlive their outcome (a crash before
`delete_inflight()`), so the promise is at-least-once. The refinement maps the
tables and the history variable `owed`.

### DeadLetterReplay

A process is `App` or one of the `Operators`; a command is what its client is
started for. Of a client only what it does to the tables is kept: an item is at
work, done or dead-lettered with its row still there, or gone. `pc` follows
`_cmd_replay()`: `list`, then for each entry of the snapshot `remove` (before
`remove_dead_letter()`), `submit` (before the upsert of `request()`) and `await`.
`metrics` starts a client and leaves; a purge is one transaction. `FaultSets`
chooses for each behaviour between processes one after the other, with crashes
and failing storage operations, and commands beside an application, which every
operator's process runs one after another. An id is
`lastId + 1` (AUTOINCREMENT). `Snapshots` is what `list_dead_letter()` may return: the
newest letters in order, up to the limit. Newest first is taken to be the order of the ids, so
the clock does not run backwards. `owed` and `dropped` are history: keys accepted and
not since done upstream or purged, and those of them whose letter a replay removed
without sending the request again. That happens when it is cut short
(`ReplayRaises`, `Crash`) and when it attaches to an item of its own process whose
exchange is over (`AnsweredUnsent`).

### SqliteStorage and AtomicStore

A write queues for the lock of its `Storage`, awaits `execute()` and then
`commit()`; both are carried out by the connection's thread in the order in which
they were issued, also when the task has been cancelled. `lock` is the queue of the
`asyncio.Lock`, holder first; a task leaves it from its `Place`, at the head or, when
it is cancelled while it waits, in the middle. `txn` holds the statements
since the last commit, `writer` the connection that has SQLite's write lock. A letter
has an id of its own, by which `remove_dead_letter()` deletes it; an id that is gone
deletes nothing. An
operation that fails or is cancelled after its statement leaves `txn` open: no code
rolls back. A later commit on the connection commits it, closing the connection or
the end of the process rolls it back. In `AtomicStore` an abandoned operation
therefore takes effect together with a later one, or never, and an operation that
returns has taken effect, exactly once. `execute()` of the other process waits for
the transaction, or raises "database is locked".

### RetryPolicy and HostPipeline

A reply is a status with its `Retry-After`, or an exception. `backoff_seconds` is the
set of delays the function may return. In `HostPipeline` an item is queued, sending,
asleep, done or dead; time passes for the cool-down and for the sleeps alike.
`turned` is history: how often the open breaker rejected an item in this cool-down;
rejections of the half-open breaker, whose `retry_after` is 0, also cost a retry and
are not in it. There
are as many workers as items, and the limiter's wait is part of sending.

## Runs

Passing:

| Run | Instance | Shows |
| --- | --- | --- |
| `client_crash` | 3 callers, 2 keys, 2 workers, queue of 1, 1 retry, 2 starts | deduplication (`NoDuplicateWork`), `RetryCountPersisted`, `RetryBudget`, `WaitersHaveWork`, `RowsHaveWork`; answers only after the tables are settled (`AnsweredAfterSettled`) |
| `client_shutdown` | 2 callers, 2 keys; stop, drain, restart, crash, failing storage | no accepted work without a row (`NoLostWork`); nothing outlives `stop()`; the client implements `WorkLedger` (`ImplementsLedger`) |
| `client_answers` | 3 callers, queue of 1, no crash; deadlock checked | every request is answered |
| `client_recovers` | 2 callers, 2 keys, queue of 2, crash; deadlock checked | every row is worked off |
| `client_cancel` | 2 callers, 1 key, 1 worker; cancellations, failing upserts | every item leaves |
| `breaker` | 3 calls, threshold 3, window 4, rate 1/2, 2 probes, all outcomes | probe bound, triggers, cool-down; half-open has a probe and ends unless one was lost |
| `limiter_rate` | 3 tasks, 2 configurations, 8 ticks | the rate over every interval, and that the computed sleep is long enough (`SleepSuffices`) |
| `replay` | 2 keys, an application and an operator's process, 3 launches, 2 requests, 1 purge | alone: only a replay that is cut short between deletion and upsert loses work (`OnlyReplayDrops`), it adds no duplicates, its exit code is true (`ExitCodeIsTrue`, with and without `--id`); beside an application, commands one after another: some process holds every owed key that no replay has answered with an older response (`SharedWorkIsHeld`); always: ids in a snapshot stay true |
| `storage` | 2 tasks of one process, 1 of another, 1 key, 4 calls | the queues of the locks hold exactly the tasks that write (`TypeOK`), `ImplementsAtomicStore`, `OneTransaction`, and every operation ends |
| `host` | 3 items, threshold 2, 1 probe, 2 retries, cool-down 2, longest delay 3; deadlock checked | a cool-down turns an item away at most once (`OncePerCoolDown`, which needs max_delay >= open_seconds, as in the defaults); every item is settled |

The bounds are the smallest at which the interesting cases happen: two callers on
one key and one on another give sharing and independence; one queue slot gives
full queues with callers, recovery and retries waiting; one retry gives both
branches of `_handle_retry_or_dlq()`; two starts give one crash with recovery of
what it left; three calls on a breaker of two probes give probes of one period
reporting in another; two requests and three launches give two letters in a
snapshot, a crash of the replay and a process that finds what it left, or two commands
one after the other beside the application; four calls
of three tasks give a letter's id that is used after the letter has gone and another
has come, an abandoned statement, the operation that commits it and a
second process in between; a 429 that asks for less and one that asks for more
than the longest delay give both branches of the cap. `MaxBoots`, `MaxLaunches`,
`MaxSubmits`, `MaxPurges` and `MaxCalls` bound starts and calls, `MaxTime` the clock;
they are the only counters capped in guards. `client_recovers` and `client_cancel` have
a queue that holds all rows, because `start()` hangs otherwise (below). Deadlock is not checked
where the model may stop: after the last crash that `MaxBoots` allows, after a
stop that leaves callers behind, at the end of the clock, when the launches or calls
of `replay` and `storage` are used up.

Runs named `find_*` are expected to fail: the property is what a document, a
docstring or a comment says, and the counterexample is what the code does.

| Run | What the code does |
| --- | --- |
| `find_stop_drops_retry` | a retry asleep when `stop()` begins is dropped, its caller waits for ever (`GracefulStopDropsNothing`) |
| `find_replay_drops` | `replay_entry()` deletes the dead letter first; killed before the upsert, it leaves the request in neither table (`ReplayDropsNothing`) |

The models have further behaviours that contradict a document, for which no run
is kept:

- `start()` hangs when more rows than queue slots are recovered, as no worker
  exists yet (client.py:254; ARCHITECTURE.md:141-144, "recovered work begins
  draining within milliseconds of process start"): `client_recovers` with a queue
  of one violates `RowsWorkedOff`;
- cancelling a waiter cancels the shared future; the next caller starts a second
  item, and the first to finish deletes the row the other relies on (client.py:327;
  dedup.py:12-13, "no lost work across crashes"): `NoLostWork` with cancellations
  and a crash;
- a failing upsert leaves a pending future that nobody settles, everyone who
  attaches waits for ever (client.py:239; ARCHITECTURE.md:89-90):
  `EveryRequestAnswered` with failing upserts;
- a probe answered with 429 keeps its slot, the breaker stays half-open and rejects
  everything (client.py:310; circuit_breaker.py:8-10); `host` shows that the items
  are still settled, because rejections use up their retries;
- an item that the half-open breaker turns away for want of a probe slot sleeps for the
  plain backoff and loses a retry each time, up to its whole budget, while one probe is
  under way (circuit_breaker.py:76-80): `OncePerCoolDown` is about the open breaker
  only;
- the breaker opens when the consecutive failures or the failure rate reach their
  limits (circuit_breaker.py:102-108, `>=`), where the docstring says that they
  "exceed" them (circuit_breaker.py:13-14). `ClosedIsHealthy` states what the code
  does: closed means strictly below;
- `ahc dlq replay --id` of a request that fails again exits 1, the code for an id of no
  row (cli.py:82-86); "2 if some are still failing" (RUNBOOK.md:84) holds for a replay
  of all rows only. `ExitCodeIsTrue` covers both codes;
- beside an application, a replay whose client has recovered a row and executed it may
  find a later letter of the same key, remove it, and attach to the item whose exchange
  is already over: the replay reports a success that is older than the request
  (client.py:231-235; dead_letter.py:46). `SharedWorkIsHeld` leaves such keys
  (`dropped`) out, and fails over `owed` alone;
- beside a running application, a purge can meet an item whose letter is written
  and whose row is not yet deleted, a command can delete the row of an item that
  the application still works on, and an application that stops or crashes then
  leaves nothing behind: `SharedWorkIsHeld` is stated without purges, stops and
  crashes;
- two replays at once beside an application lose a key without any crash: each removes
  the letter that the other has written and attaches to the item that failed before.
  `SharedWorkIsHeld` is therefore stated for commands one after another, and fails with two
  concurrent operators without that hypothesis (dead_letter.py:46, "we never silently
  drop unrecovered work");
- a failed replay is a new row with a new id, not "updated in place" (RUNBOOK.md:85);
- `ahc metrics` shows the breakers of a client that has just been started, not the
  daemon's (RUNBOOK.md:11), and executes the rows of the daemon meanwhile;
- `backoff_seconds()` draws from [0, target] where config.py:40 has the target plus
  a jitter, and caps `Retry-After` at max_delay where retry.py:14 says "verbatim";
- the status `in_progress`, "set the moment a worker picks the row up"
  (storage.py:62-63), is never written;
- `start()` after `stop()` on the same client skips a row whose future is still
  pending (client.py:257, "The owning path already enqueued; do nothing.");
- a crash between the response and `delete_inflight()` executes a request twice
  (ARCHITECTURE.md:155, "Recovery cannot re-execute a request that already
  succeeded");
- a key submitted again after its dead letter gets a second one (RUNBOOK.md:86,
  "the DLQ never grows duplicates for the same idempotency key");
- a reschedule whose sleep ends after the last `task_done()` and before `drain()`
  runs is not among the pending tasks: `drain()` returns with its item in the queue
  (client.py:168);
- the outcome of a call admitted before the breaker opened ends the half-open
  period (circuit_breaker.py:88, "First successful probe closes the breaker.");
- a success that fills the window leaves a closed breaker above the failure rate,
  which only `on_failure()` evaluates (circuit_breaker.py:14);
- a task that comes later can take the token an earlier one sleeps for, as the lock
  is not held during the sleep (rate_limiter.py:11, "wake in FIFO order");
- `set_override()` adds a full bucket while tasks still draw from the old one
  (RUNBOOK.md:15, "Realized rate above configured | not possible without a bug").

### Fairness

`HardenedClient!FairSpec` asks only for weak fairness of `Progress` as a whole:
the loop runs some ready coroutine, which one is left open. The code justifies
it: sleeps are finite, `ClientTimeout(total)` ends every exchange, the storage
answers. `Progress` includes `Start`, so a supervisor restarts a crashed process
(within `MaxBoots`). New requests, stops, cancellations and crashes are never
required. `CircuitBreaker!FairSpec` asks that each admitted call returns, by the
same timeout. `SqliteStorage!Spec` asks that a call that can go on does: the thread
of a connection works through what was issued, and SQLite's busy timeout turns a
wait for another connection's transaction into an error. Cancellations, restarts and
new calls are never required. `HostPipeline!Spec` asks that time passes and that an
item that can be handled is; nothing is assumed about how exchanges end.

## Proofs

For every finite set of callers and keys, every `KeyOf`, any number of workers,
queue slots, retries and starts, and any `Events` without `"cancel"`
(with it, `NoDuplicateWork` and `NoLostWork` fail: see the contradictions above):

- `InductiveInvariant`: `Spec => []IInv`;
- from it `TypeCorrect`, `NoDuplicateWorkHolds`, `NoLostWorkHolds`,
  `RetryCountPersistedHolds`, `RetryBudgetHolds`, and `AnsweredAfterSettledHolds`
  (an action property).

None of these is inductive alone. `NoDuplicateWork` needs `WorkIsRegistered`: every
live item's key has a pending future, so neither a caller nor recovery can own it
again. `RetryCountPersisted` needs `SnapshotIsCurrent` (rows recovery has still to
visit are as they were at the SELECT unless their key was taken) and
`FreshStartsAtZero`. `NoLostWork` needs `SettlingIsNotOwed`: rows are deleted only
for keys that succeeded or have a dead letter, also by an operation that was
interrupted and took effect all the same, and by `NoDuplicateWork` no other
item of the key relies on the row. `RetryBudget` needs `ExchangesArePaid`: the
exchanges of a key never exceed its `retry_count` plus the number of starts, and
an item about to execute has one to spare. `SettledIsRecorded` gives
`AnsweredAfterSettled`. `QueueOnce` and `HandlersHaveWorkers` tie the queue and the
worker count to the stages. There is one lemma per action. `ConstantsAssumption`
is all that is assumed of the constants.

`ClientImplementsLedger` shows, under the same conditions, `Spec => ImplementsLedger`:
every action maps to `Accept`, `Finish`, `Bury` or `Close` of its key, or leaves the
ledger alone. The step simulation uses `IInv`: `SettlingIsNotOwed` gives the guard of
`Close`, `RetryCountPersisted` (an item that is being handled has its row) those of `Finish`
and `Bury`.

For the breaker, with any finite number of calls and any thresholds:
`TypeCorrect`, `ClosedIsHealthyHolds`, `CoolDownRespectedHolds`, and, from
`SlotsAccountedHolds` (the slots taken are those of the probes under way and of the
lost ones), `TrialsBoundedHolds` and `HalfOpenHasProbeHolds`.

`NothingOutlivesStopHolds` needs no condition on `Events` at all. Its invariant
`NoLateWork` says that no handler runs outside running, draining and cancelling, and
no `_reschedule` task exists outside running and draining; the step that matters is
the `drain()` of `stop()` letting it go on, which it does only when it has found no
pending reschedule (`DrainLeavesNoRetry`), whatever another `drain()` is doing.

`WaitersHaveWorkHolds` and `RowsHaveWorkHolds` hold for any `Events` out of crash,
drain and restart. A stop drops sleeping retries, a failing upsert or handler leaves
a future without an item, so both really need the condition. They rest on `Served`,
which is proved on top of `IInv`: a pending future has a live item, a waiting caller a
pending future, and while recovery runs every row whose key is free is still in
`todo`. `SettledIsRecorded` is what keeps it when a future is settled.

For the limiter, with any rates, bursts, tasks, overrides and length of time:
`TypeCorrect`, `BucketRateRespectedHolds`, `SleepSufficesHolds`. The rate follows from
`Budget`: for each grant of a bucket, the tokens granted from it on and those
left were in the full bucket or have flowed in since. The rate limit of an interval is the same
statement at the moment of its last grant. `SleepCovers` says that what has flowed in
and what will flow in during the rest of the sleep is a token, as long as nobody else has taken one.

For the storage, with any tasks, connections, keys and operations: `TypeCorrect`,
`OneTransactionHolds` and `StoreIsAtomic` (`Spec => ImplementsAtomicStore`). The
invariant is `OneTransaction` together with `TypeOK`, whose part `Queues` says that a
task is in the queue of its lock exactly once, and exactly while it writes. That a transaction of any length leaves tables of
the right type is shown by a least counterexample (`LeastNumber`): the function that
`ApplyAll` folds with exists, and has its type, up to every position. The refinement
maps a commit to the abstract operation that takes effect together with the abandoned
ones before it, and a cancellation after `execute()` to one more abandoned operation;
both sides apply `ApplyAll` to the same sequence, so there it stays opaque.

For the pipeline, with any items, replies, thresholds, delays and cool-down:
`UsesBreaker` (it is a behaviour of `CircuitBreaker`, fairness aside), from which
`PipelineTrialsBounded` carries a theorem about the breaker over; `TypeCorrect`; and
`OncePerCoolDownHolds`, from `Turned`: an item that was turned away sleeps at least as
long as the cool-down still lasts, or the cool-down is over and the next arrival makes
the breaker half-open.

For replay and the commands, with any keys, operators, launches, requests and purges:
`TypeCorrect`, `SnapshotIdsStayTrueHolds`, `OnlyReplayDropsHolds`,
`ReplayAddsNoDuplicatesHolds`, `ExitCodeIsTrueHolds` and `SharedWorkIsHeldHolds`. `IInv`
has a part for every behaviour (`Shapes`; `IdsTrue`: ids grow and a listed id names its
letter or nothing), one for processes that run one after the other (`AloneTrue`) and
one for commands one after another beside an application (`SharedTrue`). `AloneTrue` ties each process's
items to the tables (`ItemsTrue`: an item that is dead has its letter, the newest of its key), the list
to the letters that are left of it (`ListedTrue`), the letters of a key to those that
were there when the list was made (`Counted`) and the flag behind the exit code to the
entries replayed so far (`Results`). In `SharedTrue`, `Held` says where an owed key is
when an item of it is already done or dead in one process and not in another.

Of constants, the proofs assume what the named `ASSUME`s of the models say.

Only model-checked: liveness (`EveryRequestAnswered`, `RowsWorkedOff`,
`EveryItemLeaves`, `ProbingEnds`, `EveryOperationEnds`, `EveryItemSettles`), which is
out of the prover's reach, and that the client behaves with cancelled callers as
`client_cancel` says. Every invariant and action property of the passing runs is
proved.

## Not modelled

- Logging and the metrics counters (observability.py): they are incremented beside
  the actions and steer nothing.
- Serialisation, and the hash behind the idempotency key: equal keys are equal
  requests. The key leaves out the headers and `upsert_inflight()` keeps the payload
  that was there; the models do not tell such requests apart.
- The maps from hosts to breakers and buckets: entries are created under a lock and
  never removed, except by `set_override()`, which is modelled. That items of one host
  waiting for tokens occupy workers that other hosts need is not modelled.
- A power failure, after which `synchronous=NORMAL` may have lost commits: a crash is
  the end of the process.
- Argument parsing and output of the command line; `ahc dlq list`, which only reads.
- The mock server and the demo: the upstream is nondeterministic.
- `discard`, `try_enqueue` and `mark_inflight_status` are not called by the client.

## Plan

Done: the client and its ledger, the breaker, the limiter, replay and the commands,
the storage and its refinement, the pipeline of one host; proofs of every safety
property that a run checks. Next:

1. `WorkLedger` and `AtomicStore` as specifications to reason from: what follows from
   each alone (`WorkLedger`: what is owed has a row), so that it follows for the client
   and the storage by refinement.
2. The properties of the breaker that are not carried over to `HostPipeline` yet
   (`HalfOpenHasProbe`, `ClosedIsHealthy`, `CoolDownRespected`), by `UsesBreaker`.
3. With cancelled callers: the part of `IInv` that survives (types, queue, workers).
