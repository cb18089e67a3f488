---------------------------- MODULE SqliteStorage ----------------------------
(***************************************************************************)
(* Storage on its SQLite connections (src/async_hardened_client/           *)
(* storage.py): every write waits for the asyncio lock of its Storage,     *)
(* awaits execute(), which opens a transaction, and then commit().  Both   *)
(* run in the thread of the connection, in the order in which they were    *)
(* issued, whether or not the task that issued them is cancelled.          *)
(*                                                                         *)
(* Two processes have a connection each to one database file; SQLite lets  *)
(* one of them at a time have a transaction that writes.  Nothing in       *)
(* storage.py rolls back: a cancellation or an error between execute() and *)
(* commit() releases the lock and leaves the transaction open.             *)
(***************************************************************************)
EXTENDS Integers, Sequences, SequencesExt

CONSTANTS
    Tasks,       \* coroutines that call the storage
    Conns,       \* Storage instances, one per process
    ConnOf,      \* the instance that each task uses
    Keys,        \* idempotency keys
    Ops,         \* the operations that are called, a subset of AllOps
    Ids,         \* the letters' ids that remove_dead_letter() is called with
    MaxCalls     \* bound: calls in all

AllOps == {"upsert", "increment", "delete", "push", "remove", "purge"}
Operations == [op : Ops \ {"remove"}, key : Keys] \cup [op : Ops \cap {"remove"}, id : Ids]

NoConn == "none"

ASSUME StorageAssumption ==
    /\ ConnOf \in [Tasks -> Conns] /\ NoConn \notin Conns
    /\ Ops \subseteq AllOps
    /\ MaxCalls \in Nat

VARIABLES
    durable,   \* the tables as the database file has them
    txn,       \* the statements of the open transaction
    writer,    \* the connection that has it, or NoConn
    lock,      \* Storage._write_lock of each instance: the holder, then those who wait
    task,      \* each task: where it is in which operation
    calls      \* bound

vars == <<durable, txn, writer, lock, task, calls>>

Idle   == [pc |-> "idle", o |-> [op |-> "none"]]

Tables == [rows : [Keys -> Int], letters : SUBSET [id : Nat, key : Keys], last : Nat]

Typed ==
    /\ durable \in Tables
    /\ txn \in Seq(Operations)
    /\ writer \in Conns \cup {NoConn} /\ (writer = NoConn => txn = <<>>)
    /\ lock \in [Conns -> Seq(Tasks)]
    /\ task \in [Tasks -> {Idle} \cup [pc : {"execute", "commit", "select"}, o : Operations]]
    /\ calls \in 0..MaxCalls

Writing(t) == task[t].pc \in {"execute", "commit"}

(* A task is in the queue of its own lock, once, exactly while it writes. *)
Queues ==
    /\ \A c \in Conns : \A i, j \in DOMAIN lock[c] : lock[c][i] = lock[c][j] => i = j
    /\ \A c \in Conns : \A i \in DOMAIN lock[c] :
          ConnOf[lock[c][i]] = c /\ Writing(lock[c][i])
    /\ \A t \in Tasks : Writing(t) =>
          \E i \in DOMAIN lock[ConnOf[t]] : lock[ConnOf[t]][i] = t

(* The variables have their types, and the queues of the locks hold the    *)
(* tasks that write, however these are cancelled, fail or end.             *)
TypeOK == Typed /\ Queues

Init ==
    /\ durable = [rows |-> [k \in Keys |-> -1], letters |-> {}, last |-> 0]
    /\ txn = <<>> /\ writer = NoConn
    /\ lock = [c \in Conns |-> <<>>]
    /\ task = [t \in Tasks |-> Idle]
    /\ calls = 0

-----------------------------------------------------------------------------
(* Refinement: what has not been committed has not taken effect.  The      *)
(* statements of the transaction are those of abandoned operations, except *)
(* the last one while its task awaits commit().                            *)

Committing == {t \in Tasks : task[t].pc = "commit"}

Pending ==
    [t \in Tasks |-> CASE task[t].pc = "idle"   -> [op |-> "none"]
                       [] task[t].pc = "select" -> [op |-> "effected"]
                       [] OTHER                 -> task[t].o]
Orphans == IF Committing = {} THEN txn ELSE Front(txn)

Abstract == INSTANCE AtomicStore WITH tables <- durable, pending <- Pending, orphans <- Orphans

-----------------------------------------------------------------------------
(* Helpers *)

(* Mutant: a lock of its own for each call. *)
HoldsOwnLock(t) == TRUE

(* Whether t has the asyncio lock, which is handed on in the order of arrival. *)
Holds(t) == lock[ConnOf[t]] # <<>> /\ Head(lock[ConnOf[t]]) = t

(* Where t stands in the queue of its lock. *)
Place(t) == CHOOSE i \in DOMAIN lock[ConnOf[t]] : lock[ConnOf[t]][i] = t

(* Mutant: acquire() and release() without try and finally. *)
ReleaseOnReturn(t) ==
    IF task[t].pc = "commit" THEN [lock EXCEPT ![ConnOf[t]] = RemoveAt(@, Place(t))] ELSE lock

(* Mutant: acquire() inside the try: one who is cancelled while it waits   *)
(* releases the lock of the holder.                                        *)
ReleaseUnacquired(t) == [lock EXCEPT ![ConnOf[t]] = Tail(@)]

(* `async with self._write_lock` is left, by its holder or by one who waits. *)
Release(t) == [lock EXCEPT ![ConnOf[t]] = RemoveAt(@, Place(t))]

Goto(t, pc) == task' = [task EXCEPT ![t].pc = pc]
Raise(t)    == task' = [task EXCEPT ![t] = Idle] /\ lock' = Release(t)

Unlocked(t) == writer \in {NoConn, ConnOf[t]}

-----------------------------------------------------------------------------
(* The operations *)

Call(t, o) ==
    /\ task[t] = Idle /\ calls < MaxCalls
    /\ calls' = calls + 1
    /\ lock' = [lock EXCEPT ![ConnOf[t]] = Append(@, t)]
    /\ task' = [task EXCEPT ![t] = [pc |-> "execute", o |-> o]]
    /\ UNCHANGED <<durable, txn, writer>>

(* execute() in the connection's thread; it begins a transaction, or goes  *)
(* on with the one that was left open.                                     *)
Statement(t) ==
    /\ Holds(t) /\ task[t].pc = "execute"
    /\ Unlocked(t)
    /\ txn' = Append(txn, task[t].o)
    /\ writer' = ConnOf[t]

Execute(t) ==
    /\ Statement(t)
    /\ Goto(t, "commit")
    /\ UNCHANGED <<durable, lock, calls>>

(* execute() raises: the disk, or "database is locked" after sqlite3's     *)
(* timeout, within which a transaction that nobody abandoned is over.      *)
ExecuteFails(t) ==
    /\ Holds(t) /\ task[t].pc = "execute"
    /\ Unlocked(t) \/ Committing = {}
    /\ Raise(t)
    /\ UNCHANGED <<durable, txn, writer, calls>>

Committed ==
    /\ durable' = Abstract!ApplyAll(durable, txn)
    /\ txn' = <<>> /\ writer' = NoConn

(* Mutant: the UPDATE of the retry counter is not committed. *)
CommitsButIncrement(t) ==
    IF task[t].o.op = "increment" THEN UNCHANGED <<durable, txn, writer>> ELSE Committed

(* commit() in the connection's thread. *)
Commits(t) == Committed

(* commit() returns; increment_retry() has a SELECT to do without the lock. *)
Commit(t) ==
    /\ task[t].pc = "commit"
    /\ Commits(t)
    /\ lock' = Release(t)
    /\ IF task[t].o.op = "increment" THEN Goto(t, "select") ELSE task' = [task EXCEPT ![t] = Idle]
    /\ UNCHANGED calls

(* commit() raises; SQLite may have rolled back. *)
CommitFails(t) ==
    /\ task[t].pc = "commit"
    /\ \/ UNCHANGED <<txn, writer>>
       \/ txn' = <<>> /\ writer' = NoConn
    /\ Raise(t)
    /\ UNCHANGED <<durable, calls>>

(* The row is read, or the SELECT raises, or its task is cancelled. *)
Select(t) ==
    /\ task[t].pc = "select"
    /\ task' = [task EXCEPT ![t] = Idle]
    /\ UNCHANGED <<durable, txn, writer, lock, calls>>

-----------------------------------------------------------------------------
(* The environment *)

(* The task is cancelled where it waits: for the lock, for execute() or    *)
(* for commit().  The thread carries out what was issued.                  *)
Cancel(t) ==
    /\ \/ task[t].pc = "execute" /\ ~Holds(t) /\ UNCHANGED <<durable, txn, writer>>
       \/ Statement(t) /\ UNCHANGED durable
       \/ task[t].pc = "commit" /\ Committed
    /\ Raise(t)
    /\ UNCHANGED calls

(* The process of c ends, or closes its Storage: an open transaction is    *)
(* rolled back, and the next open() finds the file as it is.               *)
Restart(c) ==
    /\ task' = [t \in Tasks |-> IF ConnOf[t] = c THEN Idle ELSE task[t]]
    /\ lock' = [lock EXCEPT ![c] = <<>>]
    /\ IF writer = c THEN txn' = <<>> /\ writer' = NoConn ELSE UNCHANGED <<txn, writer>>
    /\ UNCHANGED <<durable, calls>>

Proceed(t) == Execute(t) \/ ExecuteFails(t) \/ Commit(t) \/ CommitFails(t) \/ Select(t)

Next ==
    \/ \E c \in Conns : Restart(c)
    \/ \E t \in Tasks : Proceed(t) \/ Cancel(t) \/ \E o \in Operations : Call(t, o)

(* The connections' threads and the event loops do not rest. *)
Spec == Init /\ [][Next]_vars /\ \A t \in Tasks : WF_vars(Proceed(t))

-----------------------------------------------------------------------------
(* Properties *)

(* The lock, the two awaits and the transactions that are left open add up *)
(* to atomic operations: what returned is in the file, what is in the file *)
(* was asked for, each operation counts once and behind those before it -  *)
(* through cancellations, errors, crashes and a second process.            *)
ImplementsAtomicStore == Abstract!Spec

(* Every operation returns or raises: neither the lock nor SQLite's own    *)
(* write lock, which an abandoned transaction of another process keeps,    *)
(* holds up a task for ever.                                               *)
EveryOperationEnds == \A t \in Tasks : task[t] # Idle ~> task[t] = Idle

(* A statement without its commit is the work of an abandoned operation or *)
(* of the holder of the lock: no two tasks of a Storage are between        *)
(* execute() and commit(), and none is while another process writes.       *)
OneTransaction ==
    /\ \A t, u \in Committing : t = u
    /\ \A t \in Committing : Holds(t) /\ writer = ConnOf[t] /\ Last(txn) = task[t].o

=============================================================================
