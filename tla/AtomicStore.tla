----------------------------- MODULE AtomicStore -----------------------------
(***************************************************************************)
(* What the client relies on when it calls Storage                         *)
(* (src/async_hardened_client/storage.py): an operation takes effect in    *)
(* one step, between its call and its return.  An operation that is        *)
(* abandoned - its task is cancelled, or it raises - takes effect at once, *)
(* together with a later operation, in the order in which they were        *)
(* abandoned, or never.                                                    *)
(***************************************************************************)
EXTENDS Integers, Sequences

CONSTANTS
    Tasks,         \* coroutines that call the storage
    Keys,          \* idempotency keys
    Operations     \* the operations: records with an op, and a key or a letter's id

VARIABLES
    tables,    \* what a process that starts would find
    pending,   \* the operation each task is in: None, one of Operations, or Effected
    orphans    \* abandoned operations that may still take effect

vars == <<tables, pending, orphans>>

None     == [op |-> "none"]
Effected == [op |-> "effected"]
NoRow    == -1
Empty    == [rows |-> [k \in Keys |-> NoRow], letters |-> {}, last |-> 0]

Init ==
    /\ tables = Empty
    /\ pending = [t \in Tasks |-> None]
    /\ orphans = <<>>

-----------------------------------------------------------------------------
(* What the statements do to the tables: the retry_count of each key's row *)
(* in inflight_requests, the ids and keys of dead_letter_queue, and the    *)
(* last id that its AUTOINCREMENT has given.                               *)

(* ON CONFLICT: the row starts again. *)
upsert_inflight(s, k) == [s EXCEPT !.rows[k] = 0]
increment_retry(s, k) == IF s.rows[k] = NoRow THEN s ELSE [s EXCEPT !.rows[k] = @ + 1]
delete_inflight(s, k) == [s EXCEPT !.rows[k] = NoRow]

push_dead_letter(s, k) ==
    [s EXCEPT !.letters = @ \cup {[id |-> s.last + 1, key |-> k]}, !.last = @ + 1]

(* An id of no row deletes nothing. *)
remove_dead_letter(s, id) == [s EXCEPT !.letters = {l \in @ : l.id # id}]
purge_dead_letter(s) == [s EXCEPT !.letters = {}]

Apply(s, o) ==
    CASE o.op = "upsert"    -> upsert_inflight(s, o.key)
      [] o.op = "increment" -> increment_retry(s, o.key)
      [] o.op = "delete"    -> delete_inflight(s, o.key)
      [] o.op = "push"      -> push_dead_letter(s, o.key)
      [] o.op = "remove"    -> remove_dead_letter(s, o.id)
      [] o.op = "purge"     -> purge_dead_letter(s)

(* The operations of a sequence, one after the other. *)
ApplyAll(s, ops) ==
    LET after[i \in 0..Len(ops)] == IF i = 0 THEN s ELSE Apply(after[i - 1], ops[i])
    IN  after[Len(ops)]

-----------------------------------------------------------------------------

Call(t, o) ==
    /\ pending[t] = None
    /\ pending' = [pending EXCEPT ![t] = o]
    /\ UNCHANGED <<tables, orphans>>

(* The operation takes effect, behind those abandoned before it. *)
Effect(t) ==
    /\ pending[t] \in Operations
    /\ tables' = ApplyAll(tables, Append(orphans, pending[t]))
    /\ orphans' = <<>>
    /\ pending' \in {[pending EXCEPT ![t] = None], [pending EXCEPT ![t] = Effected]}

Return(t) ==
    /\ pending[t] = Effected
    /\ pending' = [pending EXCEPT ![t] = None]
    /\ UNCHANGED <<tables, orphans>>

(* Some tasks give up: one that is cancelled or gets an error, whose       *)
(* operation may still take effect, or all tasks of a process that ends.   *)
Abandon(ts) ==
    /\ pending' = [t \in Tasks |-> IF t \in ts THEN None ELSE pending[t]]
    /\ \/ orphans' \in {orphans, <<>>}
       \/ \E t \in ts : pending[t] \in Operations /\ orphans' = Append(orphans, pending[t])
    /\ UNCHANGED tables

Next ==
    \/ \E ts \in SUBSET Tasks : Abandon(ts)
    \/ \E t \in Tasks :
        \/ Effect(t) \/ Return(t)
        \/ \E o \in Operations : Call(t, o)

Spec == Init /\ [][Next]_vars

=============================================================================
