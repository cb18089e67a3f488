-------------------------- MODULE DeadLetterReplay --------------------------
(***************************************************************************)
(* The dead-letter queue and the processes that work on its database       *)
(* (src/async_hardened_client/dead_letter.py, cli.py and the DLQ           *)
(* operations of storage.py): applications, `ahc dlq replay` with and      *)
(* without --id, `ahc dlq purge` and `ahc metrics`, one after the other or *)
(* beside a running application.                                           *)
(*                                                                         *)
(* Each process has a client of its own.  Of a client only what it does to *)
(* the tables is kept: an item is at work (queued, executing or waiting    *)
(* for a retry), done upstream or dead-lettered with its row still there,  *)
(* and then gone.  HardenedClient has the rest.                            *)
(***************************************************************************)
EXTENDS Integers, FiniteSets, SequencesExt

CONSTANTS
    App,           \* the application's process, one life after the other
    Operators,     \* processes in which the commands run
    Keys,          \* idempotency keys
    ListLimit,     \* the limit of 10_000 that replay passes to list_dead_letter()
    MaxLaunches,   \* bound: processes launched
    MaxSubmits,    \* bound: requests of the application
    MaxPurges,     \* bound: purges
    FaultSets      \* a behaviour has the faults of one of these subsets of AllFaults

(* shared: the commands run beside an application that does not stop.      *)
(* crash: processes are killed.  error: storage operations of replay fail. *)
AllFaults == {"shared", "crash", "error"}

Procs == {App} \cup Operators

ASSUME ReplayAssumption ==
    /\ IsFiniteSet(Operators) /\ App \notin Operators
    /\ IsFiniteSet(Keys)
    /\ ListLimit \in Nat /\ MaxLaunches \in Nat /\ MaxSubmits \in Nat /\ MaxPurges \in Nat
    /\ FaultSets \subseteq SUBSET AllFaults

VARIABLES
    faults,    \* the faults of this behaviour
    rows,      \* table inflight_requests: its keys
    letters,   \* table dead_letter_queue: ids and keys
    lastId,    \* the AUTOINCREMENT sequence of dead_letter_queue
    proc,      \* each process: its command and how far it is
    item,      \* each process's item for each key
    used,      \* launches, submissions and purges so far
    owed,      \* history: keys accepted, not since done upstream and not purged
    dropped    \* history: owed keys whose letters replay removed and did not send upstream

tables  == <<rows, letters, lastId>>
history == <<owed, dropped>>
vars    == <<faults, tables, proc, item, used, history>>

Commands == {"app", "metrics", "replay", "replayOne"}
Letter   == [id : Nat \ {0}, key : Keys]

NoItem  == [at |-> "none", letter |-> 0]
Working == [at |-> "work", letter |-> 0]
Off == [cmd |-> "none", pc |-> "off", list |-> <<>>, pos |-> 1, failed |-> FALSE,
        exit |-> "none", base |-> [k \in Keys |-> 0]]

TypeOK ==
    /\ faults \in FaultSets
    /\ rows \subseteq Keys
    /\ letters \subseteq Letter /\ lastId \in Nat
    /\ \A l, m \in letters : l.id = m.id => l = m
    /\ proc \in [Procs -> [cmd : Commands \cup {"none"},
                           pc : {"off", "serve", "list", "remove", "submit", "await", "stopping"},
                           list : Seq(Letter), pos : Nat, failed : BOOLEAN,
                           exit : {"none", "0", "1", "2", "raised"}, base : [Keys -> Nat]]]
    /\ item \in [Procs -> [Keys -> [at : {"none", "work", "done", "dead"}, letter : Nat]]]
    /\ used \in [launches : Nat, submits : 0..MaxSubmits, purges : 0..MaxPurges]
    /\ owed \subseteq Keys /\ dropped \subseteq owed

Init ==
    /\ faults \in FaultSets
    /\ rows = {} /\ letters = {} /\ lastId = 0
    /\ proc = [p \in Procs |-> Off]
    /\ item = [p \in Procs |-> [k \in Keys |-> NoItem]]
    /\ used = [launches |-> 0, submits |-> 0, purges |-> 0]
    /\ owed = {} /\ dropped = {}

-----------------------------------------------------------------------------
(* Helpers *)

HasLetter(k) == \E l \in letters : l.key = k
Copies(k)    == Cardinality({l \in letters : l.key = k})

(* The row of the snapshot that replay_entry() works on. *)
Entry(p) == proc[p].list[proc[p].pos]

(* replay_entry() is between remove_dead_letter() and upsert_inflight(). *)
InWindow(p, k) == proc[p].pc = "submit" /\ Entry(p).key = k

(* Bounds: the processes run one after another, or, when the database is   *)
(* shared, each operator's commands one after another beside the rest.     *)
MayLaunch ==
    /\ used.launches < MaxLaunches
    /\ "shared" \in faults \/ \A p \in Procs : proc[p].pc = "off"

SetItem(p, k, i) == item' = [item EXCEPT ![p][k] = i]

(* Mutant: nothing is persisted before the item is enqueued. *)
AcceptInMemory(p, k) ==
    /\ SetItem(p, k, Working)
    /\ owed' = owed \cup {k}
    /\ dropped' = dropped \ {k}
    /\ UNCHANGED rows

(* _submit() as the owner of the key: upsert and enqueue. *)
Accept(p, k) ==
    /\ rows' = rows \cup {k}
    /\ SetItem(p, k, Working)
    /\ owed' = owed \cup {k}
    /\ dropped' = dropped \ {k}

-----------------------------------------------------------------------------
(* The client of a process *)

(* start(): recovery enqueues every row, whoever else works on it. *)
Launch(p, cmd) ==
    /\ proc[p].pc = "off" /\ MayLaunch
    /\ cmd = "app" <=> p = App
    /\ proc' = [proc EXCEPT ![p] = [Off EXCEPT !.cmd = cmd,
                    !.pc = IF cmd \in {"replay", "replayOne"} THEN "list" ELSE "serve"]]
    /\ item' = [item EXCEPT ![p] = [k \in Keys |-> IF k \in rows THEN Working ELSE NoItem]]
    /\ used' = [used EXCEPT !.launches = @ + 1]
    /\ UNCHANGED <<faults, tables, history>>

(* An application calls request(); a key in the process would be attached to. *)
Submit(p, k) ==
    /\ proc[p].cmd = "app" /\ proc[p].pc = "serve"
    /\ used.submits < MaxSubmits
    /\ item[p][k] = NoItem
    /\ Accept(p, k)
    /\ used' = [used EXCEPT !.submits = @ + 1]
    /\ UNCHANGED <<faults, letters, lastId, proc>>

Succeed(p, k) ==
    /\ item[p][k] = Working
    /\ SetItem(p, k, [at |-> "done", letter |-> 0])
    /\ owed' = owed \ {k} /\ dropped' = dropped \ {k}
    /\ UNCHANGED <<faults, tables, proc, used>>

(* Mutants: INTEGER PRIMARY KEY without AUTOINCREMENT; the number of rows. *)
NextIdCounted == Cardinality(letters) + 1
NextIdReused == IF letters = {} THEN 1 ELSE Max({l.id : l \in letters}) + 1

NextId == lastId + 1

(* Mutant: the letter is made from the row, if there is one. *)
PushFromRow(p, k) ==
    /\ item[p][k] = Working
    /\ letters' = IF k \in rows THEN letters \cup {[id |-> NextId, key |-> k]} ELSE letters
    /\ lastId' = NextId
    /\ SetItem(p, k, [at |-> "dead", letter |-> NextId])
    /\ UNCHANGED <<faults, rows, proc, used, history>>

(* The INSERT of push_dead_letter(), from the item itself. *)
PushDeadLetter(p, k) ==
    /\ item[p][k] = Working
    /\ letters' = letters \cup {[id |-> NextId, key |-> k]}
    /\ lastId' = NextId
    /\ SetItem(p, k, [at |-> "dead", letter |-> NextId])
    /\ UNCHANGED <<faults, rows, proc, used, history>>

(* Mutant: the caller of the last replay decides alone. *)
FailedIsLast(failed, ok) == ~ok

(* not all(r.succeeded for r in results) *)
Failed(failed, ok) == failed \/ ~ok

(* The exit code of a replay of all rows, or of one. *)
ExitCode(cmd, failed) == IF ~failed THEN "0" ELSE IF cmd = "replay" THEN "2" ELSE "1"

(* The process r when replay_entry() has returned. *)
Answered(r, ok) ==
    LET s == [r EXCEPT !.failed = Failed(@, ok), !.pos = @ + 1]
    IN  IF s.pos <= Len(s.list) THEN [s EXCEPT !.pc = "remove"]
        ELSE [s EXCEPT !.pc = "stopping", !.exit = ExitCode(s.cmd, s.failed)]

(* replay_entry() waits for the future of k. *)
Awaits(p, k) == proc[p].pc = "await" /\ Entry(p).key = k

(* A replay that attached to the item of k after its exchange gets the     *)
(* response of that exchange, though k may have been accepted since: the   *)
(* letter is gone and nobody is left to send the request.                  *)
AnsweredUnsent(p, k) ==
    /\ Awaits(p, k) /\ item[p][k].at = "done"
    /\ k \in owed /\ ~HasLetter(k)
    /\ \A q \in Procs : item[q][k] # Working

(* delete_inflight(), then resolve() or fail(). *)
DeleteInflight(p, k) ==
    /\ item[p][k].at \in {"done", "dead"}
    /\ rows' = rows \ {k}
    /\ SetItem(p, k, NoItem)
    /\ proc' = IF Awaits(p, k)
               THEN [proc EXCEPT ![p] = Answered(@, item[p][k].at = "done")]
               ELSE proc
    /\ dropped' = IF AnsweredUnsent(p, k) THEN dropped \cup {k} ELSE dropped
    /\ UNCHANGED <<faults, letters, lastId, used, owed>>

(* The end of `async with`: an application is stopped, or metrics has      *)
(* printed its snapshot.                                                   *)
Leave(p) ==
    /\ proc[p].pc = "serve"
    /\ proc[p].cmd = "app" => "shared" \notin faults
    /\ proc' = [proc EXCEPT ![p].pc = "stopping"]
    /\ UNCHANGED <<faults, tables, item, used, history>>

(* A retry that comes due after stop() has set _stopping. *)
Abandon(p, k) ==
    /\ proc[p].pc = "stopping"
    /\ item[p][k] = Working
    /\ SetItem(p, k, NoItem)
    /\ UNCHANGED <<faults, tables, proc, used, history>>

Exit(p) ==
    /\ proc[p].pc = "stopping"
    /\ \A k \in Keys : item[p][k] = NoItem
    /\ proc' = [proc EXCEPT ![p] = Off]
    /\ UNCHANGED <<faults, tables, item, used, history>>

-----------------------------------------------------------------------------
(* dead_letter.py and cli.py *)

(* list_dead_letter(): newest first, up to the limit. *)
Snapshots ==
    {s \in SeqOf(letters, ListLimit) :
        /\ \A i, j \in DOMAIN s : i < j => s[i].id > s[j].id
        /\ \A l \in letters : \/ \E i \in DOMAIN s : s[i] = l
                              \/ Len(s) = ListLimit /\ \A i \in DOMAIN s : s[i].id > l.id}

(* The command has its list: replay its entries, or return. *)
Listed(p, list, exit) ==
    proc' = [proc EXCEPT ![p] =
        [@ EXCEPT !.list = list,
                  !.pc = IF list = <<>> THEN "stopping" ELSE "remove",
                  !.exit = IF list = <<>> THEN exit ELSE "none",
                  !.base = [k \in Keys |-> Copies(k) + IF item[p][k].at = "work" THEN 1 ELSE 0]]]

(* replay_all(), or the search for --id, which may be an id of no row. *)
List(p) ==
    /\ proc[p].pc = "list"
    /\ \E s \in Snapshots :
        \/ proc[p].cmd = "replay" /\ Listed(p, s, "0")
        \/ /\ proc[p].cmd = "replayOne"
           /\ \/ \E i \in DOMAIN s : Listed(p, <<s[i]>>, "none")
              \/ Listed(p, <<>>, "1")
    /\ UNCHANGED <<faults, tables, item, used, history>>

(* Mutant: nothing is deleted. *)
LettersKept(id) == letters

LettersWithout(id) == {l \in letters : l.id # id}

(* remove_dead_letter() has the write lock, for which it queues behind the *)
(* delete_inflight() of an item of this process that wrote the letter.     *)
MayRemove(p) ==
    /\ proc[p].pc = "remove"
    /\ item[p][Entry(p).key].letter # Entry(p).id

RemoveLetter(p) ==
    /\ MayRemove(p)
    /\ letters' = LettersWithout(Entry(p).id)
    /\ proc' = [proc EXCEPT ![p].pc = "submit"]
    /\ UNCHANGED <<faults, rows, lastId, item, used, history>>

(* client.request(): owns the key, or attaches to the item in the process. *)
Resubmit(p) ==
    /\ proc[p].pc = "submit"
    /\ proc' = [proc EXCEPT ![p].pc = "await"]
    /\ LET k == Entry(p).key
       IN  IF item[p][k] = NoItem
           THEN Accept(p, k)
           ELSE UNCHANGED <<rows, item, history>>
    /\ UNCHANGED <<faults, letters, lastId, used>>

(* The process stops caring for k, whose letter it has removed. *)
Drops(p, k, ls) ==
    dropped' = IF k \in owed \ rows /\ \A l \in ls : l.key # k THEN dropped \cup {k} ELSE dropped

(* A storage operation raises, which replay_entry() does not catch.  The   *)
(* DELETE may have been executed: a later commit on the connection ends    *)
(* its transaction.                                                        *)
ReplayRaises(p) ==
    /\ "error" \in faults
    /\ \/ proc[p].pc = "list" /\ UNCHANGED <<letters, dropped>>
       \/ MayRemove(p) /\ UNCHANGED <<letters, dropped>>
       \/ /\ MayRemove(p)
          /\ letters' = LettersWithout(Entry(p).id)
          /\ Drops(p, Entry(p).key, letters')
       \/ proc[p].pc = "submit" /\ Drops(p, Entry(p).key, letters) /\ UNCHANGED letters
    /\ proc' = [proc EXCEPT ![p].pc = "stopping", ![p].exit = "raised"]
    /\ UNCHANGED <<faults, rows, lastId, item, used, owed>>

(* `ahc dlq purge --yes`: one transaction.  The operator gives up the      *)
(* requests of the letters.                                                *)
Purge ==
    /\ letters # {} /\ used.purges < MaxPurges
    /\ "shared" \in faults \/ \A p \in Procs : proc[p].pc = "off"
    /\ used' = [used EXCEPT !.purges = @ + 1]
    /\ letters' = {}
    /\ owed' = {k \in owed : ~HasLetter(k)}
    /\ dropped' = dropped \cap owed'
    /\ UNCHANGED <<faults, rows, lastId, proc, item>>

(* The process is killed. *)
Crash(p) ==
    /\ "crash" \in faults
    /\ proc[p].pc # "off"
    /\ IF proc[p].pc = "submit"
       THEN Drops(p, Entry(p).key, letters)
       ELSE UNCHANGED dropped
    /\ proc' = [proc EXCEPT ![p] = Off]
    /\ item' = [item EXCEPT ![p] = [k \in Keys |-> NoItem]]
    /\ UNCHANGED <<faults, tables, used, owed>>

-----------------------------------------------------------------------------

(* What a running process does by itself. *)
Work(p) ==
    \/ List(p) \/ RemoveLetter(p) \/ Resubmit(p) \/ Exit(p)
    \/ \E k \in Keys : Succeed(p, k) \/ PushDeadLetter(p, k) \/ DeleteInflight(p, k) \/ Abandon(p, k)

Next ==
    \/ Purge
    \/ \E p \in Procs :
        \/ Work(p) \/ Leave(p) \/ ReplayRaises(p) \/ Crash(p)
        \/ \E cmd \in Commands : Launch(p, cmd)
        \/ \E k \in Keys : Submit(p, k)

Spec == Init /\ [][Next]_vars

-----------------------------------------------------------------------------
(* Safety *)

(* With one process at a time, work that was accepted and not done is in   *)
(* one of the tables at every moment, crashes and failing operations       *)
(* included, except while and after replay_entry() is cut short between    *)
(* remove_dead_letter() and the upsert of request().                       *)
OnlyReplayDrops ==
    "shared" \notin faults =>
        \A k \in owed \ dropped : k \in rows \/ HasLetter(k) \/ \E p \in Procs : InWindow(p, k)

(* Beside a running application a command deletes rows and letters that    *)
(* are not its own: a key may then be in neither table, but as long as     *)
(* nothing crashes, nobody purges and the commands run one after another,  *)
(* the application still works on it or a command is replaying it, unless  *)
(* a replay took the response of an older exchange for it (dropped).  (Two *)
(* replays at once lose it: each removes the letter the other has written  *)
(* and attaches to the item that failed before.)                           *)
SharedWorkIsHeld ==
    faults = {"shared"} /\ used.purges = 0 /\ (\A o, q \in Operators : o = q) =>
        \A k \in owed \ dropped :
            \/ k \in rows \/ HasLetter(k)
            \/ item[App][k] = Working
            \/ \E o \in Operators : InWindow(o, k) \/ Awaits(o, k)

(* The ids in a replay's snapshot never come to name another request,      *)
(* whatever is purged, replayed and dead-lettered meanwhile: replay        *)
(* deletes no letter but the one it resubmits.                             *)
SnapshotIdsStayTrue ==
    \A p \in Procs : \A i \in proc[p].pos..Len(proc[p].list) :
        \A l \in letters : l.id = proc[p].list[i].id => l = proc[p].list[i]

(* "the DLQ never grows duplicates": a replay that runs alone leaves, for  *)
(* each request, no more letters than it found and had recovered rows for, *)
(* and one less while it is being resubmitted.                             *)
ReplayAddsNoDuplicates ==
    "shared" \notin faults =>
        \A p \in Procs, k \in Keys :
            proc[p].pc \in {"remove", "submit", "await", "stopping"}
                           /\ proc[p].cmd \in {"replay", "replayOne"} /\ proc[p].list # <<>> =>
                Copies(k) + (IF InWindow(p, k) THEN 1 ELSE 0) <= proc[p].base[k]

(* "The CLI exits 0 if every replay succeeded, 2 if some are still         *)
(* failing": alone, 0 means that nothing of the snapshot is owed any more, *)
(* 2 that a letter of the snapshot's requests is there again.  With --id a *)
(* replay that is still failing exits 1, like an id of no row: 1 with a    *)
(* row found means that the letter is there again.                         *)
ExitCodeIsTrue ==
    "shared" \notin faults =>
        \A p \in Procs :
            LET listed == {proc[p].list[i].key : i \in DOMAIN proc[p].list}
            IN  /\ proc[p].exit = "0" => listed \cap owed = {}
                /\ proc[p].exit \in {"1", "2"} /\ listed # {} => \E k \in listed : HasLetter(k)

-----------------------------------------------------------------------------
(* What the documentation says and the code does not do *)

(* replay_entry(): "we never silently drop unrecovered work". *)
ReplayDropsNothing == dropped = {}

=============================================================================
