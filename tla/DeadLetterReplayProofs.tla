----------------------- MODULE DeadLetterReplayProofs ------------------------
(***************************************************************************)
(* Proofs about DeadLetterReplay, for any number of processes, requests,   *)
(* launches and purges: the ids of a snapshot stay true whatever runs      *)
(* beside the replay; a replay that runs alone drops nothing outside its   *)
(* window, adds no duplicates, and exits with a code that is true; beside  *)
(* an application, commands one after another lose nothing but what a      *)
(* replay answers with an older response.                                  *)
(***************************************************************************)
EXTENDS DeadLetterReplay, FiniteSetTheorems, TLAPS

-----------------------------------------------------------------------------
(* The inductive invariant *)

Replays == {"replay", "replayOne"}

(* replay_entry() is at work on an entry of the list. *)
Replaying(p) == proc[p].pc \in {"remove", "submit", "await"}

Ids(s) == {s[i].id : i \in DOMAIN s}

Done    == [at |-> "done", letter |-> 0]
Dead(n) == [at |-> "dead", letter |-> n]

(* What holds of a process, alone or not. *)
ProcShape(p) ==
    /\ proc[p].pc = "off" => proc[p] = Off /\ \A k \in Keys : item[p][k] = NoItem
    /\ proc[p].pc \in {"serve", "list"} =>
        proc[p].list = <<>> /\ proc[p].pos = 1 /\ proc[p].failed = FALSE
    /\ proc[p].pc # "stopping" => proc[p].exit = "none"
    /\ proc[p].pc = "list" \/ proc[p].list # <<>> => proc[p].cmd \in Replays
    /\ proc[p].pos \in Nat \ {0}
    /\ Replaying(p) => proc[p].pos <= Len(proc[p].list)

ItemShape(p) ==
    \A k \in Keys :
        \/ item[p][k] \in {NoItem, Working, Done}
        \/ item[p][k].letter \in 1..lastId /\ item[p][k] = Dead(item[p][k].letter)

Shapes == \A p \in Procs : ProcShape(p) /\ ItemShape(p)

(* A list is in descending order, and an id of it, once given, is not      *)
(* given to another letter.                                                *)
ListTrue(s) ==
    /\ \A i, j \in DOMAIN s : i < j => s[i].id > s[j].id
    /\ \A i \in DOMAIN s :
        /\ s[i].id <= lastId
        /\ \A l \in letters : l.id = s[i].id => l = s[i]

IdsTrue ==
    /\ IsFiniteSet(letters)
    /\ \A l \in letters : l.id <= lastId
    /\ \A p \in Procs : ListTrue(proc[p].list)

(* One process at a time. *)
Solo == \A p, q \in Procs : proc[p].pc # "off" /\ proc[q].pc # "off" => p = q

(* Alone, the items of a process agree with the tables: an item at work    *)
(* has its row; one that is done is not owed; one that is dead has its     *)
(* letter, which is the newest of its key.                                 *)
ItemsTrue(p) ==
    \A k \in Keys :
        /\ item[p][k].at = "work" => k \in rows
        /\ item[p][k].at = "done" => k \notin owed
        /\ item[p][k].at = "dead" =>
            /\ [id |-> item[p][k].letter, key |-> k] \in letters
            /\ \A l \in letters : l.key = k => l.id <= item[p][k].letter
            /\ \A i \in DOMAIN proc[p].list :
                proc[p].list[i].key = k => proc[p].list[i].id <= item[p][k].letter

Kept(k) == k \in rows \/ HasLetter(k) \/ \E p \in Procs : InWindow(p, k)

(* Alone, the letters of the list are there until they are removed, and    *)
(* not afterwards.                                                         *)
Handled(p, i) == i < proc[p].pos \/ (i = proc[p].pos /\ proc[p].pc # "remove")

ListedTrue(p) ==
    Replaying(p) =>
        \A i \in DOMAIN proc[p].list : Handled(p, i) <=> proc[p].list[i] \notin letters

(* Alone, no request has more letters, with the one it is to have and the  *)
(* one it lost in the window, than when the list was made.                 *)
AtWork(p, k) == IF item[p][k].at = "work" THEN 1 ELSE 0
InHand(p, k) == IF InWindow(p, k) THEN 1 ELSE 0

Counted(p) ==
    proc[p].list # <<>> =>
        \A k \in Keys : Copies(k) + InHand(p, k) + AtWork(p, k) <= proc[p].base[k]

(* Alone, `failed' says what became of the entries replayed so far: if it  *)
(* is set, one of them has a letter that is not of the list; if not, none  *)
(* of them is owed, unless it is being replayed once more.                 *)
SomeFailed(p) ==
    \E i \in DOMAIN proc[p].list :
        \E l \in letters : l.key = proc[p].list[i].key /\ l.id \notin Ids(proc[p].list)

NoneOwed(p) ==
    \A i \in DOMAIN proc[p].list :
        i < proc[p].pos =>
            \/ proc[p].list[i].key \notin owed
            \/ proc[p].pc = "await" /\ Entry(p).key = proc[p].list[i].key

Results(p) ==
    /\ Replaying(p) => IF proc[p].failed THEN SomeFailed(p) ELSE NoneOwed(p)
    /\ proc[p].exit = "0" => \A i \in DOMAIN proc[p].list : proc[p].list[i].key \notin owed
    /\ proc[p].exit \in {"1", "2"} /\ proc[p].list # <<>> => SomeFailed(p)

AloneTrue ==
    /\ Solo
    /\ \A k \in owed \ dropped : Kept(k)
    /\ \A p \in Procs : ItemsTrue(p) /\ ListedTrue(p) /\ Counted(p) /\ Results(p)

(* Beside the application, with one command at a time: a letter that an    *)
(* operator's item wrote stays as long as the item; a request that is owed *)
(* although an item of it is done, or dead in the application, has a       *)
(* letter, or is being replayed, or works in the application.              *)
Due == owed \ dropped

OneCommand == faults = {"shared"} /\ used.purges = 0 /\ \A o, q \in Operators : o = q

InReplay(k) == \E o \in Operators : InWindow(o, k) \/ Awaits(o, k)

AppWorks(k) == item[App][k].at = "work"

Roles ==
    /\ proc[App].pc = "off" \/ (proc[App].pc = "serve" /\ proc[App].cmd = "app")
    /\ \A o \in Operators : proc[o].pc # "off" => proc[o].cmd # "app"

OperatorLetters ==
    \A o \in Operators, k \in Keys :
        item[o][k].at = "dead" => [id |-> item[o][k].letter, key |-> k] \in letters

Held(k) ==
    /\ item[App][k].at \in {"done", "dead"} => HasLetter(k) \/ InReplay(k)
    /\ \A o \in Operators :
        item[o][k].at = "done" => HasLetter(k) \/ InReplay(k) \/ AppWorks(k)
    /\ k \in rows \/ HasLetter(k) \/ InReplay(k) \/ AppWorks(k)

SharedTrue == Roles /\ OperatorLetters /\ \A k \in Due : Held(k)

IInv ==
    /\ TypeOK /\ Shapes /\ IdsTrue
    /\ "shared" \notin faults => AloneTrue
    /\ OneCommand => SharedTrue

-----------------------------------------------------------------------------
(* Facts about the operators *)

ProcRecord ==
    [cmd : Commands \cup {"none"},
     pc : {"off", "serve", "list", "remove", "submit", "await", "stopping"},
     list : Seq(Letter), pos : Nat, failed : BOOLEAN,
     exit : {"none", "0", "1", "2", "raised"}, base : [Keys -> Nat]]

ItemRecord == [at : {"none", "work", "done", "dead"}, letter : Nat]

LEMMA TypeFacts ==
    ASSUME TypeOK
    PROVE  /\ proc \in [Procs -> ProcRecord]
           /\ item \in [Procs -> [Keys -> ItemRecord]]
  BY DEF TypeOK, ProcRecord, ItemRecord

LEMMA OffType == Off \in ProcRecord
<1>1. <<>> \in Seq(Letter) /\ [k \in Keys |-> 0] \in [Keys -> Nat]
  OBVIOUS
<1>2. QED
  BY <1>1 DEF Off, ProcRecord

LEMMA ItemTypes ==
    /\ NoItem \in ItemRecord /\ Working \in ItemRecord /\ Done \in ItemRecord
    /\ \A n \in Nat : Dead(n) \in ItemRecord
  BY DEF NoItem, Working, Done, Dead, ItemRecord

LEMMA ListElements ==
    ASSUME NEW s \in Seq(Letter), NEW i \in DOMAIN s
    PROVE  s[i] \in Letter /\ s[i].id \in Nat \ {0} /\ s[i].key \in Keys
<1>1. s[i] \in Letter
  OBVIOUS
<1>2. QED
  BY <1>1 DEF Letter

(* The number of letters of a request, when one comes and when one goes.   *)
LEMMA CopiesType ==
    ASSUME NEW S, IsFiniteSet(S), NEW k
    PROVE  /\ IsFiniteSet({l \in S : l.key = k})
           /\ Cardinality({l \in S : l.key = k}) \in Nat
<1>1. {l \in S : l.key = k} \subseteq S
  OBVIOUS
<1>2. IsFiniteSet({l \in S : l.key = k})
  BY <1>1, FS_Subset
<1>3. QED
  BY <1>2, FS_CardinalityType

LEMMA CopiesFewer ==
    ASSUME NEW S, IsFiniteSet(S), NEW T \in SUBSET S, NEW k
    PROVE  Cardinality({l \in T : l.key = k}) <= Cardinality({l \in S : l.key = k})
<1>1. {l \in T : l.key = k} \subseteq {l \in S : l.key = k}
  OBVIOUS
<1>2. QED
  BY <1>1, CopiesType, FS_Subset

LEMMA CopiesAdd ==
    ASSUME IsFiniteSet(letters), NEW m, m \notin letters, letters' = letters \cup {m}, NEW k
    PROVE  /\ m.key = k => Copies(k)' = Copies(k) + 1
           /\ m.key # k => Copies(k)' = Copies(k)
<1> DEFINE C == {l \in letters : l.key = k}
           D == {l \in letters' : l.key = k}
<1>1. C \subseteq letters /\ m \notin C
  OBVIOUS
<1>2. m.key = k => D = C \cup {m}
  OBVIOUS
<1>3. m.key # k => D = C
  OBVIOUS
<1>4. Copies(k) = Cardinality(C) /\ Copies(k)' = Cardinality(D)
  BY DEF Copies
<1> HIDE DEF C, D
<1>5. IsFiniteSet(C)
  BY <1>1, FS_Subset
<1>6. Cardinality(C \cup {m}) = Cardinality(C) + 1
  BY <1>1, <1>5, FS_AddElement
<1>7. QED
  BY <1>2, <1>3, <1>4, <1>6, Zenon

LEMMA CopiesRemove ==
    ASSUME NEW S, IsFiniteSet(S), NEW m \in S
    PROVE  Cardinality({l \in S : l.key = m.key})
             = Cardinality({l \in S \ {m} : l.key = m.key}) + 1
<1> DEFINE C == {l \in S : l.key = m.key}
           D == {l \in S \ {m} : l.key = m.key}
<1>1. D \subseteq S /\ m \notin D /\ C = D \cup {m}
  OBVIOUS
<1>2. IsFiniteSet(D)
  BY <1>1, FS_Subset
<1> HIDE DEF C, D
<1>3. Cardinality(D \cup {m}) = Cardinality(D) + 1
  BY <1>1, <1>2, FS_AddElement
<1>4. QED
  BY <1>1, <1>3, Zenon DEF C, D

(* The process after replay_entry() has returned. *)
LEMMA AnsweredFacts ==
    ASSUME NEW r \in ProcRecord, NEW ok \in BOOLEAN
    PROVE  LET s == Answered(r, ok)
           IN  /\ s \in ProcRecord
               /\ s.cmd = r.cmd /\ s.list = r.list /\ s.base = r.base
               /\ s.pos = r.pos + 1
               /\ s.failed = (r.failed \/ ~ok)
               /\ \/ /\ s.pos <= Len(s.list)
                     /\ s.pc = "remove" /\ s.exit = r.exit
                  \/ /\ s.pos > Len(s.list)
                     /\ s.pc = "stopping" /\ s.exit = ExitCode(r.cmd, s.failed)
<1> DEFINE s1 == [r EXCEPT !.failed = Failed(@, ok), !.pos = @ + 1]
           e  == ExitCode(s1.cmd, s1.failed)
<1>0. PICK n \in Nat : n = r.pos + 1
  BY DEF ProcRecord
<1>1. PICK f \in BOOLEAN : f = Failed(r.failed, ok) /\ f = (r.failed \/ ~ok)
  BY Zenon DEF Failed
<1>2. Answered(r, ok) = IF s1.pos <= Len(s1.list) THEN [s1 EXCEPT !.pc = "remove"]
                        ELSE [s1 EXCEPT !.pc = "stopping", !.exit = e]
  BY DEF Answered
<1>3. /\ s1 \in ProcRecord
      /\ s1.cmd = r.cmd /\ s1.list = r.list /\ s1.base = r.base /\ s1.pc = r.pc /\ s1.exit = r.exit
      /\ s1.pos = n /\ s1.failed = f
  <2> DEFINE t == [r EXCEPT !.failed = f, !.pos = n]
  <2>1. s1 = t
    BY <1>0, <1>1, Zenon
  <2>2. /\ t \in ProcRecord
        /\ t.cmd = r.cmd /\ t.list = r.list /\ t.base = r.base /\ t.pc = r.pc /\ t.exit = r.exit
        /\ t.pos = n /\ t.failed = f
    BY DEF ProcRecord
  <2> HIDE DEF s1, t
  <2>3. QED
    BY <2>1, <2>2
<1>4. Len(s1.list) \in Nat /\ s1.pos \in Nat
  BY <1>3 DEF ProcRecord
<1>5. e \in {"0", "1", "2"}
  BY DEF ExitCode
<1>6. e = ExitCode(r.cmd, f)
  BY <1>3
<1> HIDE DEF s1, e
<1> DEFINE s == Answered(r, ok)
<1>7. CASE s1.pos <= Len(s1.list)
  <2>1. s = [s1 EXCEPT !.pc = "remove"]
    BY <1>2, <1>7
  <2> HIDE DEF s
  <2>2. /\ s \in ProcRecord /\ s.pc = "remove"
        /\ s.cmd = s1.cmd /\ s.list = s1.list /\ s.base = s1.base /\ s.pos = s1.pos
        /\ s.failed = s1.failed /\ s.exit = s1.exit
    BY <1>3, <2>1 DEF ProcRecord
  <2>3. s.failed = (r.failed \/ ~ok)
    BY <1>1, <1>3, <2>2, Zenon
  <2>4. QED
    BY <1>0, <1>3, <1>7, <2>2, <2>3 DEF s
<1>8. CASE ~(s1.pos <= Len(s1.list))
  <2>1. s = [s1 EXCEPT !.pc = "stopping", !.exit = e]
    BY <1>2, <1>8
  <2>2. s1.pos > Len(s1.list)
    BY <1>4, <1>8
  <2> HIDE DEF s
  <2>3. /\ s \in ProcRecord /\ s.pc = "stopping" /\ s.exit = e
        /\ s.cmd = s1.cmd /\ s.list = s1.list /\ s.base = s1.base /\ s.pos = s1.pos
        /\ s.failed = s1.failed
    BY <1>3, <1>5, <2>1 DEF ProcRecord
  <2>4. s.failed = (r.failed \/ ~ok)
    BY <1>1, <1>3, <2>3, Zenon
  <2>5. s.exit = ExitCode(r.cmd, s.failed)
    BY <1>3, <1>6, <2>3
  <2>6. QED
    BY <1>0, <1>3, <2>2, <2>3, <2>4, <2>5 DEF s
<1>9. QED
  BY <1>7, <1>8

(* What list_dead_letter() returns. *)
LEMMA SnapshotFacts ==
    ASSUME TypeOK, NEW s \in Snapshots
    PROVE  /\ s \in Seq(letters) /\ s \in Seq(Letter)
           /\ \A i, j \in DOMAIN s : i < j => s[i].id > s[j].id
<1>1. s \in Seq(letters)
  BY ReplayAssumption DEF Snapshots, SeqOf, ReplayAssumption
<1>2. s \in Seq(Letter)
  BY <1>1 DEF TypeOK
<1>3. QED
  BY <1>1, <1>2 DEF Snapshots

(* What a command has after List: a list of letters that are there, newest *)
(* first.                                                                  *)
LEMMA ListEffect ==
    ASSUME TypeOK, NEW p \in Procs, List(p)
    PROVE  \E s \in Seq(letters), e \in {"none", "0", "1"} :
               /\ Listed(p, s, e)
               /\ \A i, j \in DOMAIN s : i < j => s[i].id > s[j].id
<1>1. PICK s \in Snapshots :
        \/ proc[p].cmd = "replay" /\ Listed(p, s, "0")
        \/ /\ proc[p].cmd = "replayOne"
           /\ \/ \E i \in DOMAIN s : Listed(p, <<s[i]>>, "none")
              \/ Listed(p, <<>>, "1")
  BY DEF List
<1>2. CASE Listed(p, s, "0")
  BY <1>2, SnapshotFacts
<1>3. CASE \E i \in DOMAIN s : Listed(p, <<s[i]>>, "none")
  <2>1. PICK i \in DOMAIN s : Listed(p, <<s[i]>>, "none")
    BY <1>3
  <2>2. s[i] \in letters
    BY SnapshotFacts
  <2>3. <<s[i]>> \in Seq(letters) /\ DOMAIN <<s[i]>> = {1}
    BY <2>2
  <2>4. \A a, b \in DOMAIN <<s[i]>> : ~(a < b)
    BY <2>3
  <2>5. QED
    BY <2>1, <2>3, <2>4
<1>4. CASE Listed(p, <<>>, "1")
  <2>1. <<>> \in Seq(letters) /\ DOMAIN <<>> = {}
    OBVIOUS
  <2>2. QED
    BY <1>4, <2>1
<1>5. QED
  BY <1>1, <1>2, <1>3, <1>4

-----------------------------------------------------------------------------
(* What the assignments to proc and item do *)

SameRun(p) ==
    /\ proc'[p].cmd = proc[p].cmd /\ proc'[p].list = proc[p].list /\ proc'[p].pos = proc[p].pos
    /\ proc'[p].failed = proc[p].failed /\ proc'[p].base = proc[p].base

OthersRun(p) == \A q \in Procs \ {p} : proc'[q] = proc[q]

OthersKeep(p) == \A q \in Procs \ {p} : item'[q] = item[q]

LEMMA PcSet ==
    ASSUME TypeOK, NEW p \in Procs,
           NEW c \in {"off", "serve", "list", "remove", "submit", "await", "stopping"},
           proc' = [proc EXCEPT ![p].pc = c]
    PROVE  /\ proc' \in [Procs -> ProcRecord] /\ OthersRun(p)
           /\ SameRun(p) /\ proc'[p].pc = c /\ proc'[p].exit = proc[p].exit
<1>1. proc \in [Procs -> ProcRecord] /\ proc[p] \in ProcRecord
  BY TypeFacts
<1>2. proc'[p] = [proc[p] EXCEPT !.pc = c]
  BY <1>1
<1>3. [proc[p] EXCEPT !.pc = c] \in ProcRecord
  BY <1>1 DEF ProcRecord
<1>4. proc' \in [Procs -> ProcRecord] /\ OthersRun(p)
  BY <1>1, <1>3 DEF OthersRun
<1>5. SameRun(p) /\ proc'[p].pc = c /\ proc'[p].exit = proc[p].exit
  BY <1>1, <1>2 DEF SameRun, ProcRecord
<1>6. QED
  BY <1>4, <1>5

LEMMA RaisedSet ==
    ASSUME TypeOK, NEW p \in Procs,
           proc' = [proc EXCEPT ![p].pc = "stopping", ![p].exit = "raised"]
    PROVE  /\ proc' \in [Procs -> ProcRecord] /\ OthersRun(p)
           /\ SameRun(p) /\ proc'[p].pc = "stopping" /\ proc'[p].exit = "raised"
<1>1. proc \in [Procs -> ProcRecord] /\ proc[p] \in ProcRecord
  BY TypeFacts
<1>2. proc'[p] = [proc[p] EXCEPT !.pc = "stopping", !.exit = "raised"]
  BY <1>1
<1>3. [proc[p] EXCEPT !.pc = "stopping", !.exit = "raised"] \in ProcRecord
  BY <1>1 DEF ProcRecord
<1>4. proc' \in [Procs -> ProcRecord] /\ OthersRun(p)
  BY <1>1, <1>3 DEF OthersRun
<1>5. SameRun(p) /\ proc'[p].pc = "stopping" /\ proc'[p].exit = "raised"
  BY <1>1, <1>2 DEF SameRun, ProcRecord
<1>6. QED
  BY <1>4, <1>5

LEMMA RecordSet ==
    ASSUME TypeOK, NEW p \in Procs, NEW r \in ProcRecord, proc' = [proc EXCEPT ![p] = r]
    PROVE  proc' \in [Procs -> ProcRecord] /\ OthersRun(p) /\ proc'[p] = r
  BY TypeFacts DEF OthersRun

(* A process that is launched. *)
LEMMA LaunchSet ==
    ASSUME TypeOK, NEW p \in Procs, NEW cmd \in Commands, Launch(p, cmd)
    PROVE  /\ proc' \in [Procs -> ProcRecord] /\ OthersRun(p)
           /\ proc'[p].cmd = cmd /\ proc'[p].list = <<>> /\ proc'[p].pos = 1
           /\ proc'[p].exit = "none" /\ proc'[p].failed = FALSE
           /\ proc'[p].pc \in {"list", "serve"}
           /\ proc'[p].pc = "list" => cmd \in Replays
<1> DEFINE c == IF cmd \in {"replay", "replayOne"} THEN "list" ELSE "serve"
           r == [Off EXCEPT !.cmd = cmd, !.pc = c]
<1>1. proc' = [proc EXCEPT ![p] = r]
  BY Zenon DEF Launch
<1>2. c \in {"list", "serve"} /\ (c = "list" => cmd \in Replays)
  BY DEF Replays
<1> HIDE DEF c
<1>3. r \in ProcRecord
  BY <1>2, OffType DEF ProcRecord
<1>4. /\ r.cmd = cmd /\ r.list = <<>> /\ r.pos = 1 /\ r.exit = "none" /\ r.failed = FALSE
      /\ r.pc = c
  BY DEF Off
<1> HIDE DEF r
<1>5. proc' \in [Procs -> ProcRecord] /\ OthersRun(p) /\ proc'[p] = r
  BY <1>1, <1>3, RecordSet
<1>6. QED
  BY <1>2, <1>4, <1>5

(* A process that has its list. *)
LEMMA ListedSet ==
    ASSUME TypeOK, IdsTrue, NEW p \in Procs, NEW s \in Seq(letters),
           NEW e \in {"none", "0", "1"}, Listed(p, s, e)
    PROVE  /\ proc' \in [Procs -> ProcRecord] /\ OthersRun(p)
           /\ proc'[p].cmd = proc[p].cmd /\ proc'[p].pos = proc[p].pos
           /\ proc'[p].failed = proc[p].failed
           /\ proc'[p].list = s
           /\ proc'[p].pc = IF s = <<>> THEN "stopping" ELSE "remove"
           /\ proc'[p].exit = IF s = <<>> THEN e ELSE "none"
           /\ \A k \in Keys : proc'[p].base[k] = Copies(k) + AtWork(p, k)
<1> DEFINE c == IF s = <<>> THEN "stopping" ELSE "remove"
           x == IF s = <<>> THEN e ELSE "none"
           b == [k \in Keys |-> Copies(k) + IF item[p][k].at = "work" THEN 1 ELSE 0]
           r == [proc[p] EXCEPT !.list = s, !.pc = c, !.exit = x, !.base = b]
<1>1. proc' = [proc EXCEPT ![p] = r]
  BY Zenon DEF Listed
<1>2. b \in [Keys -> Nat]
  <2>1. \A k \in Keys : Copies(k) \in Nat
    BY CopiesType DEF IdsTrue, Copies
  <2>2. QED
    BY <2>1
<1>3. \A k \in Keys : b[k] = Copies(k) + AtWork(p, k)
  BY DEF AtWork
<1>4. c \in {"stopping", "remove"} /\ x \in {"none", "0", "1"}
  OBVIOUS
<1>5. s \in Seq(Letter)
  BY DEF TypeOK
<1>6. proc[p] \in ProcRecord
  BY TypeFacts
<1>7. c = (IF s = <<>> THEN "stopping" ELSE "remove") /\ x = (IF s = <<>> THEN e ELSE "none")
  OBVIOUS
<1> HIDE DEF b, c, x
<1>8. r \in ProcRecord
  BY <1>2, <1>4, <1>5, <1>6 DEF ProcRecord
<1>9. /\ r.cmd = proc[p].cmd /\ r.pos = proc[p].pos /\ r.failed = proc[p].failed
      /\ r.list = s /\ r.pc = c /\ r.exit = x /\ r.base = b
  BY <1>6 DEF ProcRecord
<1> HIDE DEF r
<1>10. proc' \in [Procs -> ProcRecord] /\ OthersRun(p) /\ proc'[p] = r
  BY <1>1, <1>8, RecordSet
<1>11. QED
  BY <1>3, <1>7, <1>9, <1>10

(* The item of one request is set. *)
LEMMA ItemSet ==
    ASSUME TypeOK, NEW p \in Procs, NEW k \in Keys, NEW i \in ItemRecord, SetItem(p, k, i)
    PROVE  /\ item' \in [Procs -> [Keys -> ItemRecord]] /\ OthersKeep(p)
           /\ item'[p][k] = i
           /\ \A j \in Keys \ {k} : item'[p][j] = item[p][j]
  BY TypeFacts DEF SetItem, OthersKeep

-----------------------------------------------------------------------------
(* Type correctness *)

Tables ==
    /\ faults \in FaultSets
    /\ rows \subseteq Keys
    /\ letters \subseteq Letter /\ lastId \in Nat
    /\ \A l, m \in letters : l.id = m.id => l = m
    /\ used \in [launches : Nat, submits : 0..MaxSubmits, purges : 0..MaxPurges]
    /\ owed \subseteq Keys /\ dropped \subseteq owed

LEMMA TypeParts ==
    /\ TypeOK <=> /\ Tables /\ proc \in [Procs -> ProcRecord]
                  /\ item \in [Procs -> [Keys -> ItemRecord]]
    /\ TypeOK' <=> /\ Tables' /\ proc' \in [Procs -> ProcRecord]
                   /\ item' \in [Procs -> [Keys -> ItemRecord]]
  BY DEF TypeOK, Tables, ProcRecord, ItemRecord

(* The new letter has an id of its own. *)
LEMMA NewLetter ==
    ASSUME TypeOK, IdsTrue, NEW k \in Keys
    PROVE  /\ [id |-> NextId, key |-> k] \in Letter
           /\ [id |-> NextId, key |-> k] \notin letters
           /\ \A l \in letters : l.id < NextId
           /\ NextId = lastId + 1 /\ NextId \in Nat \ {0} /\ lastId \in Nat
           /\ \A l \in letters : l.id \in Nat
  BY DEF TypeOK, IdsTrue, NextId, Letter

LEMMA AcceptTables ==
    ASSUME TypeOK, NEW p \in Procs, NEW k \in Keys, Accept(p, k)
    PROVE  /\ rows' = rows \cup {k} /\ rows' \subseteq Keys
           /\ owed' = owed \cup {k} /\ owed' \subseteq Keys
           /\ dropped' = dropped \ {k} /\ dropped' \subseteq owed'
           /\ item' \in [Procs -> [Keys -> ItemRecord]] /\ OthersKeep(p)
           /\ item'[p][k] = Working
           /\ \A j \in Keys \ {k} : item'[p][j] = item[p][j]
<1>1. Working \in ItemRecord /\ SetItem(p, k, Working)
  BY ItemTypes DEF Accept
<1>2. QED
  BY <1>1, ItemSet DEF Accept, TypeOK

(* The key of the entry that is replayed. *)
LEMMA EntryType ==
    ASSUME TypeOK, Shapes, NEW p \in Procs, Replaying(p)
    PROVE  /\ proc[p].list \in Seq(Letter)
           /\ proc[p].pos \in DOMAIN proc[p].list
           /\ Entry(p) \in Letter /\ Entry(p).key \in Keys /\ Entry(p).id \in Nat
           /\ Entry(p) = proc[p].list[proc[p].pos]
<1>1. proc[p].list \in Seq(Letter)
  BY TypeFacts DEF ProcRecord
<1>2. proc[p].pos \in Nat \ {0} /\ proc[p].pos <= Len(proc[p].list)
  BY DEF Shapes, ProcShape
<1>3. Entry(p) \in Letter /\ proc[p].pos \in DOMAIN proc[p].list
  BY <1>1, <1>2 DEF Entry
<1>4. QED
  BY <1>1, <1>3 DEF Entry, Letter

LEMMA TypeStep ==
    ASSUME TypeOK, Shapes, IdsTrue, [Next]_vars
    PROVE  TypeOK'
<1> USE DEF tables, history
<1>1. Tables /\ proc \in [Procs -> ProcRecord] /\ item \in [Procs -> [Keys -> ItemRecord]]
  BY TypeParts
<1>2. ASSUME NEW p \in Procs, NEW cmd \in Commands, Launch(p, cmd)
      PROVE  TypeOK'
  <2>1. proc' \in [Procs -> ProcRecord]
    BY <1>2, LaunchSet
  <2>2. item' \in [Procs -> [Keys -> ItemRecord]]
    BY <1>1, <1>2, ItemTypes DEF Launch
  <2>3. Tables'
    BY <1>1, <1>2 DEF Launch, Tables
  <2>4. QED
    BY <2>1, <2>2, <2>3, TypeParts
<1>3. ASSUME NEW p \in Procs, NEW k \in Keys, Submit(p, k)
      PROVE  TypeOK'
  <2>1. Accept(p, k) /\ UNCHANGED <<faults, letters, lastId, proc>>
    BY <1>3 DEF Submit
  <2>2. /\ rows' \subseteq Keys /\ owed' \subseteq Keys /\ dropped' \subseteq owed'
        /\ item' \in [Procs -> [Keys -> ItemRecord]]
    BY <2>1, AcceptTables
  <2>3. used' \in [launches : Nat, submits : 0..MaxSubmits, purges : 0..MaxPurges]
    BY <1>1, <1>3, ReplayAssumption DEF Submit, Tables, ReplayAssumption
  <2>4. Tables'
    BY <1>1, <2>1, <2>2, <2>3 DEF Tables
  <2>5. QED
    BY <1>1, <2>1, <2>2, <2>4, TypeParts
<1>4. ASSUME NEW p \in Procs, NEW k \in Keys, Succeed(p, k)
      PROVE  TypeOK'
  <2>1. Done \in ItemRecord /\ SetItem(p, k, Done)
    BY <1>4, ItemTypes DEF Succeed, Done
  <2>2. item' \in [Procs -> [Keys -> ItemRecord]]
    BY <2>1, ItemSet
  <2>3. Tables'
    BY <1>1, <1>4 DEF Succeed, Tables
  <2>4. QED
    BY <1>1, <1>4, <2>2, <2>3, TypeParts DEF Succeed
<1>5. ASSUME NEW p \in Procs, NEW k \in Keys, PushDeadLetter(p, k)
      PROVE  TypeOK'
  <2>1. NextId \in Nat
    BY NewLetter
  <2>2. Dead(NextId) \in ItemRecord /\ SetItem(p, k, Dead(NextId))
    BY <1>5, <2>1, ItemTypes DEF PushDeadLetter, Dead
  <2>3. item' \in [Procs -> [Keys -> ItemRecord]]
    BY <2>2, ItemSet
  <2>4. Tables'
    <3> DEFINE m == [id |-> NextId, key |-> k]
    <3>1. /\ m \in Letter /\ m.id = NextId /\ \A l \in letters : l.id < NextId /\ l.id \in Nat
          /\ NextId \in Nat
      BY NewLetter
    <3>2. letters' = letters \cup {m} /\ lastId' = NextId
      BY <1>5 DEF PushDeadLetter
    <3> HIDE DEF m
    <3>3. \A l, o \in letters' : l.id = o.id => l = o
      BY <1>1, <3>1, <3>2 DEF Tables
    <3>4. QED
      BY <1>1, <1>5, <2>1, <3>1, <3>2, <3>3 DEF PushDeadLetter, Tables
  <2>5. QED
    BY <1>1, <1>5, <2>3, <2>4, TypeParts DEF PushDeadLetter
<1>6. ASSUME NEW p \in Procs, NEW k \in Keys, DeleteInflight(p, k)
      PROVE  TypeOK'
  <2>1. item' \in [Procs -> [Keys -> ItemRecord]]
    BY <1>6, ItemTypes, ItemSet DEF DeleteInflight
  <2>2. proc' \in [Procs -> ProcRecord]
    <3> DEFINE ok == item[p][k].at = "done"
    <3>1. ok \in BOOLEAN /\ proc[p] \in ProcRecord
      BY <1>1
    <3>2. Answered(proc[p], ok) \in ProcRecord
      BY <3>1, AnsweredFacts
    <3>3. proc' = IF Awaits(p, k) THEN [proc EXCEPT ![p] = Answered(proc[p], ok)] ELSE proc
      BY <1>6, Zenon DEF DeleteInflight
    <3> HIDE DEF ok
    <3>4. QED
      BY <1>1, <3>2, <3>3
  <2>3. owed' = owed /\ dropped' \subseteq dropped \cup (owed \cap {k})
    BY <1>6 DEF DeleteInflight, AnsweredUnsent
  <2>4. Tables'
    BY <1>1, <1>6, <2>3 DEF DeleteInflight, Tables
  <2>5. QED
    BY <2>1, <2>2, <2>4, TypeParts
<1>7. ASSUME NEW p \in Procs, Leave(p)
      PROVE  TypeOK'
  <2>1. proc' \in [Procs -> ProcRecord]
    BY <1>7, PcSet DEF Leave
  <2>2. QED
    BY <1>1, <1>7, <2>1, TypeParts DEF Leave, Tables
<1>8. ASSUME NEW p \in Procs, NEW k \in Keys, Abandon(p, k)
      PROVE  TypeOK'
  <2>1. item' \in [Procs -> [Keys -> ItemRecord]]
    BY <1>8, ItemTypes, ItemSet DEF Abandon
  <2>2. QED
    BY <1>1, <1>8, <2>1, TypeParts DEF Abandon, Tables
<1>9. ASSUME NEW p \in Procs, Exit(p)
      PROVE  TypeOK'
  <2>1. proc' \in [Procs -> ProcRecord]
    BY <1>9, OffType, RecordSet DEF Exit
  <2>2. QED
    BY <1>1, <1>9, <2>1, TypeParts DEF Exit, Tables
<1>10. ASSUME NEW p \in Procs, List(p)
       PROVE  TypeOK'
  <2>1. proc' \in [Procs -> ProcRecord]
    BY <1>10, ListEffect, ListedSet
  <2>2. QED
    BY <1>1, <1>10, <2>1, TypeParts DEF List, Tables
<1>11. ASSUME NEW p \in Procs, RemoveLetter(p)
       PROVE  TypeOK'
  <2>1. proc' \in [Procs -> ProcRecord]
    BY <1>11, PcSet DEF RemoveLetter
  <2>2. letters' \subseteq letters
    BY <1>11 DEF RemoveLetter, LettersWithout
  <2>3. QED
    BY <1>1, <1>11, <2>1, <2>2, TypeParts DEF RemoveLetter, Tables
<1>12. ASSUME NEW p \in Procs, Resubmit(p)
       PROVE  TypeOK'
  <2>1. proc' \in [Procs -> ProcRecord]
    BY <1>12, PcSet DEF Resubmit
  <2>2. Entry(p).key \in Keys
    BY <1>12, EntryType DEF Resubmit, Replaying
  <2>3. CASE Accept(p, Entry(p).key)
    <3>1. /\ rows' \subseteq Keys /\ owed' \subseteq Keys /\ dropped' \subseteq owed'
          /\ item' \in [Procs -> [Keys -> ItemRecord]]
      BY <2>2, <2>3, AcceptTables
    <3>2. QED
      BY <1>1, <1>12, <2>1, <3>1, TypeParts DEF Resubmit, Tables
  <2>4. CASE UNCHANGED <<rows, item, history>>
    BY <1>1, <1>12, <2>1, <2>4, TypeParts DEF Resubmit, Tables
  <2>5. QED
    BY <1>12, <2>3, <2>4 DEF Resubmit
<1>13. ASSUME NEW p \in Procs, ReplayRaises(p)
       PROVE  TypeOK'
  <2>1. proc' \in [Procs -> ProcRecord]
    BY <1>13, RaisedSet DEF ReplayRaises
  <2>2. letters' \subseteq letters /\ dropped' \subseteq owed
    BY <1>1, <1>13 DEF ReplayRaises, LettersWithout, Drops, Tables
  <2>3. QED
    BY <1>1, <1>13, <2>1, <2>2, TypeParts DEF ReplayRaises, Tables
<1>14. ASSUME Purge
       PROVE  TypeOK'
  <2>1. used' \in [launches : Nat, submits : 0..MaxSubmits, purges : 0..MaxPurges]
    BY <1>1, <1>14, ReplayAssumption DEF Purge, Tables, ReplayAssumption
  <2>2. QED
    BY <1>1, <1>14, <2>1, TypeParts DEF Purge, Tables
<1>15. ASSUME NEW p \in Procs, Crash(p)
       PROVE  TypeOK'
  <2>1. proc' \in [Procs -> ProcRecord]
    BY <1>15, OffType, RecordSet DEF Crash
  <2>2. item' \in [Procs -> [Keys -> ItemRecord]]
    BY <1>1, <1>15, ItemTypes DEF Crash
  <2>3. dropped' \subseteq owed
    BY <1>1, <1>15 DEF Crash, Drops, Tables
  <2>4. QED
    BY <1>1, <1>15, <2>1, <2>2, <2>3, TypeParts DEF Crash, Tables
<1>16. ASSUME UNCHANGED vars
       PROVE  TypeOK'
  BY <1>1, <1>16, TypeParts DEF vars, Tables
<1>17. QED
  BY <1>2, <1>3, <1>4, <1>5, <1>6, <1>7, <1>8, <1>9, <1>10, <1>11, <1>12, <1>13, <1>14, <1>15,
     <1>16 DEF Next, Work

-----------------------------------------------------------------------------
(* Shapes *)

(* A step disturbs no process but its own. *)
LEMMA ShapesFrom ==
    ASSUME TypeOK, Shapes, NEW p \in Procs, OthersRun(p), OthersKeep(p),
           lastId' \in Nat, lastId <= lastId', ProcShape(p)', ItemShape(p)'
    PROVE  Shapes'
<1>1. ASSUME NEW q \in Procs \ {p}
      PROVE  ProcShape(q)' /\ ItemShape(q)'
  <2>1. proc'[q] = proc[q] /\ item'[q] = item[q]
    BY <1>1 DEF OthersRun, OthersKeep
  <2>2. ProcShape(q) /\ ItemShape(q)
    BY <1>1 DEF Shapes
  <2>3. ProcShape(q)'
    BY <2>1, <2>2 DEF ProcShape, Replaying
  <2>4. 1..lastId \subseteq 1..lastId'
    BY DEF TypeOK
  <2>5. ItemShape(q)'
    BY <2>1, <2>2, <2>4 DEF ItemShape
  <2>6. QED
    BY <2>3, <2>5
<1>2. QED
  BY <1>1 DEF Shapes

(* A process that stops. *)
LEMMA StopShape ==
    ASSUME TypeOK, NEW p \in Procs, ProcShape(p), SameRun(p), proc'[p].pc = "stopping"
    PROVE  ProcShape(p)'
  BY DEF ProcShape, SameRun, Replaying

LEMMA ItemShapeSet ==
    ASSUME TypeOK, NEW p \in Procs, NEW k \in Keys, ItemShape(p), lastId' = lastId,
           item'[p][k] \in {NoItem, Working, Done},
           \A j \in Keys \ {k} : item'[p][j] = item[p][j]
    PROVE  ItemShape(p)'
  BY DEF ItemShape

LEMMA ShapesStep ==
    ASSUME TypeOK, Shapes, IdsTrue, [Next]_vars
    PROVE  Shapes'
<1> USE DEF tables, history
<1>0. proc \in [Procs -> ProcRecord] /\ item \in [Procs -> [Keys -> ItemRecord]] /\ lastId \in Nat
  BY TypeFacts DEF TypeOK
<1>1. \A p \in Procs : ProcShape(p) /\ ItemShape(p)
  BY DEF Shapes
<1>2. ASSUME NEW p \in Procs, NEW cmd \in Commands, Launch(p, cmd)
      PROVE  Shapes'
  <2>1. ProcShape(p)' /\ OthersRun(p)
    <3>1. /\ proc'[p].cmd = cmd /\ proc'[p].list = <<>> /\ proc'[p].pos = 1
          /\ proc'[p].exit = "none" /\ proc'[p].failed = FALSE
          /\ proc'[p].pc \in {"list", "serve"}
          /\ proc'[p].pc = "list" => cmd \in Replays
          /\ OthersRun(p)
      BY <1>2, LaunchSet
    <3>2. QED
      BY <3>1 DEF ProcShape, Replaying
  <2>2. /\ OthersKeep(p) /\ lastId' = lastId
        /\ \A k \in Keys : item'[p][k] \in {NoItem, Working, Done}
    BY <1>0, <1>2 DEF Launch, OthersKeep
  <2>3. ItemShape(p)'
    BY <2>2 DEF ItemShape
  <2>4. QED
    BY <1>0, <2>1, <2>2, <2>3, ShapesFrom
<1>3. ASSUME NEW p \in Procs, NEW k \in Keys, Submit(p, k)
      PROVE  Shapes'
  <2>1. Accept(p, k) /\ proc' = proc /\ lastId' = lastId /\ proc[p].pc = "serve"
    BY <1>3 DEF Submit
  <2>2. /\ OthersKeep(p) /\ item'[p][k] = Working
        /\ \A j \in Keys \ {k} : item'[p][j] = item[p][j]
    BY <2>1, AcceptTables
  <2>3. ItemShape(p)'
    BY <1>1, <2>1, <2>2, ItemShapeSet
  <2>4. ProcShape(p)' /\ OthersRun(p)
    BY <1>1, <2>1 DEF ProcShape, Replaying, OthersRun
  <2>5. QED
    BY <1>0, <2>1, <2>2, <2>3, <2>4, ShapesFrom
<1>4. ASSUME NEW p \in Procs, NEW k \in Keys, Succeed(p, k)
      PROVE  Shapes'
  <2>1. Done \in ItemRecord /\ SetItem(p, k, Done) /\ proc' = proc /\ lastId' = lastId
    BY <1>4, ItemTypes DEF Succeed, Done
  <2>2. /\ OthersKeep(p) /\ item'[p][k] = Done
        /\ \A j \in Keys \ {k} : item'[p][j] = item[p][j]
    BY <2>1, ItemSet
  <2>3. ItemShape(p)'
    BY <1>1, <2>1, <2>2, ItemShapeSet
  <2>4. item[p][k] # NoItem
    BY <1>4 DEF Succeed, Working, NoItem
  <2>5. ProcShape(p)' /\ OthersRun(p)
    BY <1>1, <2>1, <2>4 DEF ProcShape, Replaying, OthersRun
  <2>6. QED
    BY <1>0, <2>1, <2>2, <2>3, <2>5, ShapesFrom
<1>5. ASSUME NEW p \in Procs, NEW k \in Keys, PushDeadLetter(p, k)
      PROVE  Shapes'
  <2>1. /\ NextId \in Nat \ {0} /\ lastId <= NextId /\ lastId' = NextId
        /\ proc' = proc
    <3>1. NextId \in Nat \ {0} /\ lastId <= NextId
      BY <1>0 DEF NextId
    <3>2. QED
      BY <1>5, <3>1 DEF PushDeadLetter
  <2>2. Dead(NextId) \in ItemRecord /\ SetItem(p, k, Dead(NextId))
    BY <1>5, <2>1, ItemTypes DEF PushDeadLetter, Dead
  <2>3. /\ OthersKeep(p) /\ item'[p][k] = Dead(NextId)
        /\ \A j \in Keys \ {k} : item'[p][j] = item[p][j]
    BY <2>2, ItemSet
  <2>4. ItemShape(p)'
    <3>1. Dead(NextId).letter = NextId /\ NextId \in 1..lastId'
      BY <2>1 DEF Dead
    <3>2. 1..lastId \subseteq 1..lastId'
      BY <1>0, <2>1
    <3>3. QED
      BY <1>1, <2>3, <3>1, <3>2 DEF ItemShape
  <2>5. item[p][k] # NoItem
    BY <1>5 DEF PushDeadLetter, Working, NoItem
  <2>6. ProcShape(p)' /\ OthersRun(p)
    BY <1>1, <2>1, <2>5 DEF ProcShape, Replaying, OthersRun
  <2>7. QED
    BY <1>0, <2>1, <2>3, <2>4, <2>6, ShapesFrom
<1>6. ASSUME NEW p \in Procs, NEW k \in Keys, DeleteInflight(p, k)
      PROVE  Shapes'
  <2>1. NoItem \in ItemRecord /\ SetItem(p, k, NoItem) /\ lastId' = lastId
    BY <1>6, ItemTypes DEF DeleteInflight
  <2>2. /\ OthersKeep(p) /\ item'[p][k] = NoItem
        /\ \A j \in Keys \ {k} : item'[p][j] = item[p][j]
    BY <2>1, ItemSet
  <2>3. ItemShape(p)'
    BY <1>1, <2>1, <2>2, ItemShapeSet
  <2>4. item[p][k] # NoItem
    BY <1>6 DEF DeleteInflight, NoItem
  <2>5. ProcShape(p)' /\ OthersRun(p)
    <3>1. CASE Awaits(p, k)
      <4> DEFINE ok == item[p][k].at = "done"
      <4>1. proc' = [proc EXCEPT ![p] = Answered(proc[p], ok)]
        BY <1>6, <3>1, Zenon DEF DeleteInflight
      <4>2. ok \in BOOLEAN /\ proc[p] \in ProcRecord /\ proc[p].pc = "await" /\ proc[p].pos \in Nat
        BY <1>0, <3>1 DEF Awaits, ProcRecord
      <4> HIDE DEF ok
      <4>3. Answered(proc[p], ok) \in ProcRecord
        BY <4>2, AnsweredFacts
      <4>4. OthersRun(p) /\ proc'[p] = Answered(proc[p], ok)
        BY <4>1, <4>3, RecordSet
      <4>5. /\ proc'[p].cmd = proc[p].cmd /\ proc'[p].list = proc[p].list
            /\ proc'[p].pos = proc[p].pos + 1
            /\ \/ /\ proc'[p].pos <= Len(proc'[p].list)
                  /\ proc'[p].pc = "remove" /\ proc'[p].exit = proc[p].exit
               \/ proc'[p].pc = "stopping"
        BY <4>2, <4>4, AnsweredFacts
      <4>6. QED
        BY <1>1, <4>2, <4>4, <4>5 DEF ProcShape, Replaying
    <3>2. CASE ~Awaits(p, k)
      BY <1>1, <1>6, <2>4, <3>2 DEF DeleteInflight, ProcShape, Replaying, OthersRun
    <3>3. QED
      BY <3>1, <3>2
  <2>6. QED
    BY <1>0, <2>1, <2>2, <2>3, <2>5, ShapesFrom
<1>7. ASSUME NEW p \in Procs, Leave(p)
      PROVE  Shapes'
  <2>1. OthersRun(p) /\ SameRun(p) /\ proc'[p].pc = "stopping"
    BY <1>7, PcSet DEF Leave
  <2>2. ProcShape(p)'
    BY <1>1, <2>1, StopShape
  <2>3. item' = item /\ lastId' = lastId
    BY <1>7 DEF Leave
  <2>4. QED
    BY <1>0, <1>1, <2>1, <2>2, <2>3, ShapesFrom DEF OthersKeep, ItemShape
<1>8. ASSUME NEW p \in Procs, NEW k \in Keys, Abandon(p, k)
      PROVE  Shapes'
  <2>1. NoItem \in ItemRecord /\ SetItem(p, k, NoItem) /\ lastId' = lastId /\ proc' = proc
    BY <1>8, ItemTypes DEF Abandon
  <2>2. /\ OthersKeep(p) /\ item'[p][k] = NoItem
        /\ \A j \in Keys \ {k} : item'[p][j] = item[p][j]
    BY <2>1, ItemSet
  <2>3. ItemShape(p)'
    BY <1>1, <2>1, <2>2, ItemShapeSet
  <2>4. ProcShape(p)' /\ OthersRun(p)
    BY <1>1, <1>8, <2>1 DEF Abandon, ProcShape, Replaying, OthersRun
  <2>5. QED
    BY <1>0, <2>1, <2>2, <2>3, <2>4, ShapesFrom
<1>9. ASSUME NEW p \in Procs, Exit(p)
      PROVE  Shapes'
  <2>1. OthersRun(p) /\ proc'[p] = Off /\ item' = item /\ lastId' = lastId
    BY <1>9, OffType, RecordSet DEF Exit
  <2>2. ProcShape(p)'
    BY <1>9, <2>1 DEF Exit, ProcShape, Replaying, Off
  <2>3. QED
    BY <1>0, <1>1, <2>1, <2>2, ShapesFrom DEF OthersKeep, ItemShape
<1>10. ASSUME NEW p \in Procs, List(p)
       PROVE  Shapes'
  <2>1. PICK s \in Seq(letters), e \in {"none", "0", "1"} : Listed(p, s, e)
    BY <1>10, ListEffect
  <2>2. /\ OthersRun(p) /\ proc'[p].list = s /\ proc'[p].cmd = proc[p].cmd
        /\ proc'[p].pos = proc[p].pos
        /\ proc'[p].pc = IF s = <<>> THEN "stopping" ELSE "remove"
        /\ proc'[p].exit = IF s = <<>> THEN e ELSE "none"
    BY <2>1, ListedSet
  <2>3. proc[p].pc = "list" /\ item' = item /\ lastId' = lastId
    BY <1>10 DEF List
  <2>4. proc[p].pos <= Len(proc'[p].list) \/ s = <<>>
    <3>1. proc[p].pos = 1
      BY <1>1, <2>3 DEF ProcShape
    <3>2. s = <<>> \/ Len(s) >= 1
      OBVIOUS
    <3>3. QED
      BY <2>2, <3>1, <3>2
  <2>5. ProcShape(p)'
    BY <1>1, <2>2, <2>3, <2>4 DEF ProcShape, Replaying
  <2>6. QED
    BY <1>0, <1>1, <2>2, <2>3, <2>5, ShapesFrom DEF OthersKeep, ItemShape
<1>11. ASSUME NEW p \in Procs, RemoveLetter(p)
       PROVE  Shapes'
  <2>1. /\ OthersRun(p) /\ SameRun(p) /\ proc'[p].pc = "submit" /\ proc'[p].exit = proc[p].exit
        /\ proc[p].pc = "remove"
    BY <1>11, PcSet DEF RemoveLetter, MayRemove
  <2>2. ProcShape(p)'
    BY <1>1, <2>1 DEF ProcShape, SameRun, Replaying
  <2>3. item' = item /\ lastId' = lastId
    BY <1>11 DEF RemoveLetter
  <2>4. QED
    BY <1>0, <1>1, <2>1, <2>2, <2>3, ShapesFrom DEF OthersKeep, ItemShape
<1>12. ASSUME NEW p \in Procs, Resubmit(p)
       PROVE  Shapes'
  <2>1. /\ OthersRun(p) /\ SameRun(p) /\ proc'[p].pc = "await" /\ proc'[p].exit = proc[p].exit
        /\ proc[p].pc = "submit" /\ lastId' = lastId
    BY <1>12, PcSet DEF Resubmit
  <2>2. ProcShape(p)'
    BY <1>1, <2>1 DEF ProcShape, SameRun, Replaying
  <2>3. Entry(p).key \in Keys
    BY <2>1, EntryType DEF Replaying
  <2>4. CASE Accept(p, Entry(p).key)
    <3>1. /\ OthersKeep(p) /\ item'[p][Entry(p).key] = Working
          /\ \A j \in Keys \ {Entry(p).key} : item'[p][j] = item[p][j]
      BY <2>3, <2>4, AcceptTables
    <3>2. ItemShape(p)'
      BY <1>1, <2>1, <2>3, <3>1, ItemShapeSet
    <3>3. QED
      BY <1>0, <2>1, <2>2, <3>1, <3>2, ShapesFrom
  <2>5. CASE item' = item
    BY <1>0, <1>1, <2>1, <2>2, <2>5, ShapesFrom DEF OthersKeep, ItemShape
  <2>6. QED
    BY <1>12, <2>4, <2>5 DEF Resubmit
<1>13. ASSUME NEW p \in Procs, ReplayRaises(p)
       PROVE  Shapes'
  <2>1. OthersRun(p) /\ SameRun(p) /\ proc'[p].pc = "stopping" /\ proc'[p].exit = "raised"
    BY <1>13, RaisedSet DEF ReplayRaises
  <2>2. ProcShape(p)'
    BY <1>1, <2>1, StopShape
  <2>3. item' = item /\ lastId' = lastId
    BY <1>13 DEF ReplayRaises
  <2>4. QED
    BY <1>0, <1>1, <2>1, <2>2, <2>3, ShapesFrom DEF OthersKeep, ItemShape
<1>14. ASSUME Purge
       PROVE  Shapes'
  BY <1>1, <1>14 DEF Purge, Shapes, ProcShape, ItemShape, Replaying
<1>15. ASSUME NEW p \in Procs, Crash(p)
       PROVE  Shapes'
  <2>1. OthersRun(p) /\ proc'[p] = Off /\ lastId' = lastId
    BY <1>15, OffType, RecordSet DEF Crash
  <2>2. OthersKeep(p) /\ \A k \in Keys : item'[p][k] = NoItem
    BY <1>0, <1>15 DEF Crash, OthersKeep
  <2>3. ProcShape(p)' /\ ItemShape(p)'
    BY <2>1, <2>2 DEF ProcShape, ItemShape, Replaying, Off
  <2>4. QED
    BY <1>0, <2>1, <2>2, <2>3, ShapesFrom
<1>16. ASSUME UNCHANGED vars
       PROVE  Shapes'
  BY <1>1, <1>16 DEF vars, Shapes, ProcShape, ItemShape, Replaying
<1>17. QED
  BY <1>2, <1>3, <1>4, <1>5, <1>6, <1>7, <1>8, <1>9, <1>10, <1>11, <1>12, <1>13, <1>14, <1>15,
     <1>16 DEF Next, Work

-----------------------------------------------------------------------------
(* Ids *)

(* No step touches a list, gives a letter an id that was given before, or  *)
(* makes a list of anything but letters that are there.                    *)
LEMMA IdsFrom ==
    ASSUME TypeOK, IdsTrue, lastId' \in Nat, lastId <= lastId',
           IsFiniteSet(letters'),
           \A l \in letters' : l \in letters \/ (l.id > lastId /\ l.id <= lastId'),
           \A q \in Procs :
               \/ proc'[q].list = proc[q].list
               \/ /\ letters' = letters
                  /\ proc'[q].list \in Seq(letters)
                  /\ \A i, j \in DOMAIN proc'[q].list :
                        i < j => proc'[q].list[i].id > proc'[q].list[j].id
    PROVE  IdsTrue'
<1>1. /\ \A l \in letters : l.id <= lastId
      /\ lastId \in Nat /\ letters \subseteq Letter
      /\ \A l, m \in letters : l.id = m.id => l = m
      /\ \A l \in letters : l.id \in Nat
  BY DEF IdsTrue, TypeOK, Letter
<1>2. \A l \in letters' : l.id <= lastId'
  BY <1>1
<1>3. ASSUME NEW q \in Procs
      PROVE  ListTrue(proc[q].list)'
  <2>1. CASE proc'[q].list = proc[q].list
    <3>1. proc[q].list \in Seq(Letter)
      BY TypeFacts DEF ProcRecord
    <3>2. \A i \in DOMAIN proc[q].list : proc[q].list[i].id \in Nat
      BY <3>1, ListElements
    <3>3. ListTrue(proc[q].list)
      BY DEF IdsTrue
    <3>4. QED
      BY <1>1, <2>1, <3>2, <3>3 DEF ListTrue
  <2>2. CASE /\ letters' = letters
             /\ proc'[q].list \in Seq(letters)
             /\ \A i, j \in DOMAIN proc'[q].list :
                   i < j => proc'[q].list[i].id > proc'[q].list[j].id
    <3>1. \A i \in DOMAIN proc'[q].list : proc'[q].list[i] \in letters
      BY <2>2
    <3>2. QED
      BY <1>1, <1>2, <2>2, <3>1 DEF ListTrue
  <2>3. QED
    BY <2>1, <2>2
<1>4. QED
  BY <1>2, <1>3 DEF IdsTrue

(* A step that adds no letter and keeps the lists. *)
LEMMA IdsKept ==
    ASSUME TypeOK, IdsTrue, letters' \subseteq letters, lastId' = lastId,
           \A q \in Procs : proc'[q].list = proc[q].list
    PROVE  IdsTrue'
<1>1. IsFiniteSet(letters')
  BY FS_Subset DEF IdsTrue
<1>2. lastId \in Nat
  BY DEF TypeOK
<1>3. QED
  BY <1>1, <1>2, IdsFrom

LEMMA OffList == Off.list = <<>>
  BY DEF Off

LEMMA IdsStep ==
    ASSUME TypeOK, Shapes, IdsTrue, [Next]_vars
    PROVE  IdsTrue'
<1> USE DEF tables, history
<1>0. IsFiniteSet(letters) /\ lastId \in Nat
  BY DEF IdsTrue, TypeOK
<1>2. ASSUME NEW p \in Procs, NEW cmd \in Commands, Launch(p, cmd)
      PROVE  IdsTrue'
  <2>1. OthersRun(p) /\ proc'[p].list = <<>>
    BY <1>2, LaunchSet
  <2>2. proc[p].list = <<>>
    BY <1>2, OffList DEF Launch, Shapes, ProcShape
  <2>3. QED
    BY <1>2, <2>1, <2>2, IdsKept DEF Launch, OthersRun
<1>5. ASSUME NEW p \in Procs, NEW k \in Keys, PushDeadLetter(p, k)
      PROVE  IdsTrue'
  <2> DEFINE m == [id |-> NextId, key |-> k]
  <2>1. m.id = NextId /\ NextId = lastId + 1
    BY DEF NextId
  <2>2. letters' = letters \cup {m} /\ lastId' = NextId /\ proc' = proc
    BY <1>5 DEF PushDeadLetter
  <2> HIDE DEF m
  <2>3. IsFiniteSet(letters')
    BY <1>0, <2>2, FS_AddElement
  <2>4. lastId' \in Nat /\ lastId <= lastId'
    BY <1>0, <2>1, <2>2
  <2>5. \A l \in letters' : l \in letters \/ (l.id > lastId /\ l.id <= lastId')
    BY <1>0, <2>1, <2>2
  <2>6. QED
    BY <2>2, <2>3, <2>4, <2>5, IdsFrom
<1>6. ASSUME NEW p \in Procs, NEW k \in Keys, DeleteInflight(p, k)
      PROVE  IdsTrue'
  <2>1. \A q \in Procs : proc'[q].list = proc[q].list
    <3>1. CASE Awaits(p, k)
      <4> DEFINE ok == item[p][k].at = "done"
      <4>1. proc' = [proc EXCEPT ![p] = Answered(proc[p], ok)]
        BY <1>6, <3>1, Zenon DEF DeleteInflight
      <4>2. ok \in BOOLEAN /\ proc[p] \in ProcRecord
        BY TypeFacts
      <4> HIDE DEF ok
      <4>3. Answered(proc[p], ok) \in ProcRecord /\ Answered(proc[p], ok).list = proc[p].list
        BY <4>2, AnsweredFacts
      <4>4. OthersRun(p) /\ proc'[p] = Answered(proc[p], ok)
        BY <4>1, <4>3, RecordSet
      <4>5. QED
        BY <4>3, <4>4 DEF OthersRun
    <3>2. CASE ~Awaits(p, k)
      BY <1>6, <3>2 DEF DeleteInflight
    <3>3. QED
      BY <3>1, <3>2
  <2>2. QED
    BY <1>6, <2>1, IdsKept DEF DeleteInflight
<1>7. ASSUME NEW p \in Procs, Leave(p)
      PROVE  IdsTrue'
  <2>1. OthersRun(p) /\ SameRun(p)
    BY <1>7, PcSet DEF Leave
  <2>2. QED
    BY <1>7, <2>1, IdsKept DEF Leave, OthersRun, SameRun
<1>9. ASSUME NEW p \in Procs, Exit(p) \/ Crash(p)
      PROVE  IdsTrue'
  <2>1. OthersRun(p) /\ proc'[p] = Off /\ letters' = letters /\ lastId' = lastId
    BY <1>9, OffType, RecordSet DEF Exit, Crash
  <2>2. \A i, j \in DOMAIN <<>> : FALSE
    OBVIOUS
  <2>3. proc'[p].list \in Seq(letters) /\ proc'[p].list = <<>>
    BY <2>1, OffList
  <2>4. \A i, j \in DOMAIN proc'[p].list : i < j => proc'[p].list[i].id > proc'[p].list[j].id
    BY <2>2, <2>3
  <2>5. \A q \in Procs : proc'[q].list = proc[q].list \/ q = p
    BY <2>1 DEF OthersRun
  <2>6. letters' = letters /\ lastId' = lastId
    BY <2>1
  <2>7. proc'[p].list \in Seq(letters)
    BY <2>3
  <2>8. QED
    BY <1>0, <2>4, <2>5, <2>6, <2>7, IdsFrom
<1>10. ASSUME NEW p \in Procs, List(p)
       PROVE  IdsTrue'
  <2>1. PICK s \in Seq(letters), e \in {"none", "0", "1"} :
            Listed(p, s, e) /\ \A i, j \in DOMAIN s : i < j => s[i].id > s[j].id
    BY <1>10, ListEffect
  <2>2. OthersRun(p) /\ proc'[p].list = s
    BY <2>1, ListedSet
  <2>3. letters' = letters /\ lastId' = lastId
    BY <1>10 DEF List
  <2>4. \A i, j \in DOMAIN proc'[p].list : i < j => proc'[p].list[i].id > proc'[p].list[j].id
    BY <2>1, <2>2
  <2>5. \A q \in Procs : proc'[q].list = proc[q].list \/ q = p
    BY <2>2 DEF OthersRun
  <2>6. QED
    BY <1>0, <2>2, <2>3, <2>4, <2>5, IdsFrom
<1>11. ASSUME NEW p \in Procs, RemoveLetter(p)
       PROVE  IdsTrue'
  <2>1. OthersRun(p) /\ SameRun(p)
    BY <1>11, PcSet DEF RemoveLetter
  <2>2. QED
    BY <1>11, <2>1, IdsKept DEF RemoveLetter, LettersWithout, OthersRun, SameRun
<1>12. ASSUME NEW p \in Procs, Resubmit(p)
       PROVE  IdsTrue'
  <2>1. OthersRun(p) /\ SameRun(p)
    BY <1>12, PcSet DEF Resubmit
  <2>2. QED
    BY <1>12, <2>1, IdsKept DEF Resubmit, OthersRun, SameRun
<1>13. ASSUME NEW p \in Procs, ReplayRaises(p)
       PROVE  IdsTrue'
  <2>1. OthersRun(p) /\ SameRun(p)
    BY <1>13, RaisedSet DEF ReplayRaises
  <2>2. letters' \subseteq letters /\ lastId' = lastId
    BY <1>13 DEF ReplayRaises, LettersWithout
  <2>3. QED
    BY <2>1, <2>2, IdsKept DEF OthersRun, SameRun
<1>14. ASSUME Purge
       PROVE  IdsTrue'
  BY <1>14, IdsKept DEF Purge
<1>15. ASSUME NEW p \in Procs, NEW k \in Keys, Submit(p, k) \/ Succeed(p, k) \/ Abandon(p, k)
       PROVE  IdsTrue'
  BY <1>15, IdsKept DEF Submit, Succeed, Abandon
<1>16. ASSUME UNCHANGED vars
       PROVE  IdsTrue'
  BY <1>16, IdsKept DEF vars
<1>17. QED
  BY <1>2, <1>5, <1>6, <1>7, <1>9, <1>10, <1>11, <1>12, <1>13, <1>14, <1>15, <1>16 DEF Next, Work

-----------------------------------------------------------------------------
(* One process at a time *)

ActorTrue(p) == ItemsTrue(p) /\ ListedTrue(p) /\ Counted(p) /\ Results(p)

OthersOff(p) == \A q \in Procs \ {p} : proc[q].pc = "off"

(* Nothing is to be said of a process that is off. *)
LEMMA IdleTrue ==
    ASSUME NEW q, ProcShape(q)', proc'[q].pc = "off"
    PROVE  ActorTrue(q)'
<1>1. proc'[q] = Off /\ \A k \in Keys : item'[q][k] = NoItem
  BY DEF ProcShape
<1>2. proc'[q].list = <<>> /\ proc'[q].exit = "none"
  BY <1>1 DEF Off
<1>3. \A k \in Keys : item'[q][k].at = "none"
  BY <1>1 DEF NoItem
<1>4. QED
  BY <1>2, <1>3 DEF ActorTrue, ItemsTrue, ListedTrue, Counted, Results, Replaying

(* Alone, it is enough to look at the process that takes the step. *)
LEMMA AloneFrom ==
    ASSUME Shapes', NEW p \in Procs, OthersOff(p), OthersRun(p), ActorTrue(p)',
           \A k \in owed' \ dropped' : k \in rows' \/ HasLetter(k)' \/ InWindow(p, k)'
    PROVE  AloneTrue'
<1>1. \A q \in Procs \ {p} : proc'[q].pc = "off" /\ ProcShape(q)'
  BY DEF OthersOff, OthersRun, Shapes
<1>2. \A q \in Procs \ {p} : ActorTrue(q)'
  BY <1>1, IdleTrue
<1>3. Solo'
  BY <1>1 DEF Solo
<1>4. \A k \in owed' \ dropped' : Kept(k)'
  BY DEF Kept
<1>5. QED
  BY <1>2, <1>3, <1>4 DEF AloneTrue, ActorTrue

LEMMA AloneActor ==
    ASSUME Shapes, AloneTrue, NEW p \in Procs, proc[p].pc # "off"
    PROVE  /\ OthersOff(p) /\ ActorTrue(p)
           /\ \A k \in owed \ dropped : k \in rows \/ HasLetter(k) \/ InWindow(p, k)
<1>1. OthersOff(p)
  BY DEF AloneTrue, Solo, OthersOff
<1>2. \A k \in owed \ dropped : Kept(k)
  BY DEF AloneTrue
<1>3. \A q \in Procs \ {p} : \A k : ~InWindow(q, k)
  BY <1>1 DEF OthersOff, InWindow
<1>4. QED
  BY <1>1, <1>2, <1>3 DEF AloneTrue, ActorTrue, Kept

(* A process with an item is not off. *)
LEMMA WithItem ==
    ASSUME Shapes, NEW p \in Procs, NEW k \in Keys, item[p][k].at # "none"
    PROVE  proc[p].pc # "off"
  BY DEF Shapes, ProcShape, NoItem

LEMMA CountTypes ==
    ASSUME TypeOK, IdsTrue, NEW p \in Procs, NEW j \in Keys
    PROVE  /\ Copies(j) \in Nat /\ InHand(p, j) \in {0, 1} /\ AtWork(p, j) \in {0, 1}
           /\ proc[p].base[j] \in Nat
<1>1. Copies(j) \in Nat
  BY CopiesType DEF IdsTrue, Copies
<1>2. InHand(p, j) \in {0, 1} /\ AtWork(p, j) \in {0, 1}
  BY DEF InHand, AtWork
<1>3. proc[p].base \in [Keys -> Nat]
  BY TypeFacts DEF ProcRecord
<1>4. QED
  BY <1>1, <1>2, <1>3

(* The count of a list goes down only. *)
LEMMA CountedFrom ==
    ASSUME TypeOK, IdsTrue, NEW p \in Procs, Counted(p),
           proc'[p].list = proc[p].list, proc'[p].base = proc[p].base,
           \A j \in Keys :
               /\ Copies(j)' \in Nat
               /\ Copies(j)' + InHand(p, j)' + AtWork(p, j)'
                    <= Copies(j) + InHand(p, j) + AtWork(p, j)
    PROVE  Counted(p)'
<1>1. ASSUME NEW j \in Keys, proc[p].list # <<>>
      PROVE  Copies(j)' + InHand(p, j)' + AtWork(p, j)' <= proc[p].base[j]
  <2>1. Copies(j) + InHand(p, j) + AtWork(p, j) <= proc[p].base[j]
    BY <1>1 DEF Counted
  <2>2. /\ Copies(j) \in Nat /\ InHand(p, j) \in {0, 1} /\ AtWork(p, j) \in {0, 1}
        /\ proc[p].base[j] \in Nat
    BY CountTypes
  <2>3. InHand(p, j)' \in {0, 1} /\ AtWork(p, j)' \in {0, 1}
    BY DEF InHand, AtWork
  <2>4. QED
    BY <2>1, <2>2, <2>3
<1>2. QED
  BY <1>1 DEF Counted

LEMMA LaunchAlone ==
    ASSUME TypeOK, Shapes, AloneTrue, Shapes', "shared" \notin faults,
           NEW p \in Procs, NEW cmd \in Commands, Launch(p, cmd)
    PROVE  AloneTrue'
<1>1. \A q \in Procs : proc[q].pc = "off"
  BY DEF Launch, MayLaunch
<1>2. /\ OthersRun(p) /\ proc'[p].list = <<>> /\ proc'[p].exit = "none"
      /\ proc'[p].pc \in {"list", "serve"}
  BY LaunchSet
<1>3. \A k \in Keys : item'[p][k] = IF k \in rows THEN Working ELSE NoItem
  BY TypeFacts DEF Launch
<1>4. \A k \in Keys : item'[p][k].at \in {"work", "none"} /\ (item'[p][k].at = "work" => k \in rows)
  BY <1>3 DEF Working, NoItem
<1>5. rows' = rows /\ letters' = letters /\ owed' = owed /\ dropped' = dropped
  BY DEF Launch, tables, history
<1>6. ActorTrue(p)'
  BY <1>2, <1>4, <1>5 DEF ActorTrue, ItemsTrue, ListedTrue, Counted, Results, Replaying
<1>7. \A k \in owed' \ dropped' : k \in rows' \/ HasLetter(k)'
  BY <1>1, <1>5 DEF AloneTrue, Kept, InWindow, HasLetter
<1>8. QED
  BY <1>1, <1>2, <1>6, <1>7, AloneFrom DEF OthersOff

LEMMA SubmitAlone ==
    ASSUME TypeOK, Shapes, AloneTrue, Shapes', NEW p \in Procs, NEW k \in Keys, Submit(p, k)
    PROVE  AloneTrue'
<1>1. Accept(p, k) /\ proc' = proc /\ letters' = letters /\ proc[p].pc = "serve"
  BY DEF Submit
<1>2. /\ OthersOff(p) /\ ActorTrue(p)
      /\ \A j \in owed \ dropped : j \in rows \/ HasLetter(j) \/ InWindow(p, j)
  BY <1>1, AloneActor
<1>3. /\ rows' = rows \cup {k} /\ owed' = owed \cup {k} /\ dropped' = dropped \ {k}
      /\ item'[p][k] = Working /\ \A j \in Keys \ {k} : item'[p][j] = item[p][j]
  BY <1>1, AcceptTables
<1>4. proc[p].list = <<>> /\ proc[p].exit = "none"
  BY <1>1 DEF Shapes, ProcShape
<1>5. ItemsTrue(p)'
  BY <1>1, <1>2, <1>3 DEF ActorTrue, ItemsTrue, Working
<1>6. ListedTrue(p)' /\ Counted(p)' /\ Results(p)'
  BY <1>1, <1>4 DEF ListedTrue, Counted, Results, Replaying
<1>7. \A j \in owed' \ dropped' : j \in rows' \/ HasLetter(j)' \/ InWindow(p, j)'
  BY <1>1, <1>2, <1>3 DEF HasLetter, InWindow, Entry
<1>8. OthersRun(p)
  BY <1>1 DEF OthersRun
<1>9. QED
  BY <1>2, <1>5, <1>6, <1>7, <1>8, AloneFrom DEF ActorTrue

LEMMA SucceedAlone ==
    ASSUME TypeOK, Shapes, IdsTrue, AloneTrue, Shapes',
           NEW p \in Procs, NEW k \in Keys, Succeed(p, k)
    PROVE  AloneTrue'
<1>1. /\ proc' = proc /\ letters' = letters /\ rows' = rows
      /\ owed' = owed \ {k} /\ dropped' = dropped \ {k} /\ item[p][k] = Working
  BY DEF Succeed, tables
<1>2. item'[p][k] = Done /\ \A j \in Keys \ {k} : item'[p][j] = item[p][j]
  <2>1. Done \in ItemRecord /\ SetItem(p, k, Done)
    BY ItemTypes DEF Succeed, Done
  <2>2. QED
    BY <2>1, ItemSet
<1>3. proc[p].pc # "off"
  BY <1>1, WithItem DEF Working
<1>4. /\ OthersOff(p) /\ ActorTrue(p)
      /\ \A j \in owed \ dropped : j \in rows \/ HasLetter(j) \/ InWindow(p, j)
  BY <1>3, AloneActor
<1>5. ItemsTrue(p)'
  BY <1>1, <1>2, <1>4 DEF ActorTrue, ItemsTrue, Done
<1>6. ListedTrue(p)'
  BY <1>1, <1>4 DEF ActorTrue, ListedTrue, Replaying, Handled
<1>7. Counted(p)'
  <2>1. ASSUME NEW j \in Keys
        PROVE  /\ Copies(j)' \in Nat
               /\ Copies(j)' + InHand(p, j)' + AtWork(p, j)'
                    <= Copies(j) + InHand(p, j) + AtWork(p, j)
    <3>1. Copies(j)' = Copies(j) /\ InHand(p, j)' = InHand(p, j)
      BY <1>1 DEF Copies, InHand, InWindow, Entry
    <3>2. AtWork(p, j)' <= AtWork(p, j) /\ AtWork(p, j) \in Nat /\ AtWork(p, j)' \in Nat
      BY <1>1, <1>2 DEF AtWork, Working, Done
    <3>3. QED
      BY <2>1, <3>1, <3>2, CountTypes
  <2>2. QED
    BY <1>1, <1>4, <2>1, CountedFrom DEF ActorTrue
<1>8. Results(p)'
  BY <1>1, <1>4 DEF ActorTrue, Results, Replaying, SomeFailed, NoneOwed, Entry
<1>9. \A j \in owed' \ dropped' : j \in rows' \/ HasLetter(j)' \/ InWindow(p, j)'
  BY <1>1, <1>4 DEF HasLetter, InWindow, Entry
<1>10. OthersRun(p)
  BY <1>1 DEF OthersRun
<1>11. QED
  BY <1>4, <1>5, <1>6, <1>7, <1>8, <1>9, <1>10, AloneFrom DEF ActorTrue

(* The entries of a list, and the letters. *)
LEMMA ListFacts ==
    ASSUME TypeOK, IdsTrue, NEW p \in Procs
    PROVE  /\ proc[p].list \in Seq(Letter)
           /\ \A i, j \in DOMAIN proc[p].list : i < j => proc[p].list[i].id > proc[p].list[j].id
           /\ \A i \in DOMAIN proc[p].list :
                /\ i \in Nat /\ proc[p].list[i].id \in Nat /\ proc[p].list[i].id <= lastId
                /\ proc[p].list[i].key \in Keys
                /\ \A l \in letters : l.id = proc[p].list[i].id => l = proc[p].list[i]
<1>1. proc[p].list \in Seq(Letter)
  BY TypeFacts DEF ProcRecord
<1>2. ListTrue(proc[p].list)
  BY DEF IdsTrue
<1>3. \A i \in DOMAIN proc[p].list : i \in Nat /\ proc[p].list[i].id \in Nat
                                      /\ proc[p].list[i].key \in Keys
  BY <1>1, ListElements
<1>4. QED
  BY <1>1, <1>2, <1>3 DEF ListTrue

LEMMA PushAlone ==
    ASSUME TypeOK, Shapes, IdsTrue, AloneTrue, Shapes',
           NEW p \in Procs, NEW k \in Keys, PushDeadLetter(p, k)
    PROVE  AloneTrue'
<1> DEFINE m == [id |-> NextId, key |-> k]
<1>1. /\ proc' = proc /\ letters' = letters \cup {m} /\ rows' = rows
      /\ owed' = owed /\ dropped' = dropped /\ item[p][k] = Working
  BY DEF PushDeadLetter, history
<1>2. /\ m.id = NextId /\ m.key = k /\ NextId \in Nat /\ NextId = lastId + 1 /\ lastId \in Nat
      /\ \A l \in letters : l.id < NextId /\ l.id \in Nat
      /\ m \notin letters
  BY NewLetter
<1>3. /\ item'[p][k].at = "dead" /\ item'[p][k].letter = NextId
      /\ \A j \in Keys \ {k} : item'[p][j] = item[p][j]
  <2>1. Dead(NextId) \in ItemRecord /\ SetItem(p, k, Dead(NextId))
    BY <1>2, ItemTypes DEF PushDeadLetter, Dead
  <2>2. item'[p][k] = Dead(NextId) /\ \A j \in Keys \ {k} : item'[p][j] = item[p][j]
    BY <2>1, ItemSet
  <2>3. QED
    BY <2>2 DEF Dead
<1>4. proc[p].pc # "off"
  BY <1>1, WithItem DEF Working
<1>5. /\ OthersOff(p) /\ ActorTrue(p)
      /\ \A j \in owed \ dropped : j \in rows \/ HasLetter(j) \/ InWindow(p, j)
  BY <1>4, AloneActor
<1>6. \A i \in DOMAIN proc[p].list : proc[p].list[i].id < NextId /\ proc[p].list[i] # m
  BY <1>2, ListFacts
<1>7. ItemsTrue(p)'
  <2>1. ASSUME NEW j \in Keys \ {k}
        PROVE  /\ item'[p][j].at = "work" => j \in rows'
               /\ item'[p][j].at = "done" => j \notin owed'
               /\ item'[p][j].at = "dead" =>
                   /\ [id |-> item'[p][j].letter, key |-> j] \in letters'
                   /\ \A l \in letters' : l.key = j => l.id <= item'[p][j].letter
                   /\ \A i \in DOMAIN proc'[p].list :
                       proc'[p].list[i].key = j => proc'[p].list[i].id <= item'[p][j].letter
    <3>1. \A l \in letters' : l.key = j => l \in letters
      BY <1>1, <1>2, <2>1
    <3> HIDE DEF m
    <3>2. QED
      BY <1>1, <1>3, <1>5, <2>1, <3>1 DEF ActorTrue, ItemsTrue
  <2>2. /\ [id |-> item'[p][k].letter, key |-> k] \in letters'
        /\ \A l \in letters' : l.id <= item'[p][k].letter
        /\ \A i \in DOMAIN proc'[p].list : proc'[p].list[i].id <= item'[p][k].letter
    <3>1. [id |-> item'[p][k].letter, key |-> k] = m
      BY <1>3
    <3> HIDE DEF m
    <3>2. \A i \in DOMAIN proc[p].list : proc[p].list[i].id \in Nat
      BY ListFacts
    <3>3. QED
      BY <1>1, <1>2, <1>3, <1>6, <3>1, <3>2
  <2>3. QED
    BY <1>3, <2>1, <2>2 DEF ItemsTrue
<1> HIDE DEF m
<1>8. ListedTrue(p)'
  BY <1>1, <1>5, <1>6 DEF ActorTrue, ListedTrue, Replaying, Handled
<1>9. Counted(p)'
  <2>1. ASSUME NEW j \in Keys
        PROVE  /\ Copies(j)' \in Nat
               /\ Copies(j)' + InHand(p, j)' + AtWork(p, j)'
                    <= Copies(j) + InHand(p, j) + AtWork(p, j)
    <3>1. InHand(p, j)' = InHand(p, j)
      BY <1>1 DEF InHand, InWindow, Entry
    <3>2. IsFiniteSet(letters)
      BY DEF IdsTrue
    <3>3. Copies(j) \in Nat /\ InHand(p, j) \in {0, 1} /\ AtWork(p, j) \in {0, 1}
      BY CountTypes
    <3>4. CASE j = k
      <4>1. Copies(j)' = Copies(j) + 1
        <5>1. m \notin letters /\ m.key = j /\ letters' = letters \cup {m}
          BY <1>1, <1>2, <3>4
        <5>2. QED
          BY <3>2, <5>1, CopiesAdd
      <4>2. AtWork(p, j)' = 0 /\ AtWork(p, j) = 1
        BY <1>1, <1>3, <3>4 DEF AtWork, Working
      <4>3. QED
        BY <3>1, <3>3, <4>1, <4>2
    <3>5. CASE j # k
      <4>1. Copies(j)' = Copies(j)
        <5>1. m \notin letters /\ m.key # j /\ letters' = letters \cup {m}
          BY <1>1, <1>2, <3>5
        <5>2. QED
          BY <3>2, <5>1, CopiesAdd
      <4>2. AtWork(p, j)' = AtWork(p, j)
        BY <1>3, <2>1, <3>5 DEF AtWork
      <4>3. QED
        BY <3>1, <3>3, <4>1, <4>2
    <3>6. QED
      BY <3>4, <3>5
  <2>2. QED
    BY <1>1, <1>5, <2>1, CountedFrom DEF ActorTrue
<1>10. Results(p)'
  BY <1>1, <1>5 DEF ActorTrue, Results, Replaying, SomeFailed, NoneOwed, Entry
<1>11. \A j \in owed' \ dropped' : j \in rows' \/ HasLetter(j)' \/ InWindow(p, j)'
  BY <1>1, <1>5 DEF HasLetter, InWindow, Entry
<1>12. OthersRun(p)
  BY <1>1 DEF OthersRun
<1>13. QED
  BY <1>5, <1>7, <1>8, <1>9, <1>10, <1>11, <1>12, AloneFrom DEF ActorTrue

LEMMA LeaveAlone ==
    ASSUME TypeOK, Shapes, AloneTrue, Shapes', NEW p \in Procs, Leave(p)
    PROVE  AloneTrue'
<1>1. /\ item' = item /\ letters' = letters /\ rows' = rows /\ owed' = owed /\ dropped' = dropped
      /\ proc[p].pc = "serve"
  BY DEF Leave, tables, history
<1>2. OthersRun(p) /\ SameRun(p) /\ proc'[p].pc = "stopping" /\ proc'[p].exit = proc[p].exit
  BY PcSet DEF Leave
<1>3. /\ OthersOff(p) /\ ActorTrue(p)
      /\ \A j \in owed \ dropped : j \in rows \/ HasLetter(j) \/ InWindow(p, j)
  BY <1>1, AloneActor
<1>4. proc'[p].list = <<>> /\ proc'[p].list = proc[p].list /\ proc'[p].exit = "none"
  BY <1>1, <1>2 DEF Shapes, ProcShape, SameRun
<1>5. ItemsTrue(p)'
  BY <1>1, <1>3, <1>4 DEF ActorTrue, ItemsTrue
<1>6. ListedTrue(p)' /\ Counted(p)' /\ Results(p)'
  BY <1>2, <1>4 DEF ListedTrue, Counted, Results, Replaying
<1>7. \A j \in owed' \ dropped' : j \in rows' \/ HasLetter(j)' \/ InWindow(p, j)'
  BY <1>1, <1>3 DEF HasLetter, InWindow
<1>8. QED
  BY <1>2, <1>3, <1>5, <1>6, <1>7, AloneFrom DEF ActorTrue

LEMMA AbandonAlone ==
    ASSUME TypeOK, Shapes, IdsTrue, AloneTrue, Shapes',
           NEW p \in Procs, NEW k \in Keys, Abandon(p, k)
    PROVE  AloneTrue'
<1>1. /\ proc' = proc /\ letters' = letters /\ rows' = rows /\ owed' = owed /\ dropped' = dropped
      /\ proc[p].pc = "stopping" /\ item[p][k] = Working
  BY DEF Abandon, tables, history
<1>2. item'[p][k] = NoItem /\ \A j \in Keys \ {k} : item'[p][j] = item[p][j]
  BY ItemTypes, ItemSet DEF Abandon
<1>3. /\ OthersOff(p) /\ ActorTrue(p)
      /\ \A j \in owed \ dropped : j \in rows \/ HasLetter(j) \/ InWindow(p, j)
  BY <1>1, AloneActor
<1>4. ItemsTrue(p)'
  BY <1>1, <1>2, <1>3 DEF ActorTrue, ItemsTrue, NoItem
<1>5. ListedTrue(p)' /\ Results(p)'
  BY <1>1, <1>3 DEF ActorTrue, ListedTrue, Results, Replaying, SomeFailed
<1>6. Counted(p)'
  <2>1. ASSUME NEW j \in Keys
        PROVE  /\ Copies(j)' \in Nat
               /\ Copies(j)' + InHand(p, j)' + AtWork(p, j)'
                    <= Copies(j) + InHand(p, j) + AtWork(p, j)
    <3>1. Copies(j)' = Copies(j) /\ InHand(p, j)' = InHand(p, j)
      BY <1>1 DEF Copies, InHand, InWindow, Entry
    <3>2. AtWork(p, j)' <= AtWork(p, j) /\ AtWork(p, j) \in Nat /\ AtWork(p, j)' \in Nat
      BY <1>1, <1>2 DEF AtWork, Working, NoItem
    <3>3. QED
      BY <2>1, <3>1, <3>2, CountTypes
  <2>2. QED
    BY <1>1, <1>3, <2>1, CountedFrom DEF ActorTrue
<1>7. \A j \in owed' \ dropped' : j \in rows' \/ HasLetter(j)' \/ InWindow(p, j)'
  BY <1>1, <1>3 DEF HasLetter, InWindow
<1>8. OthersRun(p)
  BY <1>1 DEF OthersRun
<1>9. QED
  BY <1>3, <1>4, <1>5, <1>6, <1>7, <1>8, AloneFrom DEF ActorTrue

LEMMA ExitAlone ==
    ASSUME TypeOK, Shapes, AloneTrue, Shapes', NEW p \in Procs, Exit(p)
    PROVE  AloneTrue'
<1>1. /\ letters' = letters /\ rows' = rows /\ owed' = owed /\ dropped' = dropped
      /\ proc[p].pc = "stopping"
  BY DEF Exit, tables, history
<1>2. OthersRun(p) /\ proc'[p] = Off /\ Off.pc = "off"
  BY OffType, RecordSet DEF Exit, Off
<1>3. /\ OthersOff(p)
      /\ \A j \in owed \ dropped : j \in rows \/ HasLetter(j) \/ InWindow(p, j)
  BY <1>1, AloneActor
<1>4. ActorTrue(p)'
  BY <1>2, IdleTrue DEF Shapes
<1>5. \A j \in owed' \ dropped' : j \in rows' \/ HasLetter(j)' \/ InWindow(p, j)'
  BY <1>1, <1>3 DEF HasLetter, InWindow
<1>6. QED
  BY <1>2, <1>3, <1>4, <1>5, AloneFrom

LEMMA CrashAlone ==
    ASSUME TypeOK, Shapes, AloneTrue, Shapes', NEW p \in Procs, Crash(p)
    PROVE  AloneTrue'
<1>1. /\ letters' = letters /\ rows' = rows /\ owed' = owed
      /\ proc[p].pc # "off"
  BY DEF Crash, tables
<1>2. OthersRun(p) /\ proc'[p] = Off /\ Off.pc = "off"
  BY OffType, RecordSet DEF Crash, Off
<1>3. /\ OthersOff(p)
      /\ \A j \in owed \ dropped : j \in rows \/ HasLetter(j) \/ InWindow(p, j)
  BY <1>1, AloneActor
<1>4. ActorTrue(p)'
  BY <1>2, IdleTrue DEF Shapes
<1>5. \A j \in owed' \ dropped' : j \in rows' \/ HasLetter(j)' \/ InWindow(p, j)'
  <2>1. CASE proc[p].pc = "submit"
    <3>1. Drops(p, Entry(p).key, letters)
      BY <2>1 DEF Crash
    <3>2. QED
      BY <1>1, <1>3, <3>1 DEF Drops, HasLetter, InWindow
  <2>2. CASE proc[p].pc # "submit"
    BY <1>1, <1>3, <2>2 DEF Crash, HasLetter, InWindow
  <2>3. QED
    BY <2>1, <2>2
<1>6. QED
  BY <1>2, <1>3, <1>4, <1>5, AloneFrom

(* The response of the entry that is replayed. *)
LEMMA AnsweredSet ==
    ASSUME TypeOK, NEW p \in Procs, NEW ok \in BOOLEAN,
           proc' = [proc EXCEPT ![p] = Answered(proc[p], ok)]
    PROVE  /\ OthersRun(p)
           /\ proc'[p].cmd = proc[p].cmd /\ proc'[p].list = proc[p].list
           /\ proc'[p].base = proc[p].base
           /\ proc[p].pos \in Nat /\ proc'[p].pos = proc[p].pos + 1
           /\ proc'[p].failed = (proc[p].failed \/ ~ok)
           /\ \/ /\ proc'[p].pos <= Len(proc'[p].list)
                 /\ proc'[p].pc = "remove" /\ proc'[p].exit = proc[p].exit
              \/ /\ proc'[p].pos > Len(proc'[p].list)
                 /\ proc'[p].pc = "stopping" /\ proc'[p].exit = ExitCode(proc[p].cmd, proc'[p].failed)
<1>1. proc[p] \in ProcRecord
  BY TypeFacts
<1>2. proc[p].pos \in Nat
  BY <1>1 DEF ProcRecord
<1>3. Answered(proc[p], ok) \in ProcRecord
  BY <1>1, AnsweredFacts
<1>4. OthersRun(p) /\ proc'[p] = Answered(proc[p], ok)
  BY <1>3, RecordSet
<1>5. QED
  BY <1>1, <1>2, <1>4, AnsweredFacts

LEMMA DeleteAlone ==
    ASSUME TypeOK, Shapes, IdsTrue, AloneTrue, Shapes',
           NEW p \in Procs, NEW k \in Keys, DeleteInflight(p, k)
    PROVE  AloneTrue'
<1>1. /\ letters' = letters /\ rows' = rows \ {k} /\ owed' = owed
      /\ item[p][k].at \in {"done", "dead"}
  BY DEF DeleteInflight
<1>2. item'[p][k] = NoItem /\ \A j \in Keys \ {k} : item'[p][j] = item[p][j]
  BY ItemTypes, ItemSet DEF DeleteInflight
<1>3. proc[p].pc # "off"
  BY <1>1, WithItem
<1>4. /\ OthersOff(p) /\ ActorTrue(p)
      /\ \A j \in owed \ dropped : j \in rows \/ HasLetter(j) \/ InWindow(p, j)
  BY <1>3, AloneActor
<1>5. item[p][k].at = "done" => k \notin owed
  BY <1>4 DEF ActorTrue, ItemsTrue
<1>6. owed' = owed /\ dropped' = dropped
  BY <1>1, <1>5 DEF DeleteInflight, AnsweredUnsent
<1>7. item[p][k].at = "dead" =>
        /\ [id |-> item[p][k].letter, key |-> k] \in letters
        /\ \A i \in DOMAIN proc[p].list :
              proc[p].list[i].key = k => proc[p].list[i].id <= item[p][k].letter
  BY <1>4 DEF ActorTrue, ItemsTrue
<1>8. item[p][k].at = "dead" => HasLetter(k)
  BY <1>7 DEF HasLetter
<1>9. CASE ~Awaits(p, k)
  <2>1. proc' = proc
    BY <1>9 DEF DeleteInflight
  <2>2. ItemsTrue(p)'
    BY <1>1, <1>2, <1>4, <1>6, <2>1 DEF ActorTrue, ItemsTrue, NoItem
  <2>3. ListedTrue(p)'
    BY <1>1, <1>4, <2>1 DEF ActorTrue, ListedTrue, Replaying, Handled
  <2>4. Counted(p)'
    <3>1. ASSUME NEW j \in Keys
          PROVE  /\ Copies(j)' \in Nat
                 /\ Copies(j)' + InHand(p, j)' + AtWork(p, j)'
                      <= Copies(j) + InHand(p, j) + AtWork(p, j)
      <4>1. Copies(j)' = Copies(j) /\ InHand(p, j)' = InHand(p, j)
        BY <1>1, <2>1 DEF Copies, InHand, InWindow, Entry
      <4>2. AtWork(p, j)' = AtWork(p, j)
        BY <1>1, <1>2 DEF AtWork, NoItem
      <4>3. QED
        BY <3>1, <4>1, <4>2, CountTypes
    <3>2. QED
      BY <1>4, <2>1, <3>1, CountedFrom DEF ActorTrue
  <2>5. Results(p)'
    BY <1>1, <1>4, <1>6, <2>1 DEF ActorTrue, Results, Replaying, SomeFailed, NoneOwed, Entry
  <2>6. \A j \in owed' \ dropped' : j \in rows' \/ HasLetter(j)' \/ InWindow(p, j)'
    BY <1>1, <1>4, <1>5, <1>6, <1>8, <2>1 DEF HasLetter, InWindow, Entry
  <2>7. OthersRun(p)
    BY <2>1 DEF OthersRun
  <2>8. QED
    BY <1>4, <2>2, <2>3, <2>4, <2>5, <2>6, <2>7, AloneFrom DEF ActorTrue
<1>10. CASE Awaits(p, k)
  <2> DEFINE ok == item[p][k].at = "done"
  <2>1. proc' = [proc EXCEPT ![p] = Answered(proc[p], ok)]
    BY <1>10, Zenon DEF DeleteInflight
  <2>2. ok \in BOOLEAN /\ proc[p].pc = "await" /\ Entry(p).key = k
    BY <1>10 DEF Awaits
  <2>3. (ok => k \notin owed) /\ (~ok => item[p][k].at = "dead")
    BY <1>1, <1>5
  <2> HIDE DEF ok
  <2>4. /\ OthersRun(p)
        /\ proc'[p].cmd = proc[p].cmd /\ proc'[p].list = proc[p].list
        /\ proc'[p].base = proc[p].base
        /\ proc[p].pos \in Nat /\ proc'[p].pos = proc[p].pos + 1
        /\ \/ /\ proc'[p].pos <= Len(proc'[p].list)
              /\ proc'[p].pc = "remove" /\ proc'[p].exit = proc[p].exit
           \/ /\ proc'[p].pos > Len(proc'[p].list)
              /\ proc'[p].pc = "stopping" /\ proc'[p].exit = ExitCode(proc[p].cmd, proc'[p].failed)
    BY <2>1, <2>2, AnsweredSet
  <2>5. proc'[p].failed = (proc[p].failed \/ ~ok)
    BY <2>1, <2>2, AnsweredSet
  <2>6. /\ proc[p].list \in Seq(Letter) /\ proc[p].pos \in DOMAIN proc[p].list
        /\ Entry(p) = proc[p].list[proc[p].pos]
    BY <2>2, EntryType DEF Replaying
  <2>7. ItemsTrue(p)'
    BY <1>1, <1>2, <1>4, <1>6, <2>4 DEF ActorTrue, ItemsTrue, NoItem
  <2>8. \A i \in DOMAIN proc[p].list : i <= proc[p].pos <=> proc[p].list[i] \notin letters
    <3>1. \A i \in DOMAIN proc[p].list : i \in Nat
      BY <2>6
    <3>2. QED
      BY <1>4, <2>2, <2>4, <3>1 DEF ActorTrue, ListedTrue, Replaying, Handled
  <2>9. ListedTrue(p)'
    <3>1. \A i \in DOMAIN proc[p].list : i \in Nat
      BY <2>6
    <3>2. QED
      BY <1>1, <2>4, <2>8, <3>1 DEF ListedTrue, Replaying, Handled
  <2>10. Counted(p)'
    <3>1. ASSUME NEW j \in Keys
          PROVE  /\ Copies(j)' \in Nat
                 /\ Copies(j)' + InHand(p, j)' + AtWork(p, j)'
                      <= Copies(j) + InHand(p, j) + AtWork(p, j)
      <4>1. Copies(j)' = Copies(j)
        BY <1>1 DEF Copies
      <4>2. InHand(p, j)' = 0
        BY <2>4 DEF InHand, InWindow
      <4>3. AtWork(p, j)' = AtWork(p, j)
        BY <1>1, <1>2 DEF AtWork, NoItem
      <4>4. QED
        BY <3>1, <4>1, <4>2, <4>3, CountTypes
    <3>2. QED
      BY <1>4, <2>4, <3>1, CountedFrom DEF ActorTrue
  <2>11. ~ok => SomeFailed(p)
    <3>1. SUFFICES ASSUME ~ok
                   PROVE  SomeFailed(p)
      OBVIOUS
    <3> DEFINE l == [id |-> item[p][k].letter, key |-> k]
    <3>2. l \in letters /\ l.key = k /\ l.id = item[p][k].letter
      BY <1>7, <2>3, <3>1
    <3>3. l.id \notin Ids(proc[p].list)
      <4>1. SUFFICES ASSUME NEW i \in DOMAIN proc[p].list, proc[p].list[i].id = l.id
                     PROVE  FALSE
        BY DEF Ids
      <4>2. l = proc[p].list[i] /\ i \in Nat /\ l.id \in Nat
        BY <3>2, <4>1, ListFacts
      <4>3. i > proc[p].pos
        BY <2>4, <2>8, <3>2, <4>2
      <4>4. proc[p].list[proc[p].pos].id > l.id /\ proc[p].list[proc[p].pos].id \in Nat
        BY <2>6, <4>1, <4>3, ListFacts
      <4>5. proc[p].list[proc[p].pos].id <= l.id
        BY <1>7, <2>2, <2>3, <2>6, <3>1
      <4>6. QED
        BY <4>2, <4>4, <4>5
    <3> HIDE DEF l
    <3>4. QED
      BY <2>2, <2>6, <3>2, <3>3 DEF SomeFailed
  <2>12. proc'[p].failed => SomeFailed(p)'
    <3>1. SomeFailed(p) => SomeFailed(p)'
      BY <1>1, <2>4 DEF SomeFailed
    <3>2. proc[p].failed => SomeFailed(p)
      BY <1>4, <2>2 DEF ActorTrue, Results, Replaying
    <3>3. QED
      BY <2>5, <2>11, <3>1, <3>2
  <2>13. ~proc'[p].failed => \A i \in DOMAIN proc[p].list : i <= proc[p].pos => proc[p].list[i].key \notin owed
    <3>1. SUFFICES ASSUME ~proc'[p].failed
                   PROVE  \A i \in DOMAIN proc[p].list :
                              i <= proc[p].pos => proc[p].list[i].key \notin owed
      OBVIOUS
    <3>2. ~proc[p].failed /\ ok
      BY <2>5, <3>1
    <3>3. NoneOwed(p) /\ k \notin owed
      BY <1>4, <2>2, <2>3, <3>2 DEF ActorTrue, Results, Replaying
    <3>4. \A i \in DOMAIN proc[p].list : i \in Nat
      BY <2>6
    <3>5. ASSUME NEW i \in DOMAIN proc[p].list, i < proc[p].pos
          PROVE  proc[p].list[i].key \notin owed
      <4>1. proc[p].list[i].key \notin owed \/ k = proc[p].list[i].key
        BY <2>2, <3>3, <3>5 DEF NoneOwed
      <4>2. QED
        BY <3>3, <4>1
    <3>6. proc[p].list[proc[p].pos].key \notin owed
      BY <2>2, <2>6, <3>3
    <3>7. QED
      BY <2>4, <3>4, <3>5, <3>6
  <2>14. Results(p)'
    <3>1. CASE proc'[p].pc = "remove"
      <4>1. proc'[p].exit = "none"
        BY <2>2, <2>4, <3>1 DEF Shapes, ProcShape
      <4>2. ~proc'[p].failed => NoneOwed(p)'
        <5>1. \A i \in DOMAIN proc[p].list : i \in Nat
          BY <2>6
        <5>2. QED
          BY <1>6, <2>4, <2>13, <5>1 DEF NoneOwed
      <4>3. QED
        BY <2>12, <4>1, <4>2 DEF Results
    <3>2. CASE proc'[p].pc = "stopping"
      <4>1. proc'[p].exit = ExitCode(proc[p].cmd, proc'[p].failed)
        BY <2>4, <3>2
      <4>2. proc'[p].exit = "0" => ~proc'[p].failed
        BY <4>1 DEF ExitCode
      <4>3. proc'[p].exit \in {"1", "2"} => proc'[p].failed
        BY <4>1 DEF ExitCode
      <4>4. \A i \in DOMAIN proc[p].list : i <= proc[p].pos
        <5>1. \A i \in DOMAIN proc[p].list : i \in Nat /\ i <= Len(proc[p].list)
          BY <2>6
        <5>2. Len(proc[p].list) \in Nat
          BY <2>6
        <5>3. QED
          BY <2>4, <3>2, <5>1, <5>2
      <4>5. QED
        BY <1>6, <2>4, <2>12, <2>13, <3>2, <4>2, <4>3, <4>4 DEF Results, Replaying
    <3>3. QED
      BY <2>4, <3>1, <3>2
  <2>15. \A j \in owed' \ dropped' : j \in rows' \/ HasLetter(j)' \/ InWindow(p, j)'
    BY <1>1, <1>4, <1>5, <1>6, <1>8, <2>2 DEF HasLetter, InWindow
  <2>16. QED
    BY <1>4, <2>4, <2>7, <2>9, <2>10, <2>14, <2>15, AloneFrom DEF ActorTrue
<1>11. QED
  BY <1>9, <1>10

LEMMA ListAlone ==
    ASSUME TypeOK, Shapes, IdsTrue, AloneTrue, Shapes', NEW p \in Procs, List(p)
    PROVE  AloneTrue'
<1>1. /\ item' = item /\ letters' = letters /\ rows' = rows /\ owed' = owed /\ dropped' = dropped
      /\ proc[p].pc = "list"
  BY DEF List, tables, history
<1>2. PICK s \in Seq(letters), e \in {"none", "0", "1"} : Listed(p, s, e)
  BY ListEffect
<1>3. /\ OthersRun(p)
      /\ proc'[p].pos = proc[p].pos /\ proc'[p].failed = proc[p].failed /\ proc'[p].list = s
      /\ proc'[p].pc = IF s = <<>> THEN "stopping" ELSE "remove"
      /\ proc'[p].exit = IF s = <<>> THEN e ELSE "none"
      /\ \A k \in Keys : proc'[p].base[k] = Copies(k) + AtWork(p, k)
  BY <1>2, ListedSet
<1>4. /\ OthersOff(p) /\ ActorTrue(p)
      /\ \A j \in owed \ dropped : j \in rows \/ HasLetter(j) \/ InWindow(p, j)
  BY <1>1, AloneActor
<1>5. proc[p].pos = 1 /\ proc[p].failed = FALSE
  BY <1>1 DEF Shapes, ProcShape
<1>6. \A i \in DOMAIN s : s[i] \in letters /\ i \in Nat /\ ~(i < 1)
  OBVIOUS
<1>7. ItemsTrue(p)'
  BY <1>1, <1>3, <1>4, <1>6 DEF ActorTrue, ItemsTrue
<1>8. ListedTrue(p)'
  BY <1>1, <1>3, <1>5, <1>6 DEF ListedTrue, Replaying, Handled
<1>9. Counted(p)'
  <2>1. ASSUME NEW j \in Keys
        PROVE  Copies(j)' + InHand(p, j)' + AtWork(p, j)' <= proc'[p].base[j]
    <3>1. Copies(j)' = Copies(j) /\ AtWork(p, j)' = AtWork(p, j)
      BY <1>1 DEF Copies, AtWork
    <3>2. InHand(p, j)' = 0
      BY <1>3 DEF InHand, InWindow
    <3>3. Copies(j) \in Nat /\ AtWork(p, j) \in {0, 1}
      BY CountTypes
    <3>4. QED
      BY <1>3, <3>1, <3>2, <3>3
  <2>2. QED
    BY <2>1 DEF Counted
<1>10. Results(p)'
  <2>1. CASE s = <<>>
    BY <1>3, <2>1 DEF Results, Replaying
  <2>2. CASE s # <<>>
    <3>1. NoneOwed(p)'
      BY <1>3, <1>5, <1>6 DEF NoneOwed
    <3>2. QED
      BY <1>3, <1>5, <2>2, <3>1 DEF Results
  <2>3. QED
    BY <2>1, <2>2
<1>11. \A j \in owed' \ dropped' : j \in rows' \/ HasLetter(j)' \/ InWindow(p, j)'
  <2>1. letters' = letters /\ rows' = rows /\ owed' = owed /\ dropped' = dropped
    BY <1>1
  <2>2. \A j : ~InWindow(p, j)
    BY <1>1 DEF InWindow
  <2>3. ASSUME NEW j \in owed' \ dropped'
        PROVE  j \in rows' \/ HasLetter(j)'
    <3>1. j \in rows \/ HasLetter(j)
      BY <1>4, <2>1, <2>2, <2>3
    <3>2. HasLetter(j) => HasLetter(j)'
      BY <2>1, Zenon DEF HasLetter
    <3>3. QED
      BY <2>1, <3>1, <3>2
  <2>4. QED
    BY <2>3
<1>12. QED
  BY <1>3, <1>4, <1>7, <1>8, <1>9, <1>10, <1>11, AloneFrom DEF ActorTrue

(* The DELETE of remove_dead_letter(): the entry goes and nothing else, in *)
(* particular no letter of an item whose row is still there.               *)
LEMMA WithoutEntry ==
    ASSUME TypeOK, Shapes, IdsTrue, AloneTrue, NEW p \in Procs, MayRemove(p)
    PROVE  /\ Entry(p) \in letters /\ Entry(p) \in Letter
           /\ LettersWithout(Entry(p).id) = letters \ {Entry(p)}
           /\ \A k \in Keys : item[p][k].at = "dead" =>
                [id |-> item[p][k].letter, key |-> k] \in LettersWithout(Entry(p).id)
<1>1. /\ proc[p].list \in Seq(Letter) /\ proc[p].pos \in DOMAIN proc[p].list
      /\ Entry(p) = proc[p].list[proc[p].pos] /\ Entry(p) \in Letter
      /\ proc[p].pc = "remove" /\ item[p][Entry(p).key].letter # Entry(p).id
  BY EntryType DEF MayRemove, Replaying
<1>2. ActorTrue(p)
  BY <1>1, AloneActor
<1>3. Entry(p) \in letters
  <2>1. proc[p].pos \in Nat
    BY <1>1
  <2>2. ~Handled(p, proc[p].pos)
    BY <1>1, <2>1 DEF Handled
  <2>3. QED
    BY <1>1, <1>2, <2>2 DEF ActorTrue, ListedTrue, Replaying
<1>4. \A l \in letters : l.id = Entry(p).id => l = Entry(p)
  BY <1>3 DEF TypeOK
<1>5. LettersWithout(Entry(p).id) = letters \ {Entry(p)}
  BY <1>3, <1>4 DEF LettersWithout
<1>6. ASSUME NEW k \in Keys, item[p][k].at = "dead"
      PROVE  [id |-> item[p][k].letter, key |-> k] \in LettersWithout(Entry(p).id)
  <2> DEFINE l == [id |-> item[p][k].letter, key |-> k]
  <2>1. l \in letters /\ l.id = item[p][k].letter /\ l.key = k
    BY <1>2, <1>6 DEF ActorTrue, ItemsTrue
  <2>2. l # Entry(p)
    BY <1>1, <2>1
  <2>3. QED
    BY <1>5, <2>1, <2>2
<1>7. QED
  BY <1>1, <1>3, <1>5, <1>6, Zenon

LEMMA RemoveAlone ==
    ASSUME TypeOK, Shapes, IdsTrue, AloneTrue, Shapes', NEW p \in Procs, RemoveLetter(p)
    PROVE  AloneTrue'
<1>1. /\ item' = item /\ rows' = rows /\ owed' = owed /\ dropped' = dropped
      /\ MayRemove(p) /\ proc[p].pc = "remove"
      /\ letters' = LettersWithout(Entry(p).id)
  BY DEF RemoveLetter, MayRemove, history
<1>2. OthersRun(p) /\ SameRun(p) /\ proc'[p].pc = "submit" /\ proc'[p].exit = proc[p].exit
  BY PcSet DEF RemoveLetter
<1>3. proc'[p].list = proc[p].list /\ proc'[p].pos = proc[p].pos
      /\ proc'[p].failed = proc[p].failed /\ proc'[p].base = proc[p].base
      /\ Entry(p)' = Entry(p)
  BY <1>2 DEF SameRun, Entry
<1>4. /\ OthersOff(p) /\ ActorTrue(p)
      /\ \A j \in owed \ dropped : j \in rows \/ HasLetter(j) \/ InWindow(p, j)
  BY <1>1, AloneActor
<1>5. /\ Entry(p) \in letters /\ letters' = letters \ {Entry(p)}
      /\ \A k \in Keys : item[p][k].at = "dead" =>
            [id |-> item[p][k].letter, key |-> k] \in letters'
  BY <1>1, WithoutEntry
<1>6. /\ proc[p].list \in Seq(Letter) /\ proc[p].pos \in DOMAIN proc[p].list
      /\ Entry(p) = proc[p].list[proc[p].pos] /\ Entry(p).key \in Keys /\ proc[p].pos \in Nat
  <2>1. proc[p].pos \in Nat
    BY TypeFacts DEF ProcRecord
  <2>2. QED
    BY <1>1, <2>1, EntryType DEF Replaying
<1>7. ItemsTrue(p)'
  BY <1>1, <1>3, <1>4, <1>5 DEF ActorTrue, ItemsTrue
<1>8. ListedTrue(p)'
  <2>1. ASSUME NEW i \in DOMAIN proc[p].list
        PROVE  Handled(p, i)' <=> proc[p].list[i] \notin letters'
    <3>1. i \in Nat
      BY <1>6
    <3>2. Handled(p, i) <=> proc[p].list[i] \notin letters
      BY <1>1, <1>4 DEF ActorTrue, ListedTrue, Replaying
    <3>3. CASE i = proc[p].pos
      BY <1>2, <1>3, <1>5, <1>6, <3>3 DEF Handled
    <3>4. CASE i # proc[p].pos
      <4>1. proc[p].list[i].id # Entry(p).id
        <5>1. i < proc[p].pos \/ proc[p].pos < i
          BY <1>6, <3>1, <3>4
        <5>2. proc[p].list[i].id \in Nat /\ Entry(p).id \in Nat
          BY <1>6, ListFacts
        <5>3. QED
          BY <1>6, <5>1, <5>2, ListFacts
      <4>2. proc[p].list[i] # Entry(p)
        BY <4>1
      <4>3. Handled(p, i)' <=> Handled(p, i)
        BY <1>3, <3>4 DEF Handled
      <4>4. QED
        BY <1>5, <3>2, <4>2, <4>3
    <3>5. QED
      BY <3>3, <3>4
  <2>2. QED
    BY <1>3, <2>1 DEF ListedTrue
<1>9. Counted(p)'
  <2>1. ASSUME NEW j \in Keys
        PROVE  /\ Copies(j)' \in Nat
               /\ Copies(j)' + InHand(p, j)' + AtWork(p, j)'
                    <= Copies(j) + InHand(p, j) + AtWork(p, j)
    <3>1. AtWork(p, j)' = AtWork(p, j) /\ AtWork(p, j) \in {0, 1} /\ Copies(j) \in Nat
      BY <1>1, CountTypes DEF AtWork
    <3>2. InHand(p, j) = 0
      BY <1>1 DEF InHand, InWindow
    <3>3. IsFiniteSet(letters')
      BY <1>5, FS_Subset DEF IdsTrue
    <3>4. Copies(j)' \in Nat
      BY <3>3, CopiesType DEF Copies
    <3>6. CASE j = Entry(p).key
      <4>1. Copies(j) = Copies(j)' + 1
        <5>1. Cardinality({l \in letters : l.key = Entry(p).key})
                = Cardinality({l \in letters \ {Entry(p)} : l.key = Entry(p).key}) + 1
          BY <1>5, CopiesRemove DEF IdsTrue
        <5>2. QED
          BY <1>5, <3>6, <5>1, Zenon DEF Copies
      <4>2. InHand(p, j)' \in {0, 1}
        BY DEF InHand
      <4>3. QED
        BY <3>1, <3>2, <3>4, <4>1, <4>2
    <3>7. CASE j # Entry(p).key
      <4>1. {l \in letters' : l.key = j} = {l \in letters : l.key = j}
        BY <1>5, <3>7
      <4>2. Copies(j)' = Copies(j)
        BY <4>1 DEF Copies
      <4>3. InHand(p, j)' = 0
        BY <1>3, <3>7 DEF InHand, InWindow
      <4>4. QED
        BY <3>1, <3>2, <4>2, <4>3
    <3>8. QED
      BY <3>6, <3>7
  <2>2. QED
    BY <1>3, <1>4, <2>1, CountedFrom DEF ActorTrue
<1>10. Results(p)'
  <2>1. SomeFailed(p) => SomeFailed(p)'
    <3>1. SUFFICES ASSUME SomeFailed(p)
                   PROVE  SomeFailed(p)'
      OBVIOUS
    <3>2. PICK i \in DOMAIN proc[p].list, l \in letters :
              l.key = proc[p].list[i].key /\ l.id \notin Ids(proc[p].list)
      BY <3>1 DEF SomeFailed
    <3>3. Entry(p).id \in Ids(proc[p].list)
      BY <1>6 DEF Ids
    <3>4. l \in letters'
      BY <1>5, <3>2, <3>3
    <3>5. QED
      BY <1>3, <3>2, <3>4 DEF SomeFailed
  <2>2. NoneOwed(p) => NoneOwed(p)'
    BY <1>1, <1>3 DEF NoneOwed
  <2>3. proc[p].exit = "none" /\ (IF proc[p].failed THEN SomeFailed(p) ELSE NoneOwed(p))
    BY <1>1, <1>4 DEF ActorTrue, Results, Replaying, Shapes, ProcShape
  <2>4. QED
    BY <1>2, <1>3, <2>1, <2>2, <2>3 DEF Results
<1>11. \A j \in owed' \ dropped' : j \in rows' \/ HasLetter(j)' \/ InWindow(p, j)'
  <2>1. \A j : InWindow(p, j)' <=> Entry(p).key = j
    BY <1>2, <1>3 DEF InWindow
  <2>2. \A j : HasLetter(j) => HasLetter(j)' \/ Entry(p).key = j
    BY <1>5 DEF HasLetter
  <2>3. QED
    BY <1>1, <1>4, <2>1, <2>2 DEF InWindow
<1>12. QED
  BY <1>2, <1>4, <1>7, <1>8, <1>9, <1>10, <1>11, AloneFrom DEF ActorTrue

LEMMA ResubmitAlone ==
    ASSUME TypeOK, Shapes, IdsTrue, AloneTrue, Shapes', NEW p \in Procs, Resubmit(p)
    PROVE  AloneTrue'
<1> DEFINE k == Entry(p).key
<1>1. letters' = letters /\ proc[p].pc = "submit"
  BY DEF Resubmit
<1>2. OthersRun(p) /\ SameRun(p) /\ proc'[p].pc = "await" /\ proc'[p].exit = proc[p].exit
  BY PcSet DEF Resubmit
<1>3. /\ proc'[p].list = proc[p].list /\ proc'[p].pos = proc[p].pos
      /\ proc'[p].failed = proc[p].failed /\ proc'[p].base = proc[p].base
      /\ Entry(p)' = Entry(p)
  BY <1>2 DEF SameRun, Entry
<1>4. /\ OthersOff(p) /\ ActorTrue(p)
      /\ \A j \in owed \ dropped : j \in rows \/ HasLetter(j) \/ InWindow(p, j)
  BY <1>1, AloneActor
<1>5. k \in Keys
  BY <1>1, EntryType DEF Replaying
<1>6. \A j : InWindow(p, j) <=> j = k
  BY <1>1 DEF InWindow
<1>7. ListedTrue(p)'
  BY <1>1, <1>2, <1>3, <1>4 DEF ActorTrue, ListedTrue, Replaying, Handled
<1>8. /\ proc[p].exit = "none" /\ (IF proc[p].failed THEN SomeFailed(p) ELSE NoneOwed(p))
  BY <1>1, <1>4 DEF ActorTrue, Results, Replaying, Shapes, ProcShape
<1>9. SomeFailed(p) => SomeFailed(p)'
  BY <1>1, <1>3 DEF SomeFailed
<1>10. \A j : InHand(p, j)' = 0
  BY <1>2 DEF InHand, InWindow
<1>11. \A j : InHand(p, j) = IF j = k THEN 1 ELSE 0
  BY <1>6 DEF InHand
<1>12. \A j : Copies(j)' = Copies(j)
  BY <1>1 DEF Copies
<1>13. CASE item[p][k] = NoItem
  <2>1. Accept(p, k)
    BY <1>13 DEF Resubmit
  <2>2. /\ rows' = rows \cup {k} /\ owed' = owed \cup {k} /\ dropped' = dropped \ {k}
        /\ item'[p][k] = Working /\ \A j \in Keys \ {k} : item'[p][j] = item[p][j]
    BY <1>5, <2>1, AcceptTables
  <2> HIDE DEF k
  <2>3. ItemsTrue(p)'
    BY <1>1, <1>3, <1>4, <2>2 DEF ActorTrue, ItemsTrue, Working
  <2>4. Counted(p)'
    <3>1. ASSUME NEW j \in Keys
          PROVE  /\ Copies(j)' \in Nat
                 /\ Copies(j)' + InHand(p, j)' + AtWork(p, j)'
                      <= Copies(j) + InHand(p, j) + AtWork(p, j)
      <4>1. Copies(j) \in Nat /\ AtWork(p, j) \in {0, 1}
        BY CountTypes
      <4>2. CASE j = k
        <5>1. AtWork(p, j)' = 1
          BY <2>2, <4>2 DEF AtWork, Working
        <5>2. QED
          BY <1>10, <1>11, <1>12, <4>1, <4>2, <5>1
      <4>3. CASE j # k
        <5>1. AtWork(p, j)' = AtWork(p, j)
          BY <2>2, <3>1, <4>3 DEF AtWork
        <5>2. QED
          BY <1>10, <1>11, <1>12, <4>1, <4>3, <5>1
      <4>4. QED
        BY <4>2, <4>3
    <3>2. QED
      BY <1>3, <1>4, <3>1, CountedFrom DEF ActorTrue
  <2>5. NoneOwed(p) => NoneOwed(p)'
    BY <1>1, <1>2, <1>3, <2>2 DEF NoneOwed, k
  <2>6. Results(p)'
    BY <1>2, <1>3, <1>8, <1>9, <2>5 DEF Results
  <2>7. \A j \in owed' \ dropped' : j \in rows' \/ HasLetter(j)' \/ InWindow(p, j)'
    BY <1>1, <1>4, <1>6, <2>2 DEF HasLetter
  <2>8. QED
    BY <1>2, <1>4, <1>7, <2>3, <2>4, <2>6, <2>7, AloneFrom DEF ActorTrue
<1>14. CASE item[p][k] # NoItem
  <2>1. rows' = rows /\ item' = item /\ owed' = owed /\ dropped' = dropped
    BY <1>14 DEF Resubmit, history
  <2>2. item[p][k].at \in {"work", "done", "dead"}
    <3>1. item[p][k] \in {Working, Done} \/ item[p][k] = Dead(item[p][k].letter)
      BY <1>5, <1>14 DEF Shapes, ItemShape
    <3>2. \A n : Dead(n).at = "dead"
      BY DEF Dead
    <3>3. Working.at = "work" /\ Done.at = "done"
      BY DEF Working, Done
    <3>4. QED
      BY <3>1, <3>2, <3>3
  <2> HIDE DEF k
  <2>3. ItemsTrue(p)'
    BY <1>1, <1>3, <1>4, <2>1 DEF ActorTrue, ItemsTrue
  <2>4. Counted(p)'
    <3>1. ASSUME NEW j \in Keys
          PROVE  /\ Copies(j)' \in Nat
                 /\ Copies(j)' + InHand(p, j)' + AtWork(p, j)'
                      <= Copies(j) + InHand(p, j) + AtWork(p, j)
      <4>1. Copies(j) \in Nat /\ AtWork(p, j) \in {0, 1} /\ AtWork(p, j)' = AtWork(p, j)
        BY <2>1, CountTypes DEF AtWork
      <4>2. InHand(p, j) \in {0, 1}
        BY CountTypes
      <4>3. QED
        BY <1>10, <1>12, <4>1, <4>2
    <3>2. QED
      BY <1>3, <1>4, <3>1, CountedFrom DEF ActorTrue
  <2>5. NoneOwed(p) => NoneOwed(p)'
    BY <1>1, <1>3, <2>1 DEF NoneOwed
  <2>6. Results(p)'
    BY <1>2, <1>3, <1>8, <1>9, <2>5 DEF Results
  <2>7. k \in owed => k \in rows \/ HasLetter(k)
    <3>1. /\ item[p][k].at = "work" => k \in rows
          /\ item[p][k].at = "done" => k \notin owed
          /\ item[p][k].at = "dead" => [id |-> item[p][k].letter, key |-> k] \in letters
      BY <1>4, <1>5 DEF ActorTrue, ItemsTrue
    <3>2. QED
      BY <2>2, <3>1 DEF HasLetter
  <2>8. \A j \in owed' \ dropped' : j \in rows' \/ HasLetter(j)' \/ InWindow(p, j)'
    BY <1>1, <1>4, <1>6, <2>1, <2>7 DEF HasLetter
  <2>9. QED
    BY <1>2, <1>4, <1>7, <2>3, <2>4, <2>6, <2>8, AloneFrom DEF ActorTrue
<1>15. QED
  BY <1>13, <1>14

LEMMA RaisesAlone ==
    ASSUME TypeOK, Shapes, IdsTrue, AloneTrue, Shapes', NEW p \in Procs, ReplayRaises(p)
    PROVE  AloneTrue'
<1>1. /\ item' = item /\ rows' = rows /\ owed' = owed
      /\ proc[p].pc \in {"list", "remove", "submit"}
  BY DEF ReplayRaises, MayRemove
<1>2. OthersRun(p) /\ SameRun(p) /\ proc'[p].pc = "stopping" /\ proc'[p].exit = "raised"
  BY RaisedSet DEF ReplayRaises
<1>3. proc'[p].list = proc[p].list /\ proc'[p].base = proc[p].base
  BY <1>2 DEF SameRun
<1>4. /\ OthersOff(p) /\ ActorTrue(p)
      /\ \A j \in owed \ dropped : j \in rows \/ HasLetter(j) \/ InWindow(p, j)
  BY <1>1, AloneActor
<1>5. ListedTrue(p)' /\ Results(p)'
  BY <1>2 DEF ListedTrue, Results, Replaying
<1>6. /\ letters' \subseteq letters
      /\ \A k \in Keys : item[p][k].at = "dead" =>
            [id |-> item[p][k].letter, key |-> k] \in letters'
  <2>1. CASE letters' = letters
    BY <1>4, <2>1 DEF ActorTrue, ItemsTrue
  <2>2. CASE MayRemove(p) /\ letters' = LettersWithout(Entry(p).id)
    BY <2>2, WithoutEntry
  <2>3. QED
    BY <2>1, <2>2 DEF ReplayRaises
<1>7. ItemsTrue(p)'
  BY <1>1, <1>3, <1>4, <1>6 DEF ActorTrue, ItemsTrue
<1>8. Counted(p)'
  <2>1. ASSUME NEW j \in Keys
        PROVE  /\ Copies(j)' \in Nat
               /\ Copies(j)' + InHand(p, j)' + AtWork(p, j)'
                    <= Copies(j) + InHand(p, j) + AtWork(p, j)
    <3>1. AtWork(p, j)' = AtWork(p, j) /\ InHand(p, j)' = 0
      BY <1>1, <1>2 DEF AtWork, InHand, InWindow
    <3>2. Copies(j) \in Nat /\ AtWork(p, j) \in {0, 1} /\ InHand(p, j) \in {0, 1}
      BY CountTypes
    <3>3. IsFiniteSet(letters) /\ IsFiniteSet(letters')
      BY <1>6, FS_Subset DEF IdsTrue
    <3>4. Copies(j)' \in Nat
      BY <3>3, CopiesType DEF Copies
    <3>5. Copies(j)' <= Copies(j)
      BY <1>6, <3>3, CopiesFewer DEF Copies
    <3>6. QED
      BY <3>1, <3>2, <3>4, <3>5
  <2>2. QED
    BY <1>3, <1>4, <2>1, CountedFrom DEF ActorTrue
<1>9. \A j \in owed' \ dropped' : j \in rows' \/ HasLetter(j)' \/ InWindow(p, j)'
  <2>1. CASE proc[p].pc # "submit" /\ UNCHANGED <<letters, dropped>>
    BY <1>1, <1>4, <2>1 DEF HasLetter, InWindow
  <2>2. CASE /\ MayRemove(p) /\ letters' = LettersWithout(Entry(p).id)
             /\ Drops(p, Entry(p).key, letters')
    <3>1. letters' = letters \ {Entry(p)} /\ proc[p].pc # "submit"
      BY <2>2, WithoutEntry DEF MayRemove
    <3>2. \A j : HasLetter(j) => HasLetter(j)' \/ Entry(p).key = j
      BY <3>1 DEF HasLetter
    <3>4. dropped \subseteq dropped'
      BY <2>2 DEF Drops
    <3>5. ASSUME NEW j \in owed' \ dropped'
          PROVE  j \in rows' \/ HasLetter(j)'
      <4>1. j \in rows \/ HasLetter(j)
        BY <1>1, <1>4, <3>1, <3>4, <3>5 DEF InWindow
      <4>2. CASE j = Entry(p).key
        BY <1>1, <2>2, <3>5, <4>2 DEF Drops, HasLetter
      <4>3. CASE j # Entry(p).key
        BY <1>1, <3>2, <4>1, <4>3
      <4>4. QED
        BY <4>2, <4>3
    <3>6. QED
      BY <3>5
  <2>3. CASE proc[p].pc = "submit" /\ Drops(p, Entry(p).key, letters) /\ UNCHANGED letters
    BY <1>1, <1>4, <2>3 DEF Drops, HasLetter, InWindow
  <2>4. QED
    BY <2>1, <2>2, <2>3 DEF ReplayRaises, MayRemove
<1>10. QED
  BY <1>2, <1>4, <1>5, <1>7, <1>8, <1>9, AloneFrom DEF ActorTrue

LEMMA PurgeAlone ==
    ASSUME TypeOK, AloneTrue, Shapes', Purge, "shared" \notin faults
    PROVE  AloneTrue'
<1>1. /\ \A q \in Procs : proc[q].pc = "off"
      /\ proc' = proc /\ rows' = rows
      /\ owed' = {k \in owed : ~HasLetter(k)} /\ dropped' = dropped \cap owed'
  BY DEF Purge
<1>2. \A q \in Procs : ActorTrue(q)'
  BY <1>1, IdleTrue DEF Shapes
<1>3. \A k \in owed' \ dropped' : Kept(k)'
  BY <1>1 DEF AloneTrue, Kept, InWindow
<1>4. Solo'
  BY <1>1 DEF Solo
<1>5. QED
  BY <1>2, <1>3, <1>4 DEF AloneTrue, ActorTrue

LEMMA StutterAlone ==
    ASSUME AloneTrue, UNCHANGED vars
    PROVE  AloneTrue'
<1>1. /\ letters' = letters /\ rows' = rows /\ owed' = owed /\ dropped' = dropped
      /\ proc' = proc /\ item' = item
  BY DEF vars, tables, history
<1>2. Solo'
  BY <1>1 DEF AloneTrue, Solo
<1>3. \A k \in owed' \ dropped' : Kept(k)'
  BY <1>1 DEF AloneTrue, Kept, HasLetter, InWindow, Entry
<1>4. ASSUME NEW p \in Procs
      PROVE  ActorTrue(p)'
  <2>1. ActorTrue(p)
    BY DEF AloneTrue, ActorTrue
  <2>2. ItemsTrue(p)' /\ ListedTrue(p)'
    BY <1>1, <2>1 DEF ActorTrue, ItemsTrue, ListedTrue, Replaying, Handled
  <2>3. Counted(p)'
    BY <1>1, <2>1 DEF ActorTrue, Counted, Copies, InHand, AtWork, InWindow, Entry
  <2>4. Results(p)'
    BY <1>1, <2>1 DEF ActorTrue, Results, Replaying, SomeFailed, NoneOwed, Entry
  <2>5. QED
    BY <2>2, <2>3, <2>4 DEF ActorTrue
<1>5. QED
  BY <1>2, <1>3, <1>4 DEF AloneTrue, ActorTrue

LEMMA AloneStep ==
    ASSUME TypeOK, Shapes, IdsTrue, AloneTrue, Shapes', "shared" \notin faults, [Next]_vars
    PROVE  AloneTrue'
  BY LaunchAlone, SubmitAlone, SucceedAlone, PushAlone, DeleteAlone, LeaveAlone, AbandonAlone,
     ExitAlone, CrashAlone, ListAlone, RemoveAlone, ResubmitAlone, RaisesAlone, PurgeAlone,
     StutterAlone, Zenon DEF Next, Work

-----------------------------------------------------------------------------
(* One command beside the application *)

LEMMA Processes ==
    /\ App \in Procs /\ App \notin Operators
    /\ \A o \in Operators : o \in Procs /\ o # App
    /\ \A p \in Procs : p = App \/ p \in Operators
  BY ReplayAssumption DEF Procs, ReplayAssumption

LEMMA ReplaySame ==
    ASSUME \A o \in Operators : proc'[o] = proc[o]
    PROVE  \A k : InReplay(k)' <=> InReplay(k)
  BY DEF InReplay, InWindow, Awaits, Entry

(* What the only operator replays. *)
LEMMA ReplayOf ==
    ASSUME NEW o \in Operators, \A q \in Operators : q = o
    PROVE  /\ \A k : InReplay(k) <=> InWindow(o, k) \/ Awaits(o, k)
           /\ \A k : InReplay(k)' <=> InWindow(o, k)' \/ Awaits(o, k)'
<1>1. \A k : InReplay(k) <=> InWindow(o, k) \/ Awaits(o, k)
  BY DEF InReplay
<1>2. \A k : InReplay(k)' <=> InWindow(o, k)' \/ Awaits(o, k)'
  <2>1. ASSUME NEW k
        PROVE  InReplay(k)' <=> InWindow(o, k)' \/ Awaits(o, k)'
    BY DEF InReplay
  <2>2. QED
    BY <2>1
<1>3. QED
  BY <1>1, <1>2

(* A step in which an operator's process is not, and does not come to be,  *)
(* between the removal and the answer of an entry.                         *)
LEMMA NoReplay ==
    ASSUME NEW o \in Operators, \A q \in Operators : q = o,
           proc[o].pc \notin {"submit", "await"}, proc'[o].pc \notin {"submit", "await"}
    PROVE  \A k : ~InReplay(k) /\ ~InReplay(k)'
<1>1. ASSUME NEW k
      PROVE  ~InReplay(k) /\ ~InReplay(k)'
  BY DEF InReplay, InWindow, Awaits
<1>2. QED
  BY <1>1

(* Nothing of the tables, the items and the replay changes. *)
LEMMA HeldSame ==
    ASSUME SharedTrue, letters' = letters, rows' = rows, Due' = Due, item' = item, Roles',
           \A k : InReplay(k)' <=> InReplay(k)
    PROVE  SharedTrue'
<1>1. \A k \in Due' : Held(k)'
  BY DEF SharedTrue, Held, HasLetter, AppWorks
<1>2. OperatorLetters'
  BY DEF SharedTrue, OperatorLetters
<1>3. QED
  BY <1>1, <1>2 DEF SharedTrue

LEMMA LaunchShared ==
    ASSUME TypeOK, Shapes, SharedTrue, OneCommand,
           NEW p \in Procs, NEW cmd \in Commands, Launch(p, cmd)
    PROVE  SharedTrue'
<1>1. /\ letters' = letters /\ rows' = rows /\ Due' = Due
      /\ proc[p].pc = "off" /\ (cmd = "app" <=> p = App)
  BY DEF Launch, tables, history, Due
<1>2. /\ OthersRun(p) /\ proc'[p].pc \in {"list", "serve"} /\ proc'[p].cmd = cmd
      /\ proc'[p].pc = "list" => cmd \in Replays
  BY LaunchSet
<1>3. \A k \in Keys : item[p][k].at = "none" /\ item'[p][k].at \in {"work", "none"}
  <2>1. \A k \in Keys : item'[p][k] \in {Working, NoItem}
    BY TypeFacts DEF Launch
  <2>2. \A k \in Keys : item[p][k] = NoItem
    BY <1>1 DEF Shapes, ProcShape
  <2>3. QED
    BY <2>1, <2>2 DEF Working, NoItem
<1>4. OthersKeep(p)
  BY TypeFacts DEF Launch, OthersKeep
<1>5. Due \subseteq Keys
  BY DEF TypeOK, Due
<1>6. CASE p = App
  <2>1. proc'[App].pc = "serve" /\ proc'[App].cmd = "app"
    BY <1>1, <1>2, <1>6 DEF Replays
  <2>2. \A o \in Operators : proc'[o] = proc[o] /\ item'[o] = item[o]
    BY <1>2, <1>4, <1>6, Processes DEF OthersRun, OthersKeep
  <2>3. Roles' /\ OperatorLetters'
    BY <1>1, <2>1, <2>2 DEF SharedTrue, Roles, OperatorLetters
  <2>4. \A k \in Due' : Held(k)'
    BY <1>1, <1>3, <1>5, <1>6, <2>2, ReplaySame DEF SharedTrue, Held, HasLetter, AppWorks
  <2>5. QED
    BY <2>3, <2>4 DEF SharedTrue
<1>7. CASE p \in Operators
  <2>1. \A q \in Operators : q = p
    BY <1>7 DEF OneCommand
  <2>2. proc'[App] = proc[App] /\ item'[App] = item[App]
    BY <1>2, <1>4, <1>7, Processes DEF OthersRun, OthersKeep
  <2>3. \A k : ~InReplay(k) /\ ~InReplay(k)'
    BY <1>1, <1>2, <1>7, <2>1, NoReplay
  <2>4. Roles'
    BY <1>1, <1>2, <1>7, <2>1, <2>2, Processes DEF SharedTrue, Roles
  <2>5. OperatorLetters'
    BY <1>3, <2>1 DEF OperatorLetters
  <2>6. \A k \in Due' : Held(k)'
    BY <1>1, <1>3, <1>5, <2>1, <2>2, <2>3 DEF SharedTrue, Held, HasLetter, AppWorks
  <2>7. QED
    BY <2>4, <2>5, <2>6 DEF SharedTrue
<1>8. QED
  BY <1>6, <1>7, Processes

LEMMA SubmitShared ==
    ASSUME TypeOK, Shapes, SharedTrue, NEW p \in Procs, NEW k \in Keys, Submit(p, k)
    PROVE  SharedTrue'
<1>1. /\ Accept(p, k) /\ proc' = proc /\ letters' = letters
      /\ proc[p].pc = "serve" /\ proc[p].cmd = "app"
  BY DEF Submit
<1>2. p = App
  BY <1>1, Processes DEF SharedTrue, Roles
<1>3. /\ rows' = rows \cup {k} /\ Due' = Due \cup {k}
      /\ item'[App][k] = Working /\ \A j \in Keys \ {k} : item'[App][j] = item[App][j]
      /\ \A o \in Operators : item'[o] = item[o]
  BY <1>1, <1>2, AcceptTables, Processes DEF OthersKeep, Due
<1>4. Roles' /\ OperatorLetters'
  BY <1>1, <1>3 DEF SharedTrue, Roles, OperatorLetters
<1>5. AppWorks(k)' /\ item'[App][k].at = "work"
  BY <1>3 DEF AppWorks, Working
<1>6. Due' \subseteq Keys
  BY <1>3 DEF TypeOK, Due
<1>7. Held(k)'
  BY <1>5 DEF Held
<1>8. ASSUME NEW j \in Due' \ {k}
      PROVE  Held(j)'
  <2>1. Held(j)
    BY <1>3, <1>8 DEF SharedTrue
  <2>2. (InReplay(j)' <=> InReplay(j)) /\ (HasLetter(j)' <=> HasLetter(j))
    BY <1>1 DEF InReplay, InWindow, Awaits, Entry, HasLetter
  <2>3. QED
    BY <1>3, <1>6, <1>8, <2>1, <2>2 DEF Held, AppWorks
<1>9. QED
  BY <1>4, <1>7, <1>8 DEF SharedTrue

LEMMA SucceedShared ==
    ASSUME TypeOK, Shapes, SharedTrue, NEW p \in Procs, NEW k \in Keys, Succeed(p, k)
    PROVE  SharedTrue'
<1>1. proc' = proc /\ letters' = letters /\ rows' = rows /\ Due' = Due \ {k}
  BY DEF Succeed, tables, Due
<1>2. /\ item'[p][k].at = "done" /\ \A j \in Keys \ {k} : item'[p][j] = item[p][j]
      /\ OthersKeep(p)
  <2>1. Done \in ItemRecord /\ SetItem(p, k, Done)
    BY ItemTypes DEF Succeed, Done
  <2>2. QED
    BY <2>1, ItemSet DEF Done
<1>3. \A q \in Procs : \A j \in Keys \ {k} : item'[q][j] = item[q][j]
  BY <1>2 DEF OthersKeep
<1>4. Roles'
  BY <1>1 DEF SharedTrue, Roles
<1>5. OperatorLetters'
  BY <1>1, <1>2, Processes DEF SharedTrue, OperatorLetters, OthersKeep
<1>6. ASSUME NEW j \in Due'
      PROVE  Held(j)'
  <2>1. Held(j) /\ j \in Keys \ {k}
    BY <1>1, <1>6 DEF SharedTrue, TypeOK, Due
  <2>2. (InReplay(j)' <=> InReplay(j)) /\ (HasLetter(j)' <=> HasLetter(j))
    BY <1>1 DEF InReplay, InWindow, Awaits, Entry, HasLetter
  <2>3. QED
    BY <1>1, <1>3, <2>1, <2>2, Processes DEF Held, AppWorks
<1>7. QED
  BY <1>4, <1>5, <1>6 DEF SharedTrue

LEMMA PushShared ==
    ASSUME TypeOK, Shapes, SharedTrue, NEW p \in Procs, NEW k \in Keys, PushDeadLetter(p, k)
    PROVE  SharedTrue'
<1> DEFINE m == [id |-> NextId, key |-> k]
<1>1. proc' = proc /\ letters' = letters \cup {m} /\ rows' = rows /\ Due' = Due
  BY DEF PushDeadLetter, history, Due
<1>2. /\ item'[p][k].at = "dead" /\ item'[p][k].letter = NextId
      /\ \A j \in Keys \ {k} : item'[p][j] = item[p][j]
      /\ OthersKeep(p)
  <2>1. NextId \in Nat
    BY DEF NextId, TypeOK
  <2>2. Dead(NextId) \in ItemRecord /\ SetItem(p, k, Dead(NextId))
    BY <2>1, ItemTypes DEF PushDeadLetter, Dead
  <2>3. QED
    BY <2>2, ItemSet DEF Dead
<1>3. \A q \in Procs : \A j \in Keys \ {k} : item'[q][j] = item[q][j]
  BY <1>2 DEF OthersKeep
<1>4. [id |-> item'[p][k].letter, key |-> k] = m /\ m.key = k
  BY <1>2
<1> HIDE DEF m
<1>5. Roles'
  BY <1>1 DEF SharedTrue, Roles
<1>6. OperatorLetters'
  BY <1>1, <1>2, <1>4, Processes DEF SharedTrue, OperatorLetters, OthersKeep
<1>7. HasLetter(k)'
  BY <1>1, <1>4 DEF HasLetter
<1>8. ASSUME NEW j \in Due' \ {k}
      PROVE  Held(j)'
  <2>1. Held(j) /\ j \in Keys \ {k}
    BY <1>1, <1>8 DEF SharedTrue, TypeOK, Due
  <2>2. (InReplay(j)' <=> InReplay(j)) /\ (HasLetter(j) => HasLetter(j)')
    BY <1>1 DEF InReplay, InWindow, Awaits, Entry, HasLetter
  <2>3. QED
    BY <1>1, <1>3, <2>1, <2>2, Processes DEF Held, AppWorks
<1>9. Held(k)'
  BY <1>7 DEF Held
<1>10. QED
  BY <1>5, <1>6, <1>8, <1>9 DEF SharedTrue

LEMMA DeleteShared ==
    ASSUME TypeOK, Shapes, SharedTrue, OneCommand,
           NEW p \in Procs, NEW k \in Keys, DeleteInflight(p, k)
    PROVE  SharedTrue'
<1>1. letters' = letters /\ rows' = rows \ {k} /\ item[p][k].at \in {"done", "dead"}
  BY DEF DeleteInflight
<1>2. /\ item'[p][k].at = "none" /\ \A j \in Keys \ {k} : item'[p][j] = item[p][j]
      /\ OthersKeep(p)
  BY ItemTypes, ItemSet DEF DeleteInflight, NoItem
<1>3. \A q \in Procs : \A j \in Keys \ {k} : item'[q][j] = item[q][j]
  BY <1>2 DEF OthersKeep
<1>4. OperatorLetters'
  BY <1>1, <1>2, Processes DEF SharedTrue, OperatorLetters, OthersKeep
<1>5. Due' \subseteq Due /\ Due \subseteq Keys
  BY DEF DeleteInflight, TypeOK, Due
<1>6. \A j : HasLetter(j)' <=> HasLetter(j)
  BY <1>1 DEF HasLetter
<1>7. CASE ~Awaits(p, k)
  <2>1. proc' = proc /\ Due' = Due
    BY <1>7 DEF DeleteInflight, AnsweredUnsent, Due
  <2>2. \A j : InReplay(j)' <=> InReplay(j)
    BY <2>1, ReplaySame
  <2>3. Roles'
    BY <2>1 DEF SharedTrue, Roles
  <2>4. ASSUME NEW j \in Due \ {k}
        PROVE  Held(j)'
    <3>1. Held(j) /\ j \in Keys \ {k}
      BY <1>5, <2>4 DEF SharedTrue
    <3>2. QED
      BY <1>1, <1>3, <1>6, <2>2, <2>4, <3>1, Processes DEF Held, AppWorks
  <2>5. ASSUME k \in Due
        PROVE  Held(k)'
    <3>1. Held(k)
      BY <2>5 DEF SharedTrue
    <3>2. CASE p = App
      <4>1. HasLetter(k) \/ InReplay(k)
        BY <1>1, <3>1, <3>2 DEF Held
      <4>2. QED
        BY <1>6, <2>2, <4>1 DEF Held
    <3>3. CASE p \in Operators
      <4>1. \A q \in Operators : item'[q][k].at = "none"
        BY <1>2, <3>3 DEF OneCommand
      <4>2. item'[App] = item[App]
        BY <1>2, <3>3, Processes DEF OthersKeep
      <4>3. HasLetter(k) \/ InReplay(k) \/ AppWorks(k)
        <5>1. CASE item[p][k].at = "done"
          BY <3>1, <3>3, <5>1 DEF Held
        <5>2. CASE item[p][k].at = "dead"
          BY <3>3, <5>2 DEF SharedTrue, OperatorLetters, HasLetter
        <5>3. QED
          BY <1>1, <5>1, <5>2
      <4>4. QED
        BY <1>6, <2>2, <3>1, <4>1, <4>2, <4>3 DEF Held, AppWorks
    <3>4. QED
      BY <3>2, <3>3, Processes
  <2>6. QED
    BY <1>4, <2>1, <2>3, <2>4, <2>5 DEF SharedTrue
<1>8. CASE Awaits(p, k)
  <2>1. proc[p].pc = "await" /\ Entry(p).key = k
    BY <1>8 DEF Awaits
  <2>2. p \in Operators /\ p # App
    BY <2>1, Processes DEF SharedTrue, Roles
  <2>3. \A q \in Operators : q = p
    BY <2>2 DEF OneCommand
  <2> DEFINE ok == item[p][k].at = "done"
  <2>4. proc' = [proc EXCEPT ![p] = Answered(proc[p], ok)]
    BY <1>8, Zenon DEF DeleteInflight
  <2>5. ok \in BOOLEAN
    OBVIOUS
  <2> HIDE DEF ok
  <2>6. OthersRun(p) /\ proc'[p].cmd = proc[p].cmd /\ proc'[p].pc \in {"remove", "stopping"}
    BY <2>4, <2>5, AnsweredSet
  <2>7. proc'[App] = proc[App] /\ item'[App] = item[App]
    BY <1>2, <2>2, <2>6, Processes DEF OthersRun, OthersKeep
  <2>8. Roles'
    BY <2>1, <2>2, <2>3, <2>6, <2>7 DEF SharedTrue, Roles
  <2>9. \A j : InReplay(j) => j = k
    BY <2>1, <2>2, <2>3, ReplayOf DEF InWindow, Awaits
  <2>10. ASSUME NEW j \in Due' \ {k}
         PROVE  Held(j)'
    <3>1. Held(j) /\ j \in Keys \ {k} /\ ~InReplay(j)
      BY <1>5, <2>9, <2>10 DEF SharedTrue
    <3>2. QED
      BY <1>1, <1>3, <1>6, <2>10, <3>1, Processes DEF Held, AppWorks
  <2>11. ASSUME k \in Due'
         PROVE  Held(k)'
    <3>1. CASE item[p][k].at = "dead"
      <4>1. HasLetter(k)'
        BY <1>6, <2>2, <3>1 DEF SharedTrue, OperatorLetters, HasLetter
      <4>2. QED
        BY <4>1 DEF Held
    <3>2. CASE item[p][k].at = "done"
      <4>1. ~AnsweredUnsent(p, k) /\ k \in owed
        BY <2>11 DEF DeleteInflight, Due
      <4>2. HasLetter(k) \/ \E q \in Procs : item[q][k] = Working
        BY <1>8, <3>2, <4>1 DEF AnsweredUnsent
      <4>3. CASE HasLetter(k)
        <5>1. HasLetter(k)'
          BY <1>6, <4>3
        <5>2. QED
          BY <5>1 DEF Held
      <4>4. ASSUME NEW q \in Procs, item[q][k] = Working
            PROVE  Held(k)'
        <5>1. q # p
          BY <3>2, <4>4 DEF Working
        <5>2. item[App][k].at = "work"
          BY <2>3, <4>4, <5>1, Processes DEF Working
        <5>3. AppWorks(k)' /\ item'[App][k].at = "work"
          BY <2>7, <5>2 DEF AppWorks
        <5>4. QED
          BY <5>3 DEF Held
      <4>5. QED
        BY <4>2, <4>3, <4>4
    <3>3. QED
      BY <1>1, <3>1, <3>2
  <2>12. QED
    BY <1>4, <2>8, <2>10, <2>11 DEF SharedTrue
<1>9. QED
  BY <1>7, <1>8

(* Steps of the operator's process that it takes outside the replay of an  *)
(* entry and that change no table.                                         *)
LEMMA QuietShared ==
    ASSUME TypeOK, SharedTrue, OneCommand, NEW p \in Procs, p # App,
           letters' = letters, rows' = rows, Due' = Due, item' = item, OthersRun(p),
           proc[p].pc \notin {"off", "submit", "await"}, proc'[p].pc \notin {"submit", "await"},
           proc'[p].pc # "off" => proc'[p].cmd = proc[p].cmd
    PROVE  SharedTrue'
<1>1. p \in Operators /\ proc'[App] = proc[App]
  BY Processes DEF OthersRun
<1>2. \A q \in Operators : q = p
  BY <1>1 DEF OneCommand
<1>3. \A k : ~InReplay(k) /\ ~InReplay(k)'
  BY <1>1, <1>2, NoReplay
<1>4. Roles'
  BY <1>1, <1>2 DEF SharedTrue, Roles
<1>5. QED
  BY <1>3, <1>4, HeldSame

LEMMA LeaveShared ==
    ASSUME TypeOK, SharedTrue, OneCommand, Shapes, NEW p \in Procs, Leave(p)
    PROVE  SharedTrue'
<1>1. p # App
  <2>1. "shared" \in faults
    BY DEF OneCommand
  <2>2. proc[p].cmd # "app" /\ proc[p].pc = "serve"
    BY <2>1 DEF Leave
  <2>3. ASSUME p = App
        PROVE  FALSE
    BY <2>2, <2>3 DEF SharedTrue, Roles
  <2>4. QED
    BY <2>3
<1>2. /\ letters' = letters /\ rows' = rows /\ Due' = Due /\ item' = item
      /\ proc[p].pc = "serve"
  BY DEF Leave, tables, history, Due
<1>3. OthersRun(p) /\ proc'[p].pc = "stopping" /\ proc'[p].cmd = proc[p].cmd
  BY PcSet DEF Leave, SameRun
<1>4. QED
  BY <1>1, <1>2, <1>3, QuietShared

LEMMA ExitShared ==
    ASSUME TypeOK, SharedTrue, OneCommand, NEW p \in Procs, Exit(p)
    PROVE  SharedTrue'
<1>1. /\ letters' = letters /\ rows' = rows /\ Due' = Due /\ item' = item
      /\ proc[p].pc = "stopping"
  BY DEF Exit, tables, history, Due
<1>2. p # App
  BY <1>1 DEF SharedTrue, Roles
<1>3. OthersRun(p) /\ proc'[p].pc = "off"
  BY OffType, RecordSet DEF Exit, Off
<1>4. QED
  BY <1>1, <1>2, <1>3, QuietShared

LEMMA ListShared ==
    ASSUME TypeOK, IdsTrue, SharedTrue, OneCommand, NEW p \in Procs, List(p)
    PROVE  SharedTrue'
<1>1. /\ letters' = letters /\ rows' = rows /\ Due' = Due /\ item' = item
      /\ proc[p].pc = "list"
  BY DEF List, tables, history, Due
<1>2. p # App
  BY <1>1 DEF SharedTrue, Roles
<1>3. PICK s \in Seq(letters), e \in {"none", "0", "1"} : Listed(p, s, e)
  BY ListEffect
<1>4. /\ OthersRun(p) /\ proc'[p].cmd = proc[p].cmd
      /\ proc'[p].pc = IF s = <<>> THEN "stopping" ELSE "remove"
  BY <1>3, ListedSet
<1>5. QED
  BY <1>1, <1>2, <1>4, QuietShared

LEMMA AbandonShared ==
    ASSUME TypeOK, SharedTrue, OneCommand, NEW p \in Procs, NEW k \in Keys, Abandon(p, k)
    PROVE  SharedTrue'
<1>1. /\ proc' = proc /\ letters' = letters /\ rows' = rows /\ Due' = Due
      /\ proc[p].pc = "stopping"
  BY DEF Abandon, tables, history, Due
<1>2. /\ item'[p][k].at = "none" /\ \A j \in Keys \ {k} : item'[p][j] = item[p][j]
      /\ OthersKeep(p)
  BY ItemTypes, ItemSet DEF Abandon, NoItem
<1>3. p # App /\ p \in Operators
  BY <1>1, Processes DEF SharedTrue, Roles
<1>4. item'[App] = item[App]
  BY <1>2, <1>3, Processes DEF OthersKeep
<1>5. \A q \in Operators, j \in Keys : item'[q][j].at \in {"done", "dead"} => item'[q][j] = item[q][j]
  BY <1>2, <1>3 DEF OneCommand
<1>6. Roles' /\ OperatorLetters'
  BY <1>1, <1>5 DEF SharedTrue, Roles, OperatorLetters
<1>7. ASSUME NEW j \in Due'
      PROVE  Held(j)'
  <2>1. Held(j) /\ j \in Keys
    BY <1>1, <1>7 DEF SharedTrue, TypeOK, Due
  <2>2. (InReplay(j)' <=> InReplay(j)) /\ (HasLetter(j)' <=> HasLetter(j))
    BY <1>1 DEF InReplay, InWindow, Awaits, Entry, HasLetter
  <2>3. QED
    BY <1>1, <1>4, <1>5, <2>1, <2>2 DEF Held, AppWorks
<1>8. QED
  BY <1>6, <1>7 DEF SharedTrue

LEMMA RemoveShared ==
    ASSUME TypeOK, Shapes, IdsTrue, SharedTrue, OneCommand, NEW p \in Procs, RemoveLetter(p)
    PROVE  SharedTrue'
<1>1. /\ item' = item /\ rows' = rows /\ Due' = Due /\ MayRemove(p)
      /\ proc[p].pc = "remove" /\ item[p][Entry(p).key].letter # Entry(p).id
      /\ letters' = LettersWithout(Entry(p).id)
  BY DEF RemoveLetter, MayRemove, history, Due
<1>2. p \in Operators /\ p # App
  BY <1>1, Processes DEF SharedTrue, Roles
<1>3. \A q \in Operators : q = p
  BY <1>2 DEF OneCommand
<1>4. OthersRun(p) /\ SameRun(p) /\ proc'[p].pc = "submit"
  BY PcSet DEF RemoveLetter
<1>5. Entry(p)' = Entry(p) /\ proc'[p].cmd = proc[p].cmd
  BY <1>4 DEF SameRun, Entry
<1>6. \A l \in letters : l.id = Entry(p).id => l = Entry(p)
  BY <1>1, EntryType, ListFacts DEF Replaying
<1>7. letters' = letters \ {Entry(p)}
  BY <1>1, <1>6 DEF LettersWithout
<1>9. \A j : InReplay(j)' <=> j = Entry(p).key
  BY <1>2, <1>3, <1>4, <1>5, ReplayOf DEF InWindow, Awaits
<1>10. \A j : ~InReplay(j)
  BY <1>1, <1>3 DEF InReplay, InWindow, Awaits
<1>11. Roles'
  BY <1>1, <1>2, <1>3, <1>4, <1>5, Processes DEF SharedTrue, Roles, OthersRun
<1>12. OperatorLetters'
  <2>1. ASSUME NEW k \in Keys, item[p][k].at = "dead"
        PROVE  [id |-> item[p][k].letter, key |-> k] \in letters'
    <3> DEFINE l == [id |-> item[p][k].letter, key |-> k]
    <3>1. l \in letters /\ l.id = item[p][k].letter /\ l.key = k
      BY <1>2, <2>1 DEF SharedTrue, OperatorLetters
    <3>2. l # Entry(p)
      BY <1>1, <3>1
    <3>3. QED
      BY <1>7, <3>1, <3>2
  <2>2. QED
    BY <1>1, <1>3, <2>1 DEF OperatorLetters
<1>13. ASSUME NEW j \in Due'
       PROVE  Held(j)'
  <2>1. Held(j)
    BY <1>1, <1>13 DEF SharedTrue
  <2>2. HasLetter(j) => HasLetter(j)' \/ InReplay(j)'
    BY <1>7, <1>9 DEF HasLetter
  <2>3. QED
    BY <1>1, <1>10, <2>1, <2>2 DEF Held, AppWorks
<1>14. QED
  BY <1>11, <1>12, <1>13 DEF SharedTrue

LEMMA ResubmitShared ==
    ASSUME TypeOK, Shapes, SharedTrue, OneCommand, NEW p \in Procs, Resubmit(p)
    PROVE  SharedTrue'
<1>0. PICK k : k = Entry(p).key
  OBVIOUS
<1>1. letters' = letters /\ proc[p].pc = "submit"
  BY DEF Resubmit
<1>2. p \in Operators /\ p # App
  BY <1>1, Processes DEF SharedTrue, Roles
<1>3. \A q \in Operators : q = p
  BY <1>2 DEF OneCommand
<1>4. OthersRun(p) /\ SameRun(p) /\ proc'[p].pc = "await"
  BY PcSet DEF Resubmit
<1>5. Entry(p)' = Entry(p) /\ proc'[p].cmd = proc[p].cmd
  BY <1>4 DEF SameRun, Entry
<1>6. k \in Keys
  BY <1>0, <1>1, EntryType DEF Replaying
<1>7. \A j : InReplay(j)' <=> j = k
  BY <1>0, <1>2, <1>3, <1>4, <1>5, ReplayOf DEF InWindow, Awaits
<1>8. \A j : InReplay(j) <=> j = k
  BY <1>0, <1>1, <1>2, <1>3, ReplayOf DEF InWindow, Awaits
<1>9. Roles'
  BY <1>1, <1>2, <1>3, <1>4, <1>5, Processes DEF SharedTrue, Roles, OthersRun
<1>10. CASE item[p][k] = NoItem
  <2>1. Accept(p, k)
    BY <1>0, <1>10 DEF Resubmit
  <2>2. /\ rows' = rows \cup {k} /\ Due' = Due \cup {k}
        /\ item'[p][k] = Working /\ \A j \in Keys \ {k} : item'[p][j] = item[p][j]
        /\ OthersKeep(p)
    BY <1>6, <2>1, AcceptTables DEF Due
  <2>3. item'[App] = item[App] /\ item'[p][k].at = "work"
    BY <1>2, <2>2, Processes DEF OthersKeep, Working
  <2>4. OperatorLetters'
    BY <1>1, <1>2, <1>3, <2>2, <2>3 DEF SharedTrue, OperatorLetters
  <2>5. Held(k)'
    BY <1>7 DEF Held
  <2>6. ASSUME NEW j \in Due' \ {k}
        PROVE  Held(j)'
    <3>1. Held(j) /\ j \in Keys \ {k}
      BY <2>2, <2>6 DEF SharedTrue, TypeOK, Due
    <3>2. HasLetter(j)' <=> HasLetter(j)
      BY <1>1 DEF HasLetter
    <3>3. QED
      BY <1>3, <1>7, <1>8, <2>2, <2>3, <3>1, <3>2 DEF Held, AppWorks
  <2>7. QED
    BY <1>9, <2>4, <2>5, <2>6 DEF SharedTrue
<1>11. CASE item[p][k] # NoItem
  <2>1. rows' = rows /\ item' = item /\ Due' = Due
    BY <1>0, <1>11 DEF Resubmit, history, Due
  <2>2. QED
    BY <1>1, <1>7, <1>8, <1>9, <2>1, HeldSame
<1>12. QED
  BY <1>10, <1>11

LEMMA SharedStep ==
    ASSUME TypeOK, Shapes, IdsTrue, SharedTrue, OneCommand, OneCommand', [Next]_vars
    PROVE  SharedTrue'
<1>1. "error" \notin faults /\ "crash" \notin faults
  BY DEF OneCommand
<1>2. \A p \in Procs : ~ReplayRaises(p) /\ ~Crash(p)
  BY <1>1 DEF ReplayRaises, Crash
<1>3. ~Purge
  <2>1. used.purges = 0 /\ used'.purges = 0
    BY DEF OneCommand
  <2>2. ASSUME Purge
        PROVE  used'.purges = used.purges + 1
    BY <2>2 DEF Purge, TypeOK
  <2>3. QED
    BY <2>1, <2>2
<1>4. ASSUME UNCHANGED vars
      PROVE  SharedTrue'
  <2>1. /\ letters' = letters /\ rows' = rows /\ Due' = Due /\ item' = item /\ proc' = proc
    BY <1>4 DEF vars, tables, history, Due
  <2>2. Roles' /\ \A k : InReplay(k)' <=> InReplay(k)
    BY <2>1, ReplaySame DEF SharedTrue, Roles
  <2>3. QED
    BY <2>1, <2>2, HeldSame
<1>5. QED
  BY <1>2, <1>3, <1>4, LaunchShared, SubmitShared, SucceedShared, PushShared, DeleteShared,
     LeaveShared, AbandonShared, ExitShared, ListShared, RemoveShared, ResubmitShared,
     Zenon DEF Next, Work

-----------------------------------------------------------------------------
(* The theorems *)

LEMMA InitHolds ==
    ASSUME Init
    PROVE  IInv
<1>1. /\ \A p \in Procs : proc[p] = Off /\ \A k \in Keys : item[p][k] = NoItem
      /\ letters = {} /\ rows = {} /\ lastId = 0 /\ owed = {} /\ dropped = {}
  BY DEF Init
<1>2. TypeOK
  <2>1. proc \in [Procs -> ProcRecord] /\ item \in [Procs -> [Keys -> ItemRecord]]
    BY OffType, ItemTypes DEF Init
  <2>2. used \in [launches : Nat, submits : 0..MaxSubmits, purges : 0..MaxPurges]
    BY ReplayAssumption DEF Init, ReplayAssumption
  <2>3. Tables
    BY <1>1, <2>2 DEF Init, Tables
  <2>4. QED
    BY <2>1, <2>3, TypeParts
<1>3. \A p \in Procs : /\ proc[p].pc = "off" /\ proc[p].list = <<>> /\ proc[p].pos = 1
                       /\ proc[p].exit = "none"
  BY <1>1 DEF Off
<1>4. Shapes
  BY <1>1, <1>3 DEF Shapes, ProcShape, ItemShape, Replaying
<1>5. IdsTrue
  BY <1>1, <1>3, FS_EmptySet DEF IdsTrue, ListTrue
<1>6. AloneTrue
  <2>1. \A p \in Procs, k \in Keys : item[p][k].at = "none"
    BY <1>1 DEF NoItem
  <2>2. \A p \in Procs : ItemsTrue(p) /\ ListedTrue(p) /\ Counted(p) /\ Results(p)
    BY <1>3, <2>1 DEF ItemsTrue, ListedTrue, Counted, Results, Replaying
  <2>3. QED
    BY <1>1, <1>3, <2>2 DEF AloneTrue, Solo
<1>7. SharedTrue
  <2>1. App \in Procs /\ \A o \in Operators : o \in Procs
    BY Processes
  <2>2. Roles
    BY <1>3, <2>1 DEF Roles
  <2>3. OperatorLetters
    BY <1>1, <2>1 DEF OperatorLetters, NoItem
  <2>4. QED
    BY <1>1, <2>2, <2>3 DEF SharedTrue, Due
<1>8. QED
  BY <1>2, <1>4, <1>5, <1>6, <1>7 DEF IInv

(* The invariant above holds in every state, whichever processes run side  *)
(* by side, crash, fail or purge.                                          *)
THEOREM Invariance == Spec => []IInv
<1>1. Init => IInv
  BY InitHolds
<1>2. IInv /\ [Next]_vars => IInv'
  <2> SUFFICES ASSUME IInv, [Next]_vars
               PROVE  IInv'
    OBVIOUS
  <2>1. TypeOK' /\ Shapes' /\ IdsTrue'
    BY TypeStep, ShapesStep, IdsStep DEF IInv
  <2>2. faults' = faults
    <3>1. CASE UNCHANGED vars \/ Purge
      BY <3>1 DEF vars, Purge
    <3>2. ASSUME NEW p \in Procs, Work(p)
          PROVE  faults' = faults
      BY <3>2 DEF Work, Succeed, PushDeadLetter, DeleteInflight, Abandon, Exit, List,
                  RemoveLetter, Resubmit
    <3>3. ASSUME NEW p \in Procs, Leave(p) \/ ReplayRaises(p) \/ Crash(p)
          PROVE  faults' = faults
      BY <3>3 DEF Leave, ReplayRaises, Crash
    <3>4. ASSUME NEW p \in Procs,
                 \/ \E cmd \in Commands : Launch(p, cmd)
                 \/ \E k \in Keys : Submit(p, k)
          PROVE  faults' = faults
      BY <3>4 DEF Launch, Submit
    <3>5. QED
      BY <3>1, <3>2, <3>3, <3>4 DEF Next
  <2>3. "shared" \notin faults => AloneTrue'
    BY <2>1, AloneStep DEF IInv
  <2>4. OneCommand' => OneCommand
    <3>1. used.purges # 0 => used'.purges # 0
      <4>1. used.purges \in Nat
        BY DEF IInv, TypeOK
      <4>2. used'.purges \in {used.purges, used.purges + 1}
        <5>1. CASE Purge
          BY <5>1 DEF Purge, IInv, TypeOK
        <5>2. ASSUME NEW p \in Procs, NEW cmd \in Commands, Launch(p, cmd)
              PROVE  used'.purges = used.purges
          BY <5>2 DEF Launch, IInv, TypeOK
        <5>3. ASSUME NEW p \in Procs, NEW k \in Keys, Submit(p, k)
              PROVE  used'.purges = used.purges
          BY <5>3 DEF Submit, IInv, TypeOK
        <5>4. ASSUME NEW p \in Procs, Work(p)
              PROVE  used' = used
          BY <5>4 DEF Work, Succeed, PushDeadLetter, DeleteInflight, Abandon, Exit, List,
                      RemoveLetter, Resubmit
        <5>5. ASSUME NEW p \in Procs, Leave(p) \/ ReplayRaises(p) \/ Crash(p)
              PROVE  used' = used
          BY <5>5 DEF Leave, ReplayRaises, Crash
        <5>6. CASE UNCHANGED vars
          BY <5>6 DEF vars
        <5>7. QED
          BY <5>1, <5>2, <5>3, <5>4, <5>5, <5>6 DEF Next
      <4>3. QED
        BY <4>1, <4>2
    <3>2. QED
      BY <2>2, <3>1 DEF OneCommand
  <2>5. OneCommand' => SharedTrue'
    BY <2>4, SharedStep DEF IInv
  <2>6. QED
    BY <2>1, <2>2, <2>3, <2>5 DEF IInv
<1>3. QED
  BY <1>1, <1>2, PTL DEF Spec

(* The tables, the processes and their items are what they are declared to *)
(* be, and no two letters have the same id.                                *)
THEOREM TypeCorrect == Spec => []TypeOK
<1>1. IInv => TypeOK
  BY DEF IInv
<1>2. QED
  BY <1>1, Invariance, PTL

(* Whatever is purged, replayed and dead-lettered beside it, and by however *)
(* many processes, the ids in a replay's snapshot never come to name        *)
(* another request: remove_dead_letter() deletes no letter but the one that *)
(* is resubmitted next.                                                     *)
THEOREM SnapshotIdsStayTrueHolds == Spec => []SnapshotIdsStayTrue
<1>1. IInv => SnapshotIdsStayTrue
  <2> SUFFICES ASSUME IInv, NEW p \in Procs, NEW i \in proc[p].pos..Len(proc[p].list),
                      NEW l \in letters, l.id = proc[p].list[i].id
               PROVE  l = proc[p].list[i]
    BY DEF SnapshotIdsStayTrue
  <2>1. proc[p].list \in Seq(Letter) /\ proc[p].pos \in Nat \ {0}
    BY TypeFacts DEF IInv, Shapes, ProcShape, ProcRecord
  <2>2. i \in DOMAIN proc[p].list
    BY <2>1
  <2>3. QED
    BY <2>2, ListFacts DEF IInv
<1>2. QED
  BY <1>1, Invariance, PTL

(* With one process at a time, accepted work leaves the tables only in      *)
(* replay_entry()'s window between remove_dead_letter() and the upsert,     *)
(* however many processes crash and operations fail.                        *)
THEOREM OnlyReplayDropsHolds == Spec => []OnlyReplayDrops
<1>1. IInv => OnlyReplayDrops
  BY DEF IInv, AloneTrue, Kept, OnlyReplayDrops
<1>2. QED
  BY <1>1, Invariance, PTL

(* A replay that runs alone leaves no more letters of a request than it     *)
(* found, the recovered rows counted with them.                             *)
THEOREM ReplayAddsNoDuplicatesHolds == Spec => []ReplayAddsNoDuplicates
<1>1. IInv => ReplayAddsNoDuplicates
  <2> SUFFICES ASSUME IInv, "shared" \notin faults, NEW p \in Procs, NEW k \in Keys,
                      proc[p].list # <<>>
               PROVE  Copies(k) + (IF InWindow(p, k) THEN 1 ELSE 0) <= proc[p].base[k]
    BY DEF ReplayAddsNoDuplicates
  <2>1. Copies(k) + InHand(p, k) + AtWork(p, k) <= proc[p].base[k]
    BY DEF IInv, AloneTrue, Counted
  <2>2. /\ Copies(k) \in Nat /\ InHand(p, k) \in {0, 1} /\ AtWork(p, k) \in {0, 1}
        /\ proc[p].base[k] \in Nat
    BY CountTypes DEF IInv
  <2>3. Copies(k) + InHand(p, k) <= proc[p].base[k]
    BY <2>1, <2>2
  <2>4. QED
    BY <2>3 DEF InHand
<1>2. QED
  BY <1>1, Invariance, PTL

(* Alone, the exit code of `dlq replay' is true: 0 means that nothing of    *)
(* the snapshot is owed any more, 2, and 1 for an id that is there, that a  *)
(* letter of one of its requests is there again.                            *)
THEOREM ExitCodeIsTrueHolds == Spec => []ExitCodeIsTrue
<1>1. IInv => ExitCodeIsTrue
  <2> SUFFICES ASSUME IInv, "shared" \notin faults, NEW p \in Procs
               PROVE  LET listed == {proc[p].list[i].key : i \in DOMAIN proc[p].list}
                      IN  /\ proc[p].exit = "0" => listed \cap owed = {}
                          /\ proc[p].exit \in {"1", "2"} /\ listed # {} =>
                                \E k \in listed : HasLetter(k)
    BY DEF ExitCodeIsTrue
  <2> DEFINE listed == {proc[p].list[i].key : i \in DOMAIN proc[p].list}
  <2>1. /\ proc[p].exit = "0" => \A i \in DOMAIN proc[p].list : proc[p].list[i].key \notin owed
        /\ proc[p].exit \in {"1", "2"} /\ proc[p].list # <<>> => SomeFailed(p)
    BY DEF IInv, AloneTrue, Results
  <2>2. proc[p].list = <<>> => listed = {}
    OBVIOUS
  <2>3. SomeFailed(p) => \E k \in listed : HasLetter(k)
    BY DEF SomeFailed, HasLetter
  <2>4. proc[p].exit = "0" => listed \cap owed = {}
    BY <2>1
  <2> HIDE DEF listed
  <2>5. proc[p].exit \in {"1", "2"} /\ listed # {} => \E k \in listed : HasLetter(k)
    BY <2>1, <2>2, <2>3
  <2>6. QED
    BY <2>4, <2>5 DEF listed
<1>2. QED
  BY <1>1, Invariance, PTL

(* Beside an application that does not stop, any number of commands one     *)
(* after another lose nothing but what a replay answers with the response   *)
(* of an older exchange: what is owed is in a table, at work in the         *)
(* application, or in the hands of the replay, although both delete each    *)
(* other's rows and letters.                                                *)
THEOREM SharedWorkIsHeldHolds == Spec => []SharedWorkIsHeld
<1>1. IInv => SharedWorkIsHeld
  <2> SUFFICES ASSUME IInv, OneCommand, NEW k \in Due
               PROVE  \/ k \in rows \/ HasLetter(k) \/ item[App][k] = Working
                      \/ \E o \in Operators : InWindow(o, k) \/ Awaits(o, k)
    BY DEF SharedWorkIsHeld, OneCommand, Due
  <2>1. k \in rows \/ HasLetter(k) \/ InReplay(k) \/ AppWorks(k)
    BY DEF IInv, SharedTrue, Held
  <2>2. ASSUME AppWorks(k)
        PROVE  item[App][k] = Working
    <3>1. App \in Procs /\ k \in Keys
      BY Processes DEF IInv, TypeOK, Due
    <3>2. \A n : Dead(n).at # "work"
      BY DEF Dead
    <3>3. NoItem.at # "work" /\ Done.at # "work"
      BY DEF NoItem, Done
    <3>4. QED
      BY <2>2, <3>1, <3>2, <3>3 DEF IInv, Shapes, ItemShape, AppWorks
  <2>3. QED
    BY <2>1, <2>2 DEF InReplay
<1>2. QED
  BY <1>1, Invariance, PTL

=============================================================================
