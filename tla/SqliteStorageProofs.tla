------------------------- MODULE SqliteStorageProofs -------------------------
(***************************************************************************)
(* Proofs about SqliteStorage, for any number of tasks, connections and    *)
(* calls: the lock and the two awaits never let two operations into one    *)
(* transaction unless the first was abandoned, and so the storage          *)
(* implements AtomicStore.                                                 *)
(***************************************************************************)
EXTENDS SqliteStorage, SequenceTheorems, NaturalsInduction, WellFoundedInduction, TLAPS

-----------------------------------------------------------------------------
(* The tables *)

(* A nonempty set of natural numbers has a least element. *)
LEMMA LeastNumber ==
    ASSUME NEW N, N \subseteq Nat, N # {}
    PROVE  \E n \in N : \A m \in N : n <= m
<1>1. IsWellFoundedOn(OpToRel(<, Nat), Nat)
  BY NatLessThanWellFounded
<1>2. PICK n \in N : \A m \in N : ~(<<m, n>> \in OpToRel(<, Nat))
  BY <1>1, WFMin
<1>3. \A m \in N : ~(m < n)
  BY <1>2 DEF OpToRel
<1>4. QED
  BY <1>3

(* One statement keeps the tables' types. *)
LEMMA ApplyType ==
    ASSUME NEW s \in Tables, NEW o \in Operations
    PROVE  Abstract!Apply(s, o) \in Tables
<1>1. o.op \in AllOps /\ (o.op # "remove" => o.key \in Keys)
  BY StorageAssumption DEF Operations
<1>2. /\ s.rows \in [Keys -> Int] /\ s.last \in Nat
      /\ s.letters \subseteq [id : Nat, key : Keys]
  BY DEF Tables
<1>3. ASSUME o.key \in Keys
      PROVE  Abstract!upsert_inflight(s, o.key) \in Tables
  BY <1>3 DEF Tables, Abstract!upsert_inflight
<1>4. ASSUME o.key \in Keys
      PROVE  Abstract!increment_retry(s, o.key) \in Tables
  BY <1>4 DEF Tables, Abstract!increment_retry
<1>5. ASSUME o.key \in Keys
      PROVE  Abstract!delete_inflight(s, o.key) \in Tables
  BY <1>5 DEF Tables, Abstract!delete_inflight, Abstract!NoRow
<1>6. ASSUME o.key \in Keys
      PROVE  Abstract!push_dead_letter(s, o.key) \in Tables
  <2>1. [id |-> s.last + 1, key |-> o.key] \in [id : Nat, key : Keys] /\ s.last + 1 \in Nat
    BY <1>2, <1>6
  <2>2. QED
    BY <1>2, <2>1 DEF Tables, Abstract!push_dead_letter
<1>7. Abstract!remove_dead_letter(s, o.id) \in Tables
  BY <1>2 DEF Tables, Abstract!remove_dead_letter
<1>8. Abstract!purge_dead_letter(s) \in Tables
  BY DEF Tables, Abstract!purge_dead_letter
<1>9. QED
  BY <1>1, <1>3, <1>4, <1>5, <1>6, <1>7, <1>8 DEF AllOps, Abstract!Apply

(* So does a transaction, however many statements it has. *)
LEMMA ApplyAllType ==
    ASSUME NEW s \in Tables, NEW ops \in Seq(Operations)
    PROVE  Abstract!ApplyAll(s, ops) \in Tables
<1> DEFINE Step(f, i) == IF i = 0 THEN s ELSE Abstract!Apply(f[i - 1], ops[i])
           Upto(f, n) == f = [i \in 0..n |-> Step(f, i)]
           Undefined == {n \in 0..Len(ops) : ~ \E f : Upto(f, n)}
           after == CHOOSE f : Upto(f, Len(ops))
           Bad == {n \in 0..Len(ops) : after[n] \notin Tables}
<1>0. Len(ops) \in Nat /\ \A i \in 1..Len(ops) : ops[i] \in Operations
  OBVIOUS
<1>1. Abstract!ApplyAll(s, ops) = after[Len(ops)]
  BY DEF Abstract!ApplyAll
<1>2. Undefined = {}
  <2> SUFFICES ASSUME Undefined # {} PROVE FALSE
    OBVIOUS
  <2>1. PICK n \in Undefined : \A m \in Undefined : n <= m
    <3>1. Undefined \subseteq Nat
      BY <1>0
    <3>2. QED
      BY <3>1, LeastNumber
  <2>2. n # 0
    <3>1. Upto([i \in 0..0 |-> s], 0)
      OBVIOUS
    <3>2. QED
      BY <3>1
  <2>3. n \in Nat /\ n - 1 \in 0..Len(ops) /\ n - 1 \notin Undefined
    BY <1>0, <2>1, <2>2
  <2>4. PICK f : Upto(f, n - 1)
    BY <2>3
  <2> DEFINE g == [i \in 0..n |-> IF i = n THEN Abstract!Apply(f[n - 1], ops[n]) ELSE f[i]]
  <2>5. \A i \in 0..n - 1 : f[i] = Step(f, i) /\ g[i] = f[i]
    BY <2>3, <2>4
  <2>6. \A i \in 0..n : g[i] = Step(g, i)
    <3> SUFFICES ASSUME NEW i \in 0..n PROVE g[i] = Step(g, i)
      OBVIOUS
    <3>1. CASE i = n
      <4>1. g[n - 1] = f[n - 1]
        BY <2>2, <2>3, <2>5
      <4>2. QED
        BY <2>2, <2>3, <3>1, <4>1
    <3>2. CASE i # n
      <4>1. i = 0 \/ i - 1 \in 0..n - 1
        BY <2>3, <3>2
      <4>2. i \in 0..n - 1
        BY <2>3, <3>2
      <4>3. g[i] = Step(f, i)
        BY <2>5, <4>2
      <4>4. i = 0 \/ g[i - 1] = f[i - 1]
        BY <2>5, <4>1
      <4>5. QED
        BY <4>3, <4>4
    <3>3. QED
      BY <3>1, <3>2
  <2>7. Upto(g, n)
    BY <2>6
  <2>8. QED
    BY <2>1, <2>7
<1>3. Upto(after, Len(ops))
  <2>1. \E f : Upto(f, Len(ops))
    BY <1>0, <1>2
  <2>2. QED
    BY <2>1
<1>4. \A i \in 0..Len(ops) : after[i] = Step(after, i)
  BY <1>3
<1>5. Bad = {}
  <2> HIDE DEF after
  <2> SUFFICES ASSUME Bad # {} PROVE FALSE
    OBVIOUS
  <2>1. PICK n \in Bad : \A m \in Bad : n <= m
    <3>1. Bad \subseteq Nat
      BY <1>0
    <3>2. QED
      BY <3>1, LeastNumber
  <2>2. n # 0
    BY <1>0, <1>4, <2>1
  <2>3. n - 1 \in 0..Len(ops) /\ after[n - 1] \in Tables /\ n \in 1..Len(ops)
    BY <1>0, <2>1, <2>2
  <2>4. after[n] = Abstract!Apply(after[n - 1], ops[n])
    BY <1>4, <2>2, <2>3
  <2>5. QED
    BY <1>0, <2>1, <2>3, <2>4, ApplyType
<1>6. QED
  BY <1>0, <1>1, <1>5

-----------------------------------------------------------------------------
(* The inductive invariant *)

IInv == Typed /\ Queues /\ OneTransaction /\ (Committing # {} => txn # <<>>)

(* What a task that is not idle is doing. *)
LEMMA TaskFacts ==
    ASSUME Typed, NEW t \in Tasks
    PROVE  /\ task[t] = Idle \/ task[t] \in [pc : {"execute", "commit", "select"}, o : Operations]
           /\ task[t].pc \in {"idle", "execute", "commit", "select"}
           /\ task[t].pc = "idle" <=> task[t] = Idle
           /\ task[t].pc # "idle" => task[t].o \in Operations
           /\ ConnOf[t] \in Conns
  BY StorageAssumption DEF Typed, Idle

(* The queue without its p-th element. *)
LEMMA RemoveAtFacts ==
    ASSUME NEW S, NEW s \in Seq(S), NEW p \in 1..Len(s)
    PROVE  /\ RemoveAt(s, p) \in Seq(S)
           /\ Len(RemoveAt(s, p)) = Len(s) - 1
           /\ \A i \in 1..Len(s) - 1 : RemoveAt(s, p)[i] = IF i < p THEN s[i] ELSE s[i + 1]
<1> DEFINE a == SubSeq(s, 1, p - 1)
           b == SubSeq(s, p + 1, Len(s))
<1>1. Len(s) \in Nat /\ p \in Nat
  OBVIOUS
<1>2. a \in Seq(S) /\ Len(a) = p - 1 /\ \A i \in 1..p - 1 : a[i] = s[i]
  OBVIOUS
<1>3. b \in Seq(S) /\ Len(b) = Len(s) - p /\ \A i \in 1..Len(s) - p : b[i] = s[p + i]
  <2>1. \A i \in p + 1..Len(s) : s[i] \in S
    BY <1>1
  <2>2. /\ b \in Seq(S)
        /\ Len(b) = IF p + 1 <= Len(s) THEN Len(s) - (p + 1) + 1 ELSE 0
        /\ \A i \in 1..Len(s) - (p + 1) + 1 : b[i] = s[p + 1 + i - 1]
    BY <1>1, <2>1, SubSeqProperties
  <2> HIDE DEF b
  <2>3. \A i \in 1..Len(s) - p : i \in 1..Len(s) - (p + 1) + 1 /\ p + 1 + i - 1 = p + i
    BY <1>1
  <2>4. QED
    BY <1>1, <2>2, <2>3
<1> HIDE DEF a, b
<1>4. /\ a \o b \in Seq(S) /\ Len(a \o b) = Len(s) - 1
      /\ \A i \in 1..Len(s) - 1 : (a \o b)[i] = IF i < p THEN a[i] ELSE b[i - (p - 1)]
  <2>1. /\ a \o b \in Seq(S) /\ Len(a \o b) = Len(a) + Len(b)
        /\ \A i \in 1..Len(a) + Len(b) : (a \o b)[i] = IF i <= Len(a) THEN a[i] ELSE b[i - Len(a)]
    BY <1>2, <1>3, ConcatProperties
  <2>2. Len(a) + Len(b) = Len(s) - 1
    BY <1>1, <1>2, <1>3
  <2>3. \A i \in 1..Len(s) - 1 : i <= Len(a) <=> i < p
    BY <1>1, <1>2
  <2>4. QED
    BY <1>2, <2>1, <2>2, <2>3
<1>5. \A i \in 1..Len(s) - 1 : (a \o b)[i] = IF i < p THEN s[i] ELSE s[i + 1]
  <2> SUFFICES ASSUME NEW i \in 1..Len(s) - 1
               PROVE  (a \o b)[i] = IF i < p THEN s[i] ELSE s[i + 1]
    OBVIOUS
  <2>1. CASE i < p
    BY <1>1, <1>2, <1>4, <2>1
  <2>2. CASE ~(i < p)
    <3>1. i - (p - 1) \in 1..Len(s) - p /\ p + (i - (p - 1)) = i + 1
      BY <1>1, <2>2
    <3>2. QED
      BY <1>3, <1>4, <2>2, <3>1
  <2>3. QED
    BY <2>1, <2>2
<1>6. RemoveAt(s, p) = a \o b
  BY DEF RemoveAt, a, b
<1>7. QED
  BY <1>4, <1>5, <1>6

(* A task that stops writing leaves the queue of its lock; the others stay *)
(* in it, each once, and the holder remains the holder.                    *)
LEMMA LeaveQueue ==
    ASSUME Typed, Queues, NEW t \in Tasks, Writing(t),
           lock' = Release(t),
           ~Writing(t)', \A u \in Tasks \ {t} : task'[u] = task[u]
    PROVE  /\ lock' \in [Conns -> Seq(Tasks)]
           /\ Queues'
           /\ \A u \in Tasks \ {t} : Holds(u) => Holds(u)'
<1> DEFINE c == ConnOf[t]
           q == lock[c]
           p == Place(t)
<1>1. c \in Conns /\ lock \in [Conns -> Seq(Tasks)] /\ q \in Seq(Tasks) /\ Len(q) \in Nat
  BY StorageAssumption DEF Typed
<1>2. p \in 1..Len(q) /\ q[p] = t
  <2>1. \E i \in DOMAIN q : q[i] = t
    BY DEF Queues
  <2>2. QED
    BY <1>1, <2>1 DEF Place
<1>3. lock' = [lock EXCEPT ![c] = RemoveAt(q, p)]
  BY DEF Release
<1> HIDE DEF p
<1>4. /\ RemoveAt(q, p) \in Seq(Tasks)
      /\ Len(RemoveAt(q, p)) = Len(q) - 1
      /\ \A i \in 1..Len(q) - 1 : RemoveAt(q, p)[i] = IF i < p THEN q[i] ELSE q[i + 1]
  BY <1>1, <1>2, RemoveAtFacts
<1>5. lock' \in [Conns -> Seq(Tasks)]
  BY <1>1, <1>3, <1>4
<1>6. lock'[c] = RemoveAt(q, p) /\ \A d \in Conns \ {c} : lock'[d] = lock[d]
  BY <1>1, <1>3
<1>7. \A i, j \in DOMAIN q : q[i] = q[j] => i = j
  BY <1>1 DEF Queues
<1>8. DOMAIN lock'[c] = 1..Len(q) - 1
  BY <1>4, <1>5, <1>6
<1>9. \A i \in DOMAIN lock'[c] :
        LET j == IF i < p THEN i ELSE i + 1
        IN  j \in DOMAIN q /\ j # p /\ lock'[c][i] = q[j]
  <2>1. Len(q) \in Nat /\ DOMAIN q = 1..Len(q) /\ p \in 1..Len(q)
    BY <1>1, <1>2
  <2>2. ASSUME NEW i \in 1..Len(q) - 1
        PROVE  LET j == IF i < p THEN i ELSE i + 1
               IN  j \in DOMAIN q /\ j # p /\ lock'[c][i] = q[j]
    <3>1. lock'[c][i] = IF i < p THEN q[i] ELSE q[i + 1]
      BY <1>4, <1>6
    <3>2. CASE i < p
      BY <2>1, <3>1, <3>2
    <3>3. CASE ~(i < p)
      BY <2>1, <3>1, <3>3
    <3>4. QED
      BY <3>2, <3>3
  <2>3. QED
    BY <1>8, <2>2
<1>10. \A i, j \in DOMAIN lock'[c] : lock'[c][i] = lock'[c][j] => i = j
  <2>1. SUFFICES ASSUME NEW i \in DOMAIN lock'[c], NEW j \in DOMAIN lock'[c],
                        lock'[c][i] = lock'[c][j]
                 PROVE  i = j
    OBVIOUS
  <2>2. (IF i < p THEN i ELSE i + 1) = (IF j < p THEN j ELSE j + 1)
    BY <1>7, <1>9, <2>1
  <2>3. i \in Int /\ j \in Int /\ p \in Int
    BY <1>1, <1>2, <1>8
  <2>4. QED
    BY <2>2, <2>3
<1>11. \A i \in DOMAIN lock'[c] :
         lock'[c][i] # t /\ lock'[c][i] \in Tasks
           /\ ConnOf[lock'[c][i]] = c /\ Writing(lock'[c][i])
  BY <1>1, <1>2, <1>7, <1>9 DEF Queues
<1>12. \A d \in Conns \ {c} : \A i \in DOMAIN lock[d] :
         lock[d][i] # t /\ lock[d][i] \in Tasks
  BY <1>1 DEF Queues
<1>13. ASSUME NEW u \in Tasks \ {t}, Writing(u)
       PROVE  \E i \in DOMAIN lock'[ConnOf[u]] : lock'[ConnOf[u]][i] = u
  <2>1. PICK j \in DOMAIN lock[ConnOf[u]] : lock[ConnOf[u]][j] = u
    BY <1>13 DEF Queues
  <2>2. CASE ConnOf[u] = c
    <3>1. j \in 1..Len(q) /\ q[j] = u /\ j # p
      BY <1>1, <1>2, <2>1, <2>2
    <3>2. CASE j < p
      <4>1. j \in 1..Len(q) - 1 /\ lock'[c][j] = u
        BY <1>1, <1>2, <1>4, <1>6, <3>1, <3>2
      <4>2. QED
        BY <1>8, <2>2, <4>1
    <3>3. CASE j > p
      <4>1. j - 1 \in 1..Len(q) - 1 /\ ~(j - 1 < p) /\ (j - 1) + 1 = j
        BY <1>1, <1>2, <3>1, <3>3
      <4>2. lock'[c][j - 1] = u
        BY <1>4, <1>6, <3>1, <4>1
      <4>3. QED
        BY <1>8, <2>2, <4>1, <4>2
    <3>4. QED
      BY <1>1, <1>2, <3>1, <3>2, <3>3
  <2>3. CASE ConnOf[u] # c
    BY <1>6, <2>1, <2>3, StorageAssumption
  <2>4. QED
    BY <2>2, <2>3
<1>14. Queues'
  <2>1. \A d \in Conns : \A i, j \in DOMAIN lock'[d] : lock'[d][i] = lock'[d][j] => i = j
    BY <1>6, <1>10 DEF Queues
  <2>2. \A d \in Conns : \A i \in DOMAIN lock'[d] :
          ConnOf[lock'[d][i]] = d /\ task'[lock'[d][i]].pc \in {"execute", "commit"}
    BY <1>6, <1>11, <1>12 DEF Queues, Writing
  <2>3. \A u \in Tasks : Writing(u)' =>
          \E i \in DOMAIN lock'[ConnOf[u]] : lock'[ConnOf[u]][i] = u
    BY <1>13 DEF Writing
  <2>4. QED
    BY <2>1, <2>2, <2>3 DEF Queues, Writing
<1>15. ASSUME NEW u \in Tasks \ {t}, Holds(u)
       PROVE  Holds(u)'
  <2>1. CASE ConnOf[u] = c
    <3>1. q # <<>> /\ q[1] = u /\ p # 1
      BY <1>1, <1>2, <1>15, <2>1 DEF Holds
    <3>2. 1 \in 1..Len(q) - 1 /\ RemoveAt(q, p)[1] = u
      BY <1>1, <1>2, <1>4, <3>1
    <3>3. QED
      BY <1>4, <1>6, <2>1, <3>2 DEF Holds
  <2>2. CASE ConnOf[u] # c
    BY <1>6, <1>15, <2>2, StorageAssumption DEF Holds
  <2>3. QED
    BY <2>1, <2>2
<1>16. QED
  BY <1>5, <1>14, <1>15

(* A task that may execute finds nobody who awaits commit(): SQLite's lock *)
(* keeps the other processes out, the asyncio lock those of its own.       *)
LEMMA NobodyCommits ==
    ASSUME IInv, NEW t \in Tasks, Holds(t), task[t].pc = "execute", Unlocked(t)
    PROVE  Committing = {}
<1> SUFFICES ASSUME NEW u \in Committing PROVE FALSE
  OBVIOUS
<1>1. u \in Tasks /\ task[u].pc = "commit" /\ Holds(u) /\ writer = ConnOf[u]
  BY DEF IInv, OneTransaction, Committing
<1>2. ConnOf[u] \in Conns /\ ConnOf[t] = ConnOf[u]
  BY <1>1, StorageAssumption DEF Unlocked
<1>3. QED
  BY <1>1, <1>2 DEF Holds

(* An operation that ends, however it ends, keeps the invariant, if it     *)
(* leaves the transaction alone or was the only one in it.                 *)
LEMMA LeavePreserves ==
    ASSUME IInv, NEW t \in Tasks, Writing(t),
           lock' = Release(t),
           \/ task' = [task EXCEPT ![t] = Idle]
           \/ task' = [task EXCEPT ![t].pc = "select"],
           Committing \subseteq {t} \/ UNCHANGED <<txn, writer>>,
           durable' \in Tables, txn' \in Seq(Operations), calls' \in 0..MaxCalls,
           writer' \in Conns \cup {NoConn}, writer' = NoConn => txn' = <<>>
    PROVE  IInv'
<1>1. Typed /\ Queues /\ OneTransaction
  BY DEF IInv
<1>2. task[t] \in [pc : {"execute", "commit", "select"}, o : Operations]
  BY <1>1, TaskFacts DEF Writing, Idle
<1>3. /\ task' \in [Tasks -> {Idle} \cup [pc : {"execute", "commit", "select"}, o : Operations]]
      /\ ~Writing(t)' /\ \A u \in Tasks \ {t} : task'[u] = task[u]
  <2> DEFINE next == IF task' = [task EXCEPT ![t] = Idle] THEN Idle
                     ELSE [pc |-> "select", o |-> task[t].o]
  <2>1. task' = [task EXCEPT ![t] = next]
    BY <1>1, <1>2 DEF Typed
  <2>2. next \in {Idle} \cup [pc : {"execute", "commit", "select"}, o : Operations]
        /\ next.pc \notin {"execute", "commit"}
    BY <1>2 DEF Idle
  <2> HIDE DEF next
  <2>3. QED
    BY <1>1, <2>1, <2>2 DEF Typed, Writing
<1>4. lock' \in [Conns -> Seq(Tasks)] /\ Queues' /\ \A u \in Tasks \ {t} : Holds(u) => Holds(u)'
  BY <1>1, <1>3, LeaveQueue
<1>5. Typed'
  BY <1>3, <1>4 DEF Typed
<1>6. Committing' = Committing \ {t}
  BY <1>3 DEF Committing, Writing
<1>7. CASE Committing \subseteq {t}
  BY <1>4, <1>5, <1>6, <1>7 DEF IInv, OneTransaction
<1>8. CASE UNCHANGED <<txn, writer>>
  <2>1. \A u, v \in Committing' : u = v
    BY <1>1, <1>6 DEF OneTransaction
  <2>2. \A u \in Committing' : Holds(u)'
    BY <1>1, <1>4, <1>6 DEF OneTransaction, Committing
  <2>3. \A u \in Committing' : writer' = ConnOf[u] /\ Last(txn') = task'[u].o
    BY <1>1, <1>3, <1>6, <1>8 DEF OneTransaction, Committing
  <2>4. Committing' # {} => txn' # <<>>
    BY <1>6, <1>8 DEF IInv
  <2>5. QED
    BY <1>4, <1>5, <2>1, <2>2, <2>3, <2>4 DEF IInv, OneTransaction
<1>9. QED
  BY <1>7, <1>8

(* A call goes to the end of its queue. *)
LEMMA CallPreserves ==
    ASSUME IInv, NEW t \in Tasks, NEW o \in Operations, Call(t, o)
    PROVE  IInv'
<1> DEFINE c == ConnOf[t]
<1>1. Typed /\ Queues /\ OneTransaction
  BY DEF IInv
<1>2. c \in Conns /\ lock[c] \in Seq(Tasks) /\ Len(lock[c]) \in Nat
  BY <1>1, StorageAssumption DEF Typed
<1>3. lock' = [lock EXCEPT ![c] = Append(lock[c], t)]
  BY DEF Call
<1>4. lock' \in [Conns -> Seq(Tasks)] /\ lock'[c] = Append(lock[c], t)
      /\ \A d \in Conns \ {c} : lock'[d] = lock[d]
  BY <1>1, <1>2, <1>3 DEF Typed
<1>5. /\ Len(lock'[c]) = Len(lock[c]) + 1 /\ lock'[c][Len(lock[c]) + 1] = t
      /\ \A i \in 1..Len(lock[c]) : lock'[c][i] = lock[c][i]
  BY <1>2, <1>4
<1>6. task' \in [Tasks -> {Idle} \cup [pc : {"execute", "commit", "select"}, o : Operations]]
      /\ task'[t] = [pc |-> "execute", o |-> o] /\ \A u \in Tasks \ {t} : task'[u] = task[u]
  BY <1>1 DEF Call, Typed
<1>7. Typed'
  <2>1. calls' \in 0..MaxCalls /\ UNCHANGED <<durable, txn, writer>>
    BY <1>1, StorageAssumption DEF Call, Typed
  <2>2. QED
    BY <1>1, <1>4, <1>6, <2>1 DEF Typed
<1>8. ~Writing(t)
  BY DEF Call, Writing, Idle
<1>9. \A d \in Conns : \A i \in DOMAIN lock[d] : lock[d][i] # t /\ lock[d][i] \in Tasks
  BY <1>1, <1>8 DEF Queues, Typed
<1>10. \A i \in DOMAIN lock'[c] :
         \/ i = Len(lock[c]) + 1 /\ lock'[c][i] = t
         \/ i \in DOMAIN lock[c] /\ i # Len(lock[c]) + 1 /\ lock'[c][i] = lock[c][i]
  <2>1. DOMAIN lock'[c] = 1..Len(lock[c]) + 1 /\ DOMAIN lock[c] = 1..Len(lock[c])
    BY <1>2, <1>4, <1>5
  <2>2. QED
    BY <1>2, <1>5, <2>1
<1>11. Queues'
  <2>1. \A d \in Conns : \A i, j \in DOMAIN lock'[d] : lock'[d][i] = lock'[d][j] => i = j
    <3>1. \A i, j \in DOMAIN lock'[c] : lock'[c][i] = lock'[c][j] => i = j
      <4>1. \A i, j \in DOMAIN lock[c] : lock[c][i] = lock[c][j] => i = j
        BY <1>1, <1>2 DEF Queues
      <4>2. \A i \in DOMAIN lock[c] : lock[c][i] # t
        BY <1>2, <1>9
      <4>3. ASSUME NEW i \in DOMAIN lock'[c], NEW j \in DOMAIN lock'[c],
                   lock'[c][i] = lock'[c][j]
            PROVE  i = j
        <5>1. CASE i = Len(lock[c]) + 1 /\ lock'[c][i] = t
          BY <1>10, <4>2, <4>3, <5>1
        <5>2. CASE i \in DOMAIN lock[c] /\ lock'[c][i] = lock[c][i]
          BY <1>10, <4>1, <4>2, <4>3, <5>2
        <5>3. QED
          BY <1>10, <5>1, <5>2
      <4>4. QED
        BY <4>3
    <3>2. QED
      BY <1>1, <1>4, <3>1 DEF Queues
  <2>2. \A d \in Conns : \A i \in DOMAIN lock'[d] :
          ConnOf[lock'[d][i]] = d /\ task'[lock'[d][i]].pc \in {"execute", "commit"}
    <3>1. \A i \in DOMAIN lock'[c] :
            ConnOf[lock'[c][i]] = c /\ task'[lock'[c][i]].pc \in {"execute", "commit"}
      BY <1>1, <1>2, <1>6, <1>9, <1>10 DEF Queues, Writing
    <3>2. \A d \in Conns \ {c} : \A i \in DOMAIN lock[d] :
            ConnOf[lock[d][i]] = d /\ task'[lock[d][i]].pc \in {"execute", "commit"}
      BY <1>1, <1>6, <1>9 DEF Queues, Writing
    <3>3. ASSUME NEW d \in Conns, d # c, NEW i \in DOMAIN lock'[d]
          PROVE  ConnOf[lock'[d][i]] = d /\ task'[lock'[d][i]].pc \in {"execute", "commit"}
      <4>1. lock'[d] = lock[d]
        BY <1>4, <3>3
      <4>2. QED
        BY <3>2, <3>3, <4>1
    <3>4. QED
      BY <3>1, <3>3
  <2>3. ASSUME NEW u \in Tasks, Writing(u)'
        PROVE  \E i \in DOMAIN lock'[ConnOf[u]] : lock'[ConnOf[u]][i] = u
    <3>1. CASE u = t
      <4>1. Len(lock[c]) + 1 \in DOMAIN lock'[c]
        BY <1>2, <1>4, <1>5
      <4>2. QED
        BY <1>5, <3>1, <4>1
    <3>2. CASE u # t
      <4>1. PICK j \in DOMAIN lock[ConnOf[u]] : lock[ConnOf[u]][j] = u
        BY <1>1, <1>6, <2>3, <3>2 DEF Queues, Writing
      <4>2. CASE ConnOf[u] = c
        <5>1. j \in DOMAIN lock'[c] /\ lock'[c][j] = u
          BY <1>2, <1>4, <1>5, <4>1, <4>2
        <5>2. QED
          BY <4>2, <5>1
      <4>3. CASE ConnOf[u] # c
        BY <1>4, <4>1, <4>3, StorageAssumption
      <4>4. QED
        BY <4>2, <4>3
    <3>3. QED
      BY <3>1, <3>2
  <2>4. QED
    BY <2>1, <2>2, <2>3 DEF Queues, Writing
<1>12. ASSUME NEW u \in Tasks, Holds(u)
       PROVE  Holds(u)'
  <2>1. CASE ConnOf[u] = c
    <3>1. 1 \in 1..Len(lock[c]) /\ lock[c][1] = u
      BY <1>2, <1>12, <2>1 DEF Holds
    <3>2. lock'[c] # <<>> /\ lock'[c][1] = u
      <4>1. lock[c] \in Seq(Tasks) /\ lock'[c] = Append(lock[c], t) /\ Len(lock[c]) \in Nat
        BY <1>2, <1>4, <1>5
      <4>2. Append(lock[c], t)[1] = lock[c][1] /\ Append(lock[c], t) # <<>>
        BY <3>1, <4>1
      <4>3. QED
        BY <3>1, <4>1, <4>2, Zenon
    <3>3. QED
      BY <1>4, <2>1, <3>2 DEF Holds
  <2>2. CASE ConnOf[u] # c
    BY <1>4, <1>12, <2>2, StorageAssumption DEF Holds
  <2>3. QED
    BY <2>1, <2>2
<1>13. Committing' = Committing /\ t \notin Committing
  BY <1>6, <1>8 DEF Committing, Writing
<1>14. OneTransaction' /\ (Committing' # {} => txn' # <<>>)
  <2>1. \A u \in Committing' : Holds(u)' /\ task'[u].o = task[u].o
    BY <1>1, <1>6, <1>12, <1>13 DEF OneTransaction, Committing
  <2>2. UNCHANGED <<txn, writer>>
    BY DEF Call
  <2>3. QED
    BY <1>1, <1>13, <2>1, <2>2 DEF OneTransaction, IInv
<1>15. QED
  BY <1>7, <1>11, <1>14 DEF IInv

(* execute() returns: the task is alone between execute() and commit(). *)
LEMMA ExecutePreserves ==
    ASSUME IInv, NEW t \in Tasks, Execute(t)
    PROVE  IInv'
<1>1. Typed /\ Queues /\ OneTransaction
  BY DEF IInv
<1>2. Holds(t) /\ task[t].pc = "execute" /\ Unlocked(t)
  BY DEF Execute, Statement
<1>3. task[t] \in [pc : {"execute", "commit", "select"}, o : Operations] /\ ConnOf[t] \in Conns
  BY <1>1, <1>2, TaskFacts DEF Idle
<1>4. Committing = {}
  BY <1>2, NobodyCommits
<1>5. task' = [task EXCEPT ![t] = [pc |-> "commit", o |-> task[t].o]]
  <2>1. task' = [task EXCEPT ![t].pc = "commit"]
    BY DEF Execute, Goto
  <2>2. [task[t] EXCEPT !.pc = "commit"] = [pc |-> "commit", o |-> task[t].o]
    BY <1>3
  <2>3. QED
    BY <2>1, <2>2
<1>6. task' \in [Tasks -> {Idle} \cup [pc : {"execute", "commit", "select"}, o : Operations]]
      /\ task'[t] = [pc |-> "commit", o |-> task[t].o] /\ \A u \in Tasks \ {t} : task'[u] = task[u]
  BY <1>1, <1>3, <1>5 DEF Typed
<1>7. /\ txn' = Append(txn, task[t].o) /\ task[t].o \in Operations /\ txn \in Seq(Operations)
      /\ writer' = ConnOf[t] /\ UNCHANGED <<durable, lock, calls>>
  BY <1>1, <1>3 DEF Execute, Statement, Typed
<1>8. txn' \in Seq(Operations) /\ txn' # <<>> /\ Last(txn') = task[t].o
  BY <1>7 DEF Last
<1>9. Typed'
  BY <1>1, <1>3, <1>6, <1>7, <1>8, StorageAssumption DEF Typed
<1>10. Queues'
  <2>1. \A u \in Tasks : Writing(u)' <=> Writing(u)
    BY <1>2, <1>6 DEF Writing
  <2>2. \A c \in Conns : \A i \in DOMAIN lock[c] : lock[c][i] \in Tasks
    BY <1>1 DEF Typed
  <2>3. \A c \in Conns : \A i \in DOMAIN lock[c] :
          task'[lock[c][i]].pc \in {"execute", "commit"}
    BY <1>1, <1>2, <1>6, <2>2 DEF Queues, Writing
  <2>4. lock' = lock
    BY <1>7
  <2>5. QED
    BY <1>1, <2>1, <2>3, <2>4 DEF Queues, Writing
<1>11. Committing' = {t}
  BY <1>4, <1>6 DEF Committing
<1>12. Holds(t)'
  BY <1>2, <1>7 DEF Holds
<1>13. OneTransaction'
  <2>1. \A u \in Committing' : u = t
    BY <1>11
  <2>2. Holds(t)' /\ writer' = ConnOf[t] /\ Last(txn') = task'[t].o
    BY <1>6, <1>7, <1>8, <1>12
  <2>3. QED
    BY <2>1, <2>2 DEF OneTransaction
<1>14. QED
  BY <1>8, <1>9, <1>10, <1>13 DEF IInv

(* The end of a process takes its queue and its transaction with it. *)
LEMMA RestartPreserves ==
    ASSUME IInv, NEW c \in Conns, Restart(c)
    PROVE  IInv'
<1>1. Typed /\ Queues /\ OneTransaction
  BY DEF IInv
<1>2. task' = [t \in Tasks |-> IF ConnOf[t] = c THEN Idle ELSE task[t]]
  BY DEF Restart
<1>3. lock'[c] = <<>> /\ (\A d \in Conns \ {c} : lock'[d] = lock[d])
      /\ lock' \in [Conns -> Seq(Tasks)]
  BY <1>1 DEF Restart, Typed
<1>4. Typed'
  <2>1. task' \in [Tasks -> {Idle} \cup [pc : {"execute", "commit", "select"}, o : Operations]]
    BY <1>1, <1>2 DEF Typed
  <2>2. UNCHANGED <<durable, calls>> /\ txn' \in {txn, <<>>} /\ writer' \in {writer, NoConn}
        /\ (writer' = NoConn => txn' = <<>>)
    BY <1>1 DEF Restart, Typed
  <2>3. QED
    BY <1>1, <1>3, <2>1, <2>2 DEF Typed
<1>5. \A t \in Tasks : Writing(t)' <=> ConnOf[t] # c /\ Writing(t)
  BY <1>2 DEF Writing, Idle
<1>6. Queues'
  <2>1. \A d \in Conns : \A i, j \in DOMAIN lock'[d] : lock'[d][i] = lock'[d][j] => i = j
    BY <1>1, <1>3 DEF Queues
  <2>2. \A d \in Conns \ {c} : \A i \in DOMAIN lock[d] : lock[d][i] \in Tasks
    BY <1>1 DEF Typed
  <2>3. \A d \in Conns \ {c} : \A i \in DOMAIN lock[d] :
          ConnOf[lock[d][i]] = d /\ task'[lock[d][i]].pc \in {"execute", "commit"}
    BY <1>1, <1>2, <2>2 DEF Queues, Writing
  <2>4. \A d \in Conns : \A i \in DOMAIN lock'[d] :
          ConnOf[lock'[d][i]] = d /\ task'[lock'[d][i]].pc \in {"execute", "commit"}
    <3> SUFFICES ASSUME NEW d \in Conns, NEW i \in DOMAIN lock'[d]
                 PROVE  /\ ConnOf[lock'[d][i]] = d
                        /\ task'[lock'[d][i]].pc \in {"execute", "commit"}
      OBVIOUS
    <3>1. d # c
      BY <1>3
    <3>2. lock'[d] = lock[d]
      BY <1>3, <3>1
    <3>3. QED
      BY <2>3, <3>1, <3>2
  <2>5. \A t \in Tasks : Writing(t)' =>
          \E i \in DOMAIN lock'[ConnOf[t]] : lock'[ConnOf[t]][i] = t
    BY <1>1, <1>3, <1>5, StorageAssumption DEF Queues
  <2>6. QED
    BY <2>1, <2>4, <2>5 DEF Queues, Writing
<1>7. Committing' = {t \in Committing : ConnOf[t] # c}
  BY <1>2 DEF Committing, Idle
<1>8. OneTransaction' /\ (Committing' # {} => txn' # <<>>)
  <2> SUFFICES ASSUME NEW t \in Committing'
               PROVE  OneTransaction' /\ txn' # <<>>
    BY DEF OneTransaction
  <2>1. t \in Tasks /\ t \in Committing /\ ConnOf[t] # c /\ Committing' = {t}
    BY <1>1, <1>7 DEF Committing, OneTransaction
  <2>2. Holds(t) /\ writer = ConnOf[t] /\ Last(txn) = task[t].o /\ txn # <<>>
    BY <2>1 DEF OneTransaction, IInv
  <2>3. UNCHANGED <<txn, writer>>
    BY <2>1, <2>2 DEF Restart
  <2>4. Holds(t)' /\ task'[t] = task[t]
    BY <1>2, <1>3, <2>1, <2>2, StorageAssumption DEF Holds
  <2>5. QED
    BY <2>1, <2>2, <2>3, <2>4 DEF OneTransaction
<1>9. QED
  BY <1>4, <1>6, <1>8 DEF IInv

(* The read that ends increment_retry() is done without the lock. *)
LEMMA SelectPreserves ==
    ASSUME IInv, NEW t \in Tasks, Select(t)
    PROVE  IInv'
<1>1. Typed /\ Queues /\ OneTransaction
  BY DEF IInv
<1>2. /\ task' \in [Tasks -> {Idle} \cup [pc : {"execute", "commit", "select"}, o : Operations]]
      /\ task'[t] = Idle /\ \A u \in Tasks \ {t} : task'[u] = task[u]
  BY <1>1 DEF Select, Typed
<1>3. UNCHANGED <<durable, txn, writer, lock, calls>>
  BY DEF Select
<1>4. Typed'
  BY <1>1, <1>2, <1>3 DEF Typed
<1>5. ~Writing(t) /\ \A u \in Tasks : Writing(u)' <=> Writing(u)
  BY <1>2 DEF Select, Writing, Idle
<1>6. Queues'
  <2>1. \A c \in Conns : \A i \in DOMAIN lock[c] : lock[c][i] \in Tasks
    BY <1>1 DEF Typed
  <2>2. \A c \in Conns : \A i \in DOMAIN lock[c] :
          ConnOf[lock[c][i]] = c /\ task'[lock[c][i]].pc \in {"execute", "commit"}
    BY <1>1, <1>2, <1>5, <2>1 DEF Queues, Writing
  <2>3. lock' = lock
    BY <1>3
  <2>4. QED
    BY <1>1, <1>5, <2>2, <2>3 DEF Queues, Writing
<1>7. Committing' = Committing
  BY <1>2 DEF Select, Committing, Idle
<1>8. OneTransaction'
  <2>1. \A u \in Committing : task'[u] = task[u]
    BY <1>2 DEF Select, Committing
  <2>2. \A u \in Committing : Holds(u)' <=> Holds(u)
    BY <1>3 DEF Holds
  <2>3. QED
    BY <1>1, <1>3, <1>7, <2>1, <2>2 DEF OneTransaction
<1>9. QED
  BY <1>3, <1>4, <1>6, <1>7, <1>8 DEF IInv

(* commit() writes what the transaction has. *)
LEMMA CommittedFacts ==
    ASSUME Typed, Committed
    PROVE  durable' \in Tables /\ txn' = <<>> /\ txn' \in Seq(Operations) /\ writer' = NoConn
  BY ApplyAllType DEF Committed, Typed

(* execute() or commit() raises, commit() returns, or the task is          *)
(* cancelled: the operation is over.                                       *)
LEMMA EndPreserves ==
    ASSUME IInv, NEW t \in Tasks,
           ExecuteFails(t) \/ Commit(t) \/ CommitFails(t) \/ Cancel(t)
    PROVE  IInv'
<1>1. Typed /\ OneTransaction
  BY DEF IInv
<1>2. task[t].pc = "commit" => Committing \subseteq {t}
  BY <1>1 DEF OneTransaction, Committing
<1>3. ConnOf[t] \in Conns /\ (task[t].pc = "execute" => task[t].o \in Operations)
  BY <1>1, TaskFacts
<1>4. CASE ExecuteFails(t)
  <2>1. Writing(t) /\ lock' = Release(t) /\ task' = [task EXCEPT ![t] = Idle]
        /\ UNCHANGED <<durable, txn, writer, calls>>
    BY <1>4 DEF ExecuteFails, Raise, Writing
  <2>2. QED
    BY <1>1, <2>1, LeavePreserves DEF Typed
<1>5. CASE Commit(t)
  <2>1. Writing(t) /\ lock' = Release(t) /\ Committed /\ calls' = calls
    BY <1>5 DEF Commit, Commits, Writing
  <2>2. task' = [task EXCEPT ![t] = Idle] \/ task' = [task EXCEPT ![t].pc = "select"]
    BY <1>5 DEF Commit, Goto
  <2>3. Committing \subseteq {t}
    BY <1>2, <1>5 DEF Commit
  <2>4. calls' \in 0..MaxCalls
    BY <1>1, <2>1 DEF Typed
  <2>5. QED
    BY <1>1, <2>1, <2>2, <2>3, <2>4, CommittedFacts, LeavePreserves
<1>6. CASE CommitFails(t)
  <2>1. Writing(t) /\ lock' = Release(t) /\ task' = [task EXCEPT ![t] = Idle]
        /\ UNCHANGED <<durable, calls>>
    BY <1>6 DEF CommitFails, Raise, Writing
  <2>2. txn' \in Seq(Operations) /\ writer' \in Conns \cup {NoConn} /\ (writer' = NoConn => txn' = <<>>)
    <3>1. CASE UNCHANGED <<txn, writer>>
      BY <1>1, <3>1 DEF Typed
    <3>2. CASE txn' = <<>> /\ writer' = NoConn
      BY <3>2
    <3>3. QED
      BY <1>6, <3>1, <3>2 DEF CommitFails
  <2>3. Committing \subseteq {t}
    BY <1>2, <1>6 DEF CommitFails
  <2>4. QED
    BY <1>1, <2>1, <2>2, <2>3, LeavePreserves DEF Typed
<1>7. CASE Cancel(t)
  <2>1. lock' = Release(t) /\ task' = [task EXCEPT ![t] = Idle] /\ calls' = calls
    BY <1>7 DEF Cancel, Raise
  <2>2. calls' \in 0..MaxCalls
    BY <1>1, <2>1 DEF Typed
  <2>3. CASE task[t].pc = "execute" /\ UNCHANGED <<durable, txn, writer>>
    <3>1. Writing(t)
      BY <2>3 DEF Writing
    <3>2. QED
      BY <1>1, <2>1, <2>2, <2>3, <3>1, LeavePreserves DEF Typed
  <2>4. CASE Statement(t) /\ UNCHANGED durable
    <3>1. Writing(t) /\ Committing = {}
      BY <2>4, NobodyCommits DEF Statement, Writing
    <3>2. txn' \in Seq(Operations) /\ writer' \in Conns /\ writer' # NoConn /\ durable' \in Tables
      BY <1>1, <1>3, <2>4, StorageAssumption DEF Statement, Typed
    <3>3. QED
      BY <1>1, <2>1, <2>2, <3>1, <3>2, LeavePreserves
  <2>5. CASE task[t].pc = "commit" /\ Committed
    <3>1. Writing(t) /\ Committing \subseteq {t}
      BY <1>2, <2>5 DEF Writing
    <3>2. QED
      BY <1>1, <2>1, <2>2, <2>5, <3>1, CommittedFacts, LeavePreserves
  <2>6. QED
    BY <1>7, <2>3, <2>4, <2>5 DEF Cancel
<1>8. QED
  BY <1>4, <1>5, <1>6, <1>7

(* Every step keeps the invariant. *)
LEMMA IInvPreserved ==
    ASSUME IInv, [Next]_vars
    PROVE  IInv'
<1>1. ASSUME NEW t \in Tasks, NEW o \in Operations, Call(t, o)
      PROVE  IInv'
  BY <1>1, CallPreserves
<1>2. ASSUME NEW t \in Tasks, Proceed(t) \/ Cancel(t)
      PROVE  IInv'
  BY <1>2, ExecutePreserves, EndPreserves, SelectPreserves DEF Proceed
<1>3. ASSUME NEW c \in Conns, Restart(c)
      PROVE  IInv'
  BY <1>3, RestartPreserves
<1>4. CASE UNCHANGED vars
  BY <1>4 DEF vars, IInv, Typed, Queues, Writing, OneTransaction, Committing, Holds
<1>5. QED
  BY <1>1, <1>2, <1>3, <1>4 DEF Next

(* The invariant holds throughout. *)
THEOREM Invariance == Spec => []IInv
<1>1. Init => IInv
  <2> SUFFICES ASSUME Init PROVE IInv
    OBVIOUS
  <2>1. Typed
    BY StorageAssumption DEF Init, Typed, Tables
  <2>2. Queues
    BY DEF Init, Queues, Writing, Idle
  <2>3. Committing = {}
    BY DEF Init, Committing, Idle
  <2>4. QED
    BY <2>1, <2>2, <2>3 DEF IInv, OneTransaction
<1>2. IInv /\ [Next]_vars => IInv'
  BY IInvPreserved
<1>3. QED
  BY <1>1, <1>2, PTL DEF Spec

(* The variables keep their types: in particular there is no statement     *)
(* without a connection that has it.  However tasks are cancelled, fail or *)
(* end, each is in the queue of its lock, once, exactly while it writes.   *)
THEOREM TypeCorrect == Spec => []TypeOK
<1>1. IInv => TypeOK
  BY DEF IInv, TypeOK
<1>2. QED
  BY <1>1, Invariance, PTL

(* At most one task is between execute() and commit(), it holds its lock,  *)
(* its process is the one that writes, and its statement is the last of    *)
(* the transaction.                                                        *)
THEOREM OneTransactionHolds == Spec => []OneTransaction
<1>1. IInv => OneTransaction
  BY DEF IInv
<1>2. QED
  BY <1>1, Invariance, PTL

-----------------------------------------------------------------------------
(* The refinement *)

(* A transaction is what was in it before its last statement, and that. *)
LEMMA FrontFacts ==
    ASSUME NEW s \in Seq(Operations), NEW o \in Operations
    PROVE  /\ Front(Append(s, o)) = s
           /\ s # <<>> => Append(Front(s), Last(s)) = s
<1>1. Front(Append(s, o)) = s
  <2>1. Append(s, o) \in Seq(Operations) /\ Len(Append(s, o)) = Len(s) + 1
        /\ \A i \in 1..Len(s) : Append(s, o)[i] = s[i]
    OBVIOUS
  <2>2. Front(Append(s, o)) = SubSeq(Append(s, o), 1, Len(s))
    BY <2>1 DEF Front
  <2>3. /\ SubSeq(Append(s, o), 1, Len(s)) \in Seq(Operations)
        /\ Len(SubSeq(Append(s, o), 1, Len(s))) = Len(s)
        /\ \A i \in 1..Len(s) : SubSeq(Append(s, o), 1, Len(s))[i] = s[i]
    BY <2>1
  <2>4. QED
    BY <2>2, <2>3, SeqEqual
<1>2. ASSUME s # <<>>
      PROVE  Append(Front(s), Last(s)) = s
  <2>1. Len(s) \in Nat \ {0} /\ Last(s) = s[Len(s)] /\ Front(s) = SubSeq(s, 1, Len(s) - 1)
    BY <1>2 DEF Last, Front
  <2>2. Front(s) \in Seq(Operations) /\ Len(Front(s)) = Len(s) - 1
        /\ \A i \in 1..Len(s) - 1 : Front(s)[i] = s[i]
    <3>1. 1 \in Int /\ Len(s) - 1 \in Int /\ \A i \in 1..Len(s) - 1 : s[i] \in Operations
      BY <2>1
    <3>2. /\ Front(s) \in Seq(Operations)
          /\ Len(Front(s)) = IF 1 <= Len(s) - 1 THEN Len(s) - 1 - 1 + 1 ELSE 0
          /\ \A i \in 1..Len(s) - 1 - 1 + 1 : Front(s)[i] = s[1 + i - 1]
      BY <3>1, SubSeqProperties DEF Front
    <3> DEFINE n == Len(s)
    <3>3. Len(Front(s)) = n - 1
      <4>1. n \in Nat /\ n # 0 /\ Len(Front(s)) = IF 1 <= n - 1 THEN n - 1 - 1 + 1 ELSE 0
        BY <2>1, <3>2
      <4> HIDE DEF n
      <4>2. QED
        BY <4>1
    <3>4. ASSUME NEW i \in 1..Len(s) - 1
          PROVE  Front(s)[i] = s[i]
      <4>1. i \in 1..Len(s) - 1 - 1 + 1 /\ 1 + i - 1 = i
        BY <2>1
      <4>2. QED
        BY <3>2, <4>1
    <3>5. QED
      BY <3>2, <3>3, <3>4
  <2>3. Last(s) \in Operations
    BY <2>1
  <2>4. Append(Front(s), Last(s)) \in Seq(Operations) /\ Len(Append(Front(s), Last(s))) = Len(s)
        /\ \A i \in 1..Len(s) : Append(Front(s), Last(s))[i] = s[i]
    BY <2>1, <2>2, <2>3
  <2>5. QED
    BY <2>4, SeqEqual
<1>3. QED
  BY <1>1, <1>2

(* What the atomic store sees of a task. *)
LEMMA PendingFacts ==
    ASSUME Typed, NEW t \in Tasks
    PROVE  /\ task[t].pc = "idle"   => Pending[t] = Abstract!None
           /\ task[t].pc = "select" => Pending[t] = Abstract!Effected
           /\ Writing(t)            => Pending[t] = task[t].o /\ Pending[t] \in Operations
  BY TaskFacts DEF Pending, Writing, Abstract!None, Abstract!Effected

(* One task gives up its operation: nothing is said about the others. *)
LEMMA PendingOfOne ==
    ASSUME Typed, NEW t \in Tasks, task' = [task EXCEPT ![t] = Idle]
    PROVE  /\ Pending' = [u \in Tasks |-> IF u \in {t} THEN Abstract!None ELSE Pending[u]]
           /\ Pending' = [Pending EXCEPT ![t] = Abstract!None]
<1>1. task'[t].pc = "idle" /\ \A u \in Tasks \ {t} : task'[u] = task[u]
  BY DEF Typed, Idle
<1>2. Pending' = [u \in Tasks |-> IF u = t THEN Abstract!None ELSE Pending[u]]
  BY <1>1 DEF Pending, Abstract!None
<1>3. QED
  BY <1>2 DEF Pending

(* What the atomic store sees of a transaction whose last statement awaits *)
(* its commit.                                                             *)
LEMMA CommittingFacts ==
    ASSUME IInv, NEW t \in Tasks, task[t].pc = "commit"
    PROVE  /\ Committing = {t} /\ Writing(t)
           /\ Pending[t] \in Operations /\ txn = Append(Orphans, Pending[t])
<1>1. Typed /\ t \in Committing /\ Writing(t)
  BY DEF IInv, Committing, Writing
<1>2. Committing = {t} /\ Last(txn) = task[t].o /\ txn # <<>>
  BY <1>1 DEF IInv, OneTransaction
<1>3. Orphans = Front(txn) /\ Pending[t] = task[t].o /\ Pending[t] \in Operations
  BY <1>1, <1>2, PendingFacts DEF Orphans
<1>4. txn \in Seq(Operations)
  BY <1>1 DEF Typed
<1>5. QED
  BY <1>1, <1>2, <1>3, <1>4, FrontFacts

(* A task that goes idle no longer awaits commit(). *)
LEMMA CommittingOfOne ==
    ASSUME Typed, NEW t \in Tasks, task' = [task EXCEPT ![t] = Idle]
    PROVE  Committing' = Committing \ {t}
  BY DEF Typed, Committing, Idle

(* A call is the call. *)
LEMMA CallRefines ==
    ASSUME IInv, NEW t \in Tasks, NEW o \in Operations, Call(t, o)
    PROVE  Abstract!Call(t, o)
<1>1. Typed /\ task[t].pc = "idle" /\ UNCHANGED <<durable, txn, writer>>
  BY DEF IInv, Call, Idle
<1>2. task'[t] = [pc |-> "execute", o |-> o] /\ \A u \in Tasks \ {t} : task'[u] = task[u]
  BY <1>1 DEF Call, Typed
<1>3. Pending' = [Pending EXCEPT ![t] = o]
  <2>1. task'[t].pc = "execute" /\ task'[t].o = o
    BY <1>2
  <2>2. Pending' = [u \in Tasks |-> IF u = t THEN o ELSE Pending[u]]
    BY <1>2, <2>1 DEF Pending
  <2>3. QED
    BY <2>2 DEF Pending
<1>4. Pending[t] = Abstract!None
  BY <1>1, PendingFacts
<1>5. Orphans' = Orphans
  <2>1. Committing' = Committing
    BY <1>1, <1>2 DEF Committing
  <2>2. QED
    BY <1>1, <2>1 DEF Orphans
<1>6. QED
  BY <1>1, <1>3, <1>4, <1>5 DEF Abstract!Call

(* A statement that awaits its commit changes nothing that counts. *)
LEMMA ExecuteRefines ==
    ASSUME IInv, NEW t \in Tasks, Execute(t)
    PROVE  UNCHANGED <<durable, Pending, Orphans>>
<1>1. Typed /\ task[t].pc = "execute" /\ durable' = durable /\ txn' = Append(txn, task[t].o)
  BY DEF IInv, Execute, Statement
<1>2. Committing = {}
  BY NobodyCommits DEF Execute, Statement
<1>3. task[t].o \in Operations /\ txn \in Seq(Operations)
  BY <1>1, TaskFacts DEF Typed
<1>4. /\ task'[t].pc = "commit" /\ task'[t].o = task[t].o
      /\ \A u \in Tasks \ {t} : task'[u] = task[u]
  BY <1>1, TaskFacts DEF Execute, Goto, Typed
<1>5. Pending' = Pending
  BY <1>1, <1>4 DEF Pending
<1>6. t \in Committing'
  BY <1>4 DEF Committing
<1>7. Orphans' = txn /\ Orphans = txn
  BY <1>1, <1>2, <1>3, <1>6, FrontFacts DEF Orphans
<1>8. QED
  BY <1>1, <1>5, <1>7

(* The operation takes effect when its transaction is committed, whether   *)
(* its task is there to see it or not.                                     *)
LEMMA CommittedRefines ==
    ASSUME IInv, NEW t \in Tasks, task[t].pc = "commit", Committed,
           \/ task' = [task EXCEPT ![t] = Idle]
           \/ task' = [task EXCEPT ![t].pc = "select"]
    PROVE  Abstract!Effect(t)
<1>1. Typed
  BY DEF IInv
<1>2. Committing = {t} /\ Pending[t] \in Operations /\ txn = Append(Orphans, Pending[t])
  BY CommittingFacts
<1>3. durable' = Abstract!ApplyAll(durable, Append(Orphans, Pending[t])) /\ txn' = <<>>
  BY <1>2 DEF Committed
<1>4. task'[t].pc \in {"idle", "select"} /\ \A u \in Tasks \ {t} : task'[u] = task[u]
  BY <1>1, TaskFacts DEF Typed, Idle
<1>5. Committing' = {}
  BY <1>2, <1>4 DEF Committing
<1>6. Orphans' = <<>>
  BY <1>3, <1>5 DEF Orphans
<1>7. Pending' \in {[Pending EXCEPT ![t] = Abstract!None], [Pending EXCEPT ![t] = Abstract!Effected]}
  BY <1>4 DEF Pending, Abstract!None, Abstract!Effected
<1>8. QED
  BY <1>2, <1>3, <1>6, <1>7 DEF Abstract!Effect

(* Errors, and cancellation before commit(), abandon the operation. *)
LEMMA AbandonRefines ==
    ASSUME IInv, NEW t \in Tasks, task' = [task EXCEPT ![t] = Idle], durable' = durable,
           \/ task[t].pc = "execute" /\ UNCHANGED <<txn, writer>>
           \/ Statement(t)
           \/ task[t].pc = "commit" /\ (txn' = txn \/ txn' = <<>>)
    PROVE  Abstract!Abandon({t})
<1>1. Typed
  BY DEF IInv
<1>2. Pending' = [u \in Tasks |-> IF u \in {t} THEN Abstract!None ELSE Pending[u]]
  BY <1>1, PendingOfOne
<1>3. Committing' = Committing \ {t}
  BY <1>1, CommittingOfOne
<1>4. CASE task[t].pc = "execute" /\ UNCHANGED <<txn, writer>>
  <2>1. Committing' = Committing
    BY <1>3, <1>4 DEF Committing
  <2>2. Orphans' = Orphans
    BY <1>4, <2>1 DEF Orphans
  <2>3. QED
    BY <1>2, <2>2 DEF Abstract!Abandon
<1>5. CASE Statement(t)
  <2>1. Committing = {} /\ Writing(t) /\ txn' = Append(txn, task[t].o)
    BY <1>5, NobodyCommits DEF Statement, Writing
  <2>2. Orphans = txn /\ Orphans' = txn'
    BY <1>3, <2>1 DEF Orphans
  <2>3. Pending[t] = task[t].o /\ Pending[t] \in Operations
    BY <1>1, <2>1, PendingFacts
  <2>4. Orphans' = Append(Orphans, Pending[t])
    BY <2>1, <2>2, <2>3
  <2>5. QED
    BY <1>2, <2>3, <2>4 DEF Abstract!Abandon
<1>6. CASE task[t].pc = "commit" /\ (txn' = txn \/ txn' = <<>>)
  <2>1. Committing = {t} /\ Pending[t] \in Operations /\ txn = Append(Orphans, Pending[t])
    BY <1>6, CommittingFacts
  <2>2. Orphans' = txn'
    BY <1>3, <2>1 DEF Orphans
  <2>3. QED
    BY <1>2, <1>6, <2>1, <2>2 DEF Abstract!Abandon
<1>7. QED
  BY <1>4, <1>5, <1>6

(* The read after the commit is part of the return. *)
LEMMA SelectRefines ==
    ASSUME IInv, NEW t \in Tasks, Select(t)
    PROVE  Abstract!Return(t)
<1>1. Typed /\ task[t].pc = "select" /\ UNCHANGED <<durable, txn>> /\ task' = [task EXCEPT ![t] = Idle]
  BY DEF IInv, Select
<1>2. Pending[t] = Abstract!Effected /\ Pending' = [Pending EXCEPT ![t] = Abstract!None]
  BY <1>1, PendingFacts, PendingOfOne
<1>3. Committing' = Committing
  BY <1>1, CommittingOfOne DEF Committing
<1>4. Orphans' = Orphans
  BY <1>1, <1>3 DEF Orphans
<1>5. QED
  BY <1>1, <1>2, <1>4 DEF Abstract!Return

(* The end of a process abandons its operations, with what they and others *)
(* before them left in its transaction.                                    *)
LEMMA RestartRefines ==
    ASSUME IInv, NEW c \in Conns, Restart(c)
    PROVE  \E ts \in SUBSET Tasks : Abstract!Abandon(ts)
<1> DEFINE ts == {t \in Tasks : ConnOf[t] = c}
<1>1. task' = [t \in Tasks |-> IF ConnOf[t] = c THEN Idle ELSE task[t]] /\ durable' = durable
  BY DEF Restart
<1>2. Pending' = [t \in Tasks |-> IF t \in ts THEN Abstract!None ELSE Pending[t]]
  BY <1>1 DEF Pending, Idle, Abstract!None
<1>3. Committing' = Committing \ ts
  BY <1>1 DEF Committing, Idle
<1>4. Orphans' \in {Orphans, <<>>}
  <2>1. CASE writer = c
    <3>1. txn' = <<>> /\ \A t \in Committing : t \in ts
      BY <2>1 DEF Restart, IInv, OneTransaction, Committing
    <3>2. QED
      BY <1>3, <3>1 DEF Orphans
  <2>2. CASE writer # c
    <3>1. txn' = txn /\ \A t \in Committing : t \notin ts
      BY <2>2 DEF Restart, IInv, OneTransaction
    <3>2. Committing' = Committing
      BY <1>3, <3>1
    <3>3. QED
      BY <3>1, <3>2 DEF Orphans
  <2>3. QED
    BY <2>1, <2>2
<1>5. Abstract!Abandon(ts)
  BY <1>1, <1>2, <1>4 DEF Abstract!Abandon
<1>6. QED
  BY <1>5

(* Every step is a step of the atomic store, or none. *)
LEMMA StepRefines ==
    ASSUME IInv, [Next]_vars
    PROVE  [Abstract!Next]_(Abstract!vars)
<1>1. ASSUME NEW t \in Tasks, NEW o \in Operations, Call(t, o)
      PROVE  Abstract!Next
  BY <1>1, CallRefines DEF Abstract!Next
<1>2. ASSUME NEW t \in Tasks, Execute(t)
      PROVE  UNCHANGED Abstract!vars
  BY <1>2, ExecuteRefines DEF Abstract!vars
<1>3. ASSUME NEW t \in Tasks, ExecuteFails(t) \/ CommitFails(t)
      PROVE  Abstract!Next
  <2>1. Abstract!Abandon({t})
    BY <1>3, AbandonRefines DEF ExecuteFails, CommitFails, Raise
  <2>2. QED
    BY <2>1 DEF Abstract!Next
<1>4. ASSUME NEW t \in Tasks, Commit(t)
      PROVE  Abstract!Next
  <2>1. Abstract!Effect(t)
    BY <1>4, CommittedRefines DEF Commit, Commits, Goto
  <2>2. QED
    BY <2>1 DEF Abstract!Next
<1>5. ASSUME NEW t \in Tasks, Select(t)
      PROVE  Abstract!Next
  BY <1>5, SelectRefines DEF Abstract!Next
<1>6. ASSUME NEW t \in Tasks, Cancel(t)
      PROVE  Abstract!Next
  <2>1. task' = [task EXCEPT ![t] = Idle]
    BY <1>6 DEF Cancel, Raise
  <2>2. Abstract!Abandon({t}) \/ Abstract!Effect(t)
    BY <1>6, <2>1, AbandonRefines, CommittedRefines DEF Cancel
  <2>3. QED
    BY <2>2 DEF Abstract!Next
<1>7. ASSUME NEW c \in Conns, Restart(c)
      PROVE  Abstract!Next
  BY <1>7, RestartRefines DEF Abstract!Next
<1>8. CASE UNCHANGED vars
  BY <1>8 DEF vars, Abstract!vars, Pending, Orphans, Committing
<1>9. QED
  BY <1>1, <1>2, <1>3, <1>4, <1>5, <1>6, <1>7, <1>8 DEF Next, Proceed

(* Storage, with its lock, its awaits and its transactions that may be     *)
(* left open, implements the atomic store: for any number of coroutines,   *)
(* processes and calls, and wherever they are cancelled, fail or crash.    *)
THEOREM StoreIsAtomic == Spec => ImplementsAtomicStore
<1>1. Init => Abstract!Init
  <2> SUFFICES ASSUME Init PROVE Abstract!Init
    OBVIOUS
  <2>1. Pending = [t \in Tasks |-> Abstract!None]
    BY DEF Init, Pending, Idle, Abstract!None
  <2>2. Orphans = <<>>
    BY DEF Init, Orphans, Committing, Idle
  <2>3. durable = Abstract!Empty
    BY DEF Init, Abstract!Empty, Abstract!NoRow
  <2>4. QED
    BY <2>1, <2>2, <2>3 DEF Abstract!Init
<1>2. IInv /\ [Next]_vars => [Abstract!Next]_(Abstract!vars)
  BY StepRefines
<1>3. QED
  BY <1>1, <1>2, Invariance, PTL DEF Spec, ImplementsAtomicStore, Abstract!Spec

=============================================================================
