-------------------------- MODULE RateLimiterProofs --------------------------
(***************************************************************************)
(* Proofs about RateLimiter, for any rates, bursts, overrides and number   *)
(* of tasks: the rate limit itself, and that the sleep that acquire()      *)
(* computes is long enough.                                                *)
(***************************************************************************)
EXTENDS RateLimiter, SequenceTheorems, TLAPS

-----------------------------------------------------------------------------
(* The inductive invariant *)

(* A bucket was last refilled in the past. *)
Clocks == \A b \in Buckets : last[b] <= now

(* A bucket that is not there yet will be full, and nobody waits for it. *)
Fresh ==
    /\ \A b \in Buckets : b > current => tokens[b] = Capacity(b) /\ grants[b] = <<>>
    /\ \A t \in Tasks : task[t].bucket <= current

(* k grants of bucket b, the first of them at time `from`, and tok units   *)
(* that are left at time `to`, were in the bucket when it was full or      *)
(* flowed in since.                                                        *)
Covered(b, k, tok, from, to) == k * Token + tok <= Capacity(b) + Rate(b) * (to - from)

(* So is what each bucket granted since any of its grants. *)
Budget ==
    \A b \in Buckets : \A i \in DOMAIN grants[b] :
        /\ grants[b][i] <= last[b]
        /\ Covered(b, Len(grants[b]) - i + 1, tokens[b], grants[b][i], last[b])

(* A task sleeps until its token has flowed in, if nobody takes it. *)
SleepCovers ==
    \A t \in Tasks : \A b \in Buckets :
        task[t].bucket = b =>
            /\ task[t].seen <= Len(grants[b])
            /\ task[t].seen = Len(grants[b]) => Refilled(b) + task[t].left >= Token

IInv == TypeOK /\ Clocks /\ Fresh /\ Budget /\ SleepCovers /\ BucketRateRespected

-----------------------------------------------------------------------------
(* Arithmetic *)

(* Two products with a common factor. *)
LEMMA Distribute ==
    ASSUME NEW a \in Int, NEW b \in Int, NEW c \in Int
    PROVE  a * c + b * c = (a + b) * c /\ c * a + c * b = c * (a + b) /\ a * c = c * a
  OBVIOUS

(* A product of natural numbers. *)
LEMMA ProductNat ==
    ASSUME NEW a \in Nat, NEW b \in Nat
    PROVE  a * b \in Nat
  OBVIOUS

-----------------------------------------------------------------------------
(* The bucket's arithmetic *)

(* A configuration has a positive rate and room for a token. *)
LEMMA ConfigFacts ==
    ASSUME NEW b \in Buckets
    PROVE  /\ b \in Nat /\ b >= 1 /\ b <= Len(Configs)
           /\ Rate(b) \in Nat \ {0} /\ Token \in Nat \ {0}
           /\ Capacity(b) \in Nat /\ Token <= Capacity(b)
<1>1. b \in 1..Len(Configs) /\ Len(Configs) \in Nat
      /\ Configs[b] \in (Nat \ {0}) \X (Nat \ {0})
  BY LimiterAssumption DEF Buckets
<1>2. Rate(b) \in Nat \ {0} /\ Configs[b][2] \in Nat \ {0} /\ Token \in Nat \ {0}
  BY <1>1, LimiterAssumption DEF Rate
<1>3. Capacity(b) \in Nat /\ Token <= Capacity(b)
  <2> DEFINE n == Configs[b][2]
  <2>1. n - 1 \in Nat /\ n \in Nat
    BY <1>2
  <2> HIDE DEF n
  <2>2. (n - 1) * Token \in Nat /\ n * Token \in Nat
    BY <1>2, <2>1, ProductNat
  <2>3. (n - 1) * Token + 1 * Token = n * Token
    BY <1>2, <2>1, Distribute
  <2>4. Token <= n * Token
    BY <1>2, <2>2, <2>3
  <2>5. QED
    BY <2>2, <2>4 DEF Capacity, n
<1>4. QED
  BY <1>1, <1>2, <1>3

(* What _refill() leaves in the bucket. *)
LEMMA RefilledFacts ==
    ASSUME TypeOK, Clocks, NEW b \in Buckets
    PROVE  /\ tokens[b] \in Nat /\ now \in Nat /\ last[b] \in Nat
           /\ (now - last[b]) * Rate(b) \in Nat
           /\ Refilled(b) \in Nat /\ Refilled(b) <= Capacity(b)
           /\ Refilled(b) <= tokens[b] + (now - last[b]) * Rate(b)
<1>1. tokens[b] \in Nat /\ now \in Nat /\ last[b] \in Nat /\ now - last[b] \in Nat
  BY LimiterAssumption DEF TypeOK, Clocks
<1>2. Rate(b) \in Nat /\ Capacity(b) \in Nat
  BY ConfigFacts
<1>3. (now - last[b]) * Rate(b) \in Nat
  BY <1>1, <1>2, ProductNat
<1>4. QED
  BY <1>1, <1>2, <1>3 DEF Refilled

(* The sleep is as long as the missing units take to flow in. *)
LEMMA WaitFacts ==
    ASSUME TypeOK, Clocks, NEW b \in Buckets, ~(Refilled(b) >= Token)
    PROVE  Wait(b) \in Nat /\ Refilled(b) + Wait(b) >= Token
<1>1. Refilled(b) \in Nat /\ Token \in Nat
  BY RefilledFacts, ConfigFacts
<1>2. QED
  BY <1>1 DEF Wait

(* A bucket that was just refilled to r units has r units. *)
LEMMA JustRefilled ==
    ASSUME NEW b \in Buckets, NEW r \in Nat, r <= Capacity(b), now' \in Nat,
           tokens'[b] = r, last'[b] = now'
    PROVE  Refilled(b)' = r
<1>1. Rate(b) \in Nat /\ Capacity(b) \in Nat
  BY ConfigFacts
<1>2. (now' - last'[b]) * Rate(b) = 0
  <2>1. now' - last'[b] = 0
    OBVIOUS
  <2>2. QED
    BY <1>1, <2>1
<1>3. Refilled(b)' = IF r + 0 < Capacity(b) THEN r + 0 ELSE Capacity(b)
  BY <1>2 DEF Refilled, Rate, Capacity
<1>4. QED
  BY <1>1, <1>3

(* What flows in is covered. *)
LEMMA CoveredLater ==
    ASSUME NEW b \in Buckets, NEW k \in Int, NEW tok \in Int, NEW r \in Int,
           NEW from \in Int, NEW mid \in Int, NEW to \in Int,
           Covered(b, k, tok, from, mid), r <= tok + (to - mid) * Rate(b)
    PROVE  Covered(b, k, r, from, to)
<1> DEFINE x == Rate(b) * (mid - from)
           y == (to - mid) * Rate(b)
           z == k * Token
<1>1. Rate(b) \in Int /\ Capacity(b) \in Int /\ Token \in Int
  BY ConfigFacts
<1>2. x \in Int /\ y \in Int /\ z \in Int
  BY <1>1
<1>3. Rate(b) * (to - from) = x + y
  <2>1. mid - from \in Int /\ to - mid \in Int /\ (mid - from) + (to - mid) = to - from
    OBVIOUS
  <2>2. Rate(b) * (mid - from) + Rate(b) * (to - mid) = Rate(b) * (to - from)
        /\ (to - mid) * Rate(b) = Rate(b) * (to - mid)
    BY <1>1, <2>1, Distribute
  <2>3. QED
    BY <2>2
<1>4. z + tok <= Capacity(b) + x /\ r <= tok + y
  BY DEF Covered
<1> HIDE DEF x, y, z
<1>5. z + r <= Capacity(b) + (x + y)
  BY <1>1, <1>2, <1>4
<1>6. QED
  BY <1>3, <1>5 DEF Covered, z

(* A token that is granted was in the bucket. *)
LEMMA CoveredGrant ==
    ASSUME NEW b \in Buckets, NEW k \in Int, NEW r \in Int,
           NEW from \in Int, NEW to \in Int, Covered(b, k, r, from, to)
    PROVE  Covered(b, k + 1, r - Token, from, to)
<1> DEFINE x == Rate(b) * (to - from)
           z == k * Token
<1>1. Rate(b) \in Int /\ Capacity(b) \in Int /\ Token \in Int
  BY ConfigFacts
<1>2. x \in Int /\ z \in Int
  BY <1>1
<1>3. (k + 1) * Token = z + Token
  BY <1>1
<1>4. z + r <= Capacity(b) + x
  BY DEF Covered
<1> HIDE DEF x, z
<1>5. (z + Token) + (r - Token) <= Capacity(b) + x
  BY <1>1, <1>2, <1>4
<1>6. QED
  BY <1>3, <1>5 DEF Covered, x

(* So is one grant alone. *)
LEMMA CoveredOne ==
    ASSUME NEW b \in Buckets, NEW r \in Int, r <= Capacity(b), NEW to \in Int
    PROVE  Covered(b, 1, r - Token, to, to)
<1>1. Rate(b) \in Int /\ Capacity(b) \in Int /\ Token \in Int
  BY ConfigFacts
<1>2. 1 * Token = Token /\ Rate(b) * (to - to) = 0
  BY <1>1
<1>3. Token + (r - Token) <= Capacity(b) + 0
  BY <1>1
<1>4. QED
  BY <1>2, <1>3 DEF Covered

-----------------------------------------------------------------------------
(* One iteration of acquire() *)

(* A granting iteration. *)
Granted(t, b) ==
    /\ Refilled(b) >= Token
    /\ tokens'[b] = Refilled(b) - Token
    /\ task'[t] = Outside
    /\ grants'[b] = Append(grants[b], now)

(* One that goes to sleep. *)
PutToSleep(t, b) ==
    /\ ~(Refilled(b) >= Token)
    /\ tokens'[b] = Refilled(b)
    /\ task'[t] = [bucket |-> b, left |-> Wait(b), seen |-> Len(grants[b])]
    /\ grants'[b] = grants[b]

(* What an iteration does, and what it leaves alone. *)
LEMMA IterateFacts ==
    ASSUME TypeOK, NEW t \in Tasks, NEW b \in Buckets, Iterate(t, b)
    PROVE  /\ now' = now /\ current' = current /\ last'[b] = now
           /\ Granted(t, b) \/ PutToSleep(t, b)
           /\ \A c \in Buckets \ {b} :
                 tokens'[c] = tokens[c] /\ last'[c] = last[c] /\ grants'[c] = grants[c]
           /\ \A u \in Tasks \ {t} : task'[u] = task[u]
<1>1. now' = now /\ current' = current /\ last' = [last EXCEPT ![b] = now]
  BY DEF Iterate
<1>2. CASE Refilled(b) >= Token
  BY <1>1, <1>2 DEF Iterate, TypeOK, Granted
<1>3. CASE ~(Refilled(b) >= Token)
  BY <1>1, <1>3 DEF Iterate, TypeOK, PutToSleep
<1>4. QED
  BY <1>2, <1>3

(* The types and the clocks are kept. *)
LEMMA IterateTypes ==
    ASSUME IInv, NEW t \in Tasks, NEW b \in Buckets, Iterate(t, b)
    PROVE  TypeOK' /\ Clocks'
<1>1. TypeOK /\ Clocks
  BY DEF IInv
<1>2. Refilled(b) \in Nat /\ Refilled(b) <= Capacity(b) /\ Token \in Nat /\ Capacity(b) \in Nat
  BY <1>1, RefilledFacts, ConfigFacts
<1>3. UNCHANGED <<now, current>> /\ last' = [last EXCEPT ![b] = now]
  BY DEF Iterate
<1>4. last' \in [Buckets -> 0..MaxTime] /\ Clocks'
  BY <1>1, <1>3 DEF TypeOK, Clocks
<1>5. CASE Refilled(b) >= Token
  <2>1. /\ tokens' = [tokens EXCEPT ![b] = Refilled(b) - Token]
        /\ task' = [task EXCEPT ![t] = Outside]
        /\ grants' = [grants EXCEPT ![b] = Append(grants[b], now)]
    BY <1>5 DEF Iterate
  <2>2. Refilled(b) - Token \in Nat /\ Refilled(b) - Token <= Capacity(b)
    BY <1>2, <1>5
  <2>3. tokens' \in [Buckets -> Nat] /\ \A c \in Buckets : tokens'[c] <= Capacity(c)
    BY <1>1, <2>1, <2>2 DEF TypeOK
  <2>4. task' \in [Tasks -> [bucket : Buckets \cup {0}, left : Nat, seen : Nat]]
    BY <1>1, <2>1 DEF TypeOK, Outside
  <2>5. grants' \in [Buckets -> Seq(0..MaxTime)]
    BY <1>1, <2>1 DEF TypeOK
  <2>6. QED
    BY <1>1, <1>3, <1>4, <2>3, <2>4, <2>5 DEF TypeOK, Capacity, Buckets
<1>6. CASE ~(Refilled(b) >= Token)
  <2>1. /\ tokens' = [tokens EXCEPT ![b] = Refilled(b)]
        /\ task' = [task EXCEPT ![t] = [bucket |-> b, left |-> Wait(b), seen |-> Len(grants[b])]]
        /\ grants' = grants
    BY <1>6 DEF Iterate
  <2>2. tokens' \in [Buckets -> Nat] /\ \A c \in Buckets : tokens'[c] <= Capacity(c)
    BY <1>1, <1>2, <2>1 DEF TypeOK
  <2>3. Wait(b) \in Nat /\ Len(grants[b]) \in Nat
    <3>1. Wait(b) \in Nat
      BY <1>1, <1>6, WaitFacts
    <3>2. grants[b] \in Seq(0..MaxTime)
      BY <1>1 DEF TypeOK
    <3>3. Len(grants[b]) \in Nat
      BY <3>2
    <3>4. QED
      BY <3>1, <3>3
  <2>4. task' \in [Tasks -> [bucket : Buckets \cup {0}, left : Nat, seen : Nat]]
    BY <1>1, <2>1, <2>3 DEF TypeOK
  <2>5. QED
    BY <1>1, <1>3, <1>4, <2>1, <2>2, <2>4 DEF TypeOK, Capacity, Buckets
<1>7. QED
  BY <1>5, <1>6

(* An iteration on a bucket that exists leaves the others fresh. *)
LEMMA IterateFresh ==
    ASSUME IInv, NEW t \in Tasks, NEW b \in Buckets, b <= current, Iterate(t, b)
    PROVE  Fresh'
<1>1. TypeOK /\ Fresh
  BY DEF IInv
<1>2. \A c \in Buckets : c \in Nat /\ c >= 1
  BY ConfigFacts
<1>3. current \in Buckets /\ current' = current
  BY <1>1, IterateFacts DEF TypeOK
<1>4. \A c \in Buckets : c > current =>
        c # b /\ tokens'[c] = Capacity(c) /\ grants'[c] = <<>>
  BY <1>1, <1>2, <1>3, IterateFacts DEF Fresh
<1>5. \A u \in Tasks : task'[u].bucket <= current
  <2>1. task'[t].bucket \in {0, b}
    <3>1. Granted(t, b) \/ PutToSleep(t, b)
      BY <1>1, IterateFacts
    <3>2. QED
      BY <3>1 DEF Granted, PutToSleep, Outside
  <2>2. task'[t].bucket <= current
    BY <1>2, <1>3, <2>1
  <2>3. QED
    BY <1>1, <2>2, IterateFacts DEF Fresh
<1>6. QED
  BY <1>3, <1>4, <1>5 DEF Fresh, Capacity, Buckets

(* The budget of a bucket after an iteration: what flowed in was counted,  *)
(* what was granted was taken out.                                         *)
LEMMA IterateBudget ==
    ASSUME IInv, NEW t \in Tasks, NEW b \in Buckets, Iterate(t, b)
    PROVE  Budget'
<1> DEFINE n == Len(grants[b])
<1>1. TypeOK /\ Clocks /\ Budget
  BY DEF IInv
<1>2. /\ Refilled(b) \in Nat /\ Refilled(b) <= Capacity(b)
      /\ Refilled(b) <= tokens[b] + (now - last[b]) * Rate(b)
      /\ tokens[b] \in Nat /\ now \in Nat /\ last[b] \in Nat
  BY <1>1, RefilledFacts
<1>3. grants[b] \in Seq(0..MaxTime) /\ n \in Nat /\ DOMAIN grants[b] = 1..n /\ last[b] <= now
  BY <1>1 DEF TypeOK, Clocks
<1>4. ASSUME NEW i \in 1..n
      PROVE  /\ grants[b][i] \in Nat /\ grants[b][i] <= now /\ n - i + 1 \in Int
             /\ Covered(b, n - i + 1, Refilled(b), grants[b][i], now)
  <2>1. grants[b][i] \in Nat
    BY <1>3, LimiterAssumption
  <2>2. grants[b][i] <= last[b] /\ Covered(b, n - i + 1, tokens[b], grants[b][i], last[b])
    BY <1>1, <1>3 DEF Budget
  <2>3. grants[b][i] <= now /\ n - i + 1 \in Int
    BY <1>2, <1>3, <2>1, <2>2
  <2>4. Covered(b, n - i + 1, Refilled(b), grants[b][i], now)
    BY <1>2, <2>1, <2>2, <2>3, CoveredLater
  <2>5. QED
    BY <2>1, <2>3, <2>4
<1>5. /\ now' = now /\ last'[b] = now /\ (Granted(t, b) \/ PutToSleep(t, b))
      /\ \A c \in Buckets \ {b} :
            tokens'[c] = tokens[c] /\ last'[c] = last[c] /\ grants'[c] = grants[c]
  BY <1>1, IterateFacts
<1>6. ASSUME NEW i \in DOMAIN grants'[b]
      PROVE  /\ grants'[b][i] <= last'[b]
             /\ Covered(b, Len(grants'[b]) - i + 1, tokens'[b], grants'[b][i], last'[b])
  <2>1. CASE PutToSleep(t, b)
    <3>1. grants'[b] = grants[b] /\ tokens'[b] = Refilled(b)
      BY <2>1 DEF PutToSleep
    <3>2. i \in 1..n
      BY <1>3, <1>6, <3>1
    <3>3. QED
      BY <1>4, <1>5, <3>1, <3>2
  <2>2. CASE Granted(t, b)
    <3>1. grants'[b] = Append(grants[b], now) /\ tokens'[b] = Refilled(b) - Token
      BY <2>2 DEF Granted
    <3>2. /\ Len(grants'[b]) = n + 1 /\ DOMAIN grants'[b] = 1..n + 1
          /\ \A j \in 1..n : grants'[b][j] = grants[b][j]
          /\ grants'[b][n + 1] = now
      <4>1. now \in 0..MaxTime
        BY <1>1 DEF TypeOK
      <4>2. QED
        BY <1>3, <3>1, <4>1, AppendProperties
    <3>3. CASE i = n + 1
      <4>1. Len(grants'[b]) - i + 1 = 1
        BY <1>3, <3>2, <3>3
      <4>2. Covered(b, 1, Refilled(b) - Token, now, now)
        BY <1>2, CoveredOne
      <4>3. grants'[b][i] = now /\ now <= now
        BY <1>2, <3>2, <3>3
      <4>4. QED
        BY <1>5, <3>1, <4>1, <4>2, <4>3
    <3>4. CASE i # n + 1
      <4>1. i \in 1..n
        BY <1>3, <1>6, <3>2, <3>4
      <4>2. Len(grants'[b]) - i + 1 = (n - i + 1) + 1
        BY <1>3, <3>2, <4>1
      <4>3. Covered(b, (n - i + 1) + 1, Refilled(b) - Token, grants[b][i], now)
        <5>1. /\ n - i + 1 \in Int /\ Refilled(b) \in Int /\ grants[b][i] \in Int /\ now \in Int
              /\ Covered(b, n - i + 1, Refilled(b), grants[b][i], now)
          BY <1>2, <1>4, <4>1
        <5>2. QED
          BY <5>1, CoveredGrant
      <4>4. QED
        BY <1>4, <1>5, <3>1, <3>2, <4>1, <4>2, <4>3
    <3>5. QED
      BY <3>3, <3>4
  <2>3. QED
    BY <1>5, <2>1, <2>2
<1>7. ASSUME NEW c \in Buckets, c # b, NEW i \in DOMAIN grants'[c]
      PROVE  /\ grants'[c][i] <= last'[c]
             /\ Covered(c, Len(grants'[c]) - i + 1, tokens'[c], grants'[c][i], last'[c])
  <2>1. tokens'[c] = tokens[c] /\ last'[c] = last[c] /\ grants'[c] = grants[c]
    BY <1>5, <1>7
  <2>2. QED
    BY <1>1, <1>7, <2>1 DEF Budget
<1>8. \A c \in Buckets : \A i \in DOMAIN grants'[c] :
        /\ grants'[c][i] <= last'[c]
        /\ Covered(c, Len(grants'[c]) - i + 1, tokens'[c], grants'[c][i], last'[c])
  BY <1>6, <1>7
<1>9. QED
  BY <1>8 DEF Budget, Covered, Capacity, Rate, Buckets

(* What is covered is within the limit. *)
LEMMA CoveredWithin ==
    ASSUME NEW b \in Buckets, NEW k \in Int, NEW tok \in Nat,
           NEW from \in Int, NEW to \in Int, Covered(b, k, tok, from, to)
    PROVE  k * Token <= Capacity(b) + Rate(b) * (to - from)
<1> DEFINE x == Rate(b) * (to - from)
           z == k * Token
<1>1. Rate(b) \in Int /\ Capacity(b) \in Int /\ Token \in Int
  BY ConfigFacts
<1>2. x \in Int /\ z \in Int
  BY <1>1
<1>3. z + tok <= Capacity(b) + x
  BY DEF Covered
<1> HIDE DEF x, z
<1>4. z <= Capacity(b) + x
  BY <1>1, <1>2, <1>3
<1>5. QED
  BY <1>4 DEF x, z

(* A new grant keeps the bucket within its limit, counted from any grant. *)
LEMMA IterateRate ==
    ASSUME IInv, NEW t \in Tasks, NEW b \in Buckets, Iterate(t, b), TypeOK', Budget'
    PROVE  BucketRateRespected'
<1> DEFINE Within(c, g, i, j) ==
             (j - i + 1) * Token <= Capacity(c) + Rate(c) * (g[j] - g[i])
<1>1. TypeOK /\ \A c \in Buckets : \A i, j \in DOMAIN grants[c] : i <= j => Within(c, grants[c], i, j)
  BY DEF IInv, BucketRateRespected
<1>2. \A c \in Buckets \ {b} : grants'[c] = grants[c]
  BY <1>1, IterateFacts
<1>3. CASE grants'[b] = grants[b]
  <2>1. \A c \in Buckets : grants'[c] = grants[c]
    BY <1>2, <1>3
  <2> HIDE DEF Within
  <2>2. \A c \in Buckets : \A i, j \in DOMAIN grants'[c] : i <= j => Within(c, grants'[c], i, j)
    BY <1>1, <2>1
  <2>3. QED
    BY <2>2 DEF Within, BucketRateRespected, Capacity, Rate, Buckets
<1>4. CASE grants'[b] # grants[b]
  <2> DEFINE n == Len(grants[b])
  <2>1. grants'[b] = Append(grants[b], now) /\ last'[b] = now
    BY <1>1, <1>4, IterateFacts DEF Granted, PutToSleep
  <2>2. grants[b] \in Seq(0..MaxTime) /\ now \in 0..MaxTime /\ n \in Nat /\ DOMAIN grants[b] = 1..n
    BY <1>1 DEF TypeOK
  <2>3. /\ Len(grants'[b]) = n + 1 /\ DOMAIN grants'[b] = 1..n + 1
        /\ \A j \in 1..n : grants'[b][j] = grants[b][j]
        /\ grants'[b][n + 1] = now
    BY <2>1, <2>2, AppendProperties
  <2>4. ASSUME NEW i \in DOMAIN grants'[b], NEW j \in DOMAIN grants'[b], i <= j
        PROVE  Within(b, grants'[b], i, j)
    <3>1. CASE j = n + 1
      <4>1. Covered(b, Len(grants'[b]) - i + 1, tokens'[b], grants'[b][i], last'[b])
        BY DEF Budget, Covered, Capacity, Rate, Buckets
      <4>2. grants'[b][i] \in Int /\ now \in Int /\ tokens'[b] \in Nat
        <5>1. grants'[b][i] \in 0..MaxTime /\ tokens'[b] \in Nat
          <6>1. grants'[b] \in Seq(0..MaxTime) /\ tokens'[b] \in Nat
            BY DEF TypeOK, Buckets
          <6>2. i \in 1..Len(grants'[b])
            BY <6>1
          <6>3. QED
            BY <6>1, <6>2, ElementOfSeq
        <5>2. QED
          BY <2>2, <5>1, LimiterAssumption
      <4>3. Len(grants'[b]) = j /\ last'[b] = grants'[b][j]
        BY <2>1, <2>3, <3>1
      <4>4. Covered(b, j - i + 1, tokens'[b], grants'[b][i], grants'[b][j])
        BY <4>1, <4>3
      <4>5. j - i + 1 \in Int /\ grants'[b][j] \in Int
        <5>1. i \in Int /\ j \in Int
          BY <2>2, <2>3, <2>4
        <5>2. j - i + 1 \in Int
          BY <5>1
        <5>3. grants'[b][j] = now
          BY <2>3, <3>1
        <5>4. QED
          BY <4>2, <5>2, <5>3
      <4>6. QED
        BY <4>2, <4>4, <4>5, CoveredWithin
    <3>2. CASE j # n + 1
      <4>1. i \in 1..n /\ j \in 1..n
        BY <2>2, <2>3, <2>4, <3>2
      <4>2. Within(b, grants[b], i, j)
        BY <1>1, <2>2, <2>4, <4>1
      <4>3. grants'[b][i] = grants[b][i] /\ grants'[b][j] = grants[b][j]
        BY <2>3, <4>1
      <4>4. QED
        BY <4>2, <4>3
    <3>3. QED
      BY <3>1, <3>2
  <2> HIDE DEF Within
  <2>5. \A c \in Buckets : \A i, j \in DOMAIN grants'[c] : i <= j => Within(c, grants'[c], i, j)
    BY <1>1, <1>2, <2>4
  <2>6. QED
    BY <2>5 DEF Within, BucketRateRespected, Capacity, Rate, Buckets
<1>5. QED
  BY <1>3, <1>4

(* Who sleeps is covered after another's iteration too, unless that one    *)
(* took the token.                                                         *)
LEMMA IterateSleep ==
    ASSUME IInv, NEW t \in Tasks, NEW b \in Buckets, Iterate(t, b)
    PROVE  SleepCovers'
<1>1. TypeOK /\ Clocks /\ SleepCovers
  BY DEF IInv
<1>2. /\ now' = now /\ last'[b] = now /\ (Granted(t, b) \/ PutToSleep(t, b))
      /\ \A c \in Buckets \ {b} :
            tokens'[c] = tokens[c] /\ last'[c] = last[c] /\ grants'[c] = grants[c]
      /\ \A u \in Tasks \ {t} : task'[u] = task[u]
  BY <1>1, IterateFacts
<1>3. \A c \in Buckets \ {b} : Refilled(c)' = Refilled(c)
  BY <1>2 DEF Refilled, Capacity, Rate
<1>4. Refilled(b) \in Nat /\ Refilled(b) <= Capacity(b) /\ now \in Nat
  BY <1>1, RefilledFacts
<1>5. PutToSleep(t, b) => Refilled(b)' = Refilled(b)
  BY <1>2, <1>4, JustRefilled DEF PutToSleep
<1>6. grants[b] \in Seq(0..MaxTime) /\ now \in 0..MaxTime /\ Len(grants[b]) \in Nat
  BY <1>1 DEF TypeOK
<1>7. ASSUME NEW u \in Tasks, NEW c \in Buckets, task'[u].bucket = c
      PROVE  /\ task'[u].seen <= Len(grants'[c])
             /\ task'[u].seen = Len(grants'[c])
                   => Refilled(c)' + task'[u].left >= Token
  <2>1. CASE u = t
    <3>1. PutToSleep(t, b)
      <4>1. c # 0
        BY ConfigFacts
      <4>2. QED
        BY <1>2, <1>7, <2>1, <4>1 DEF Granted, Outside
    <3>2. task'[u] = [bucket |-> b, left |-> Wait(b), seen |-> Len(grants[b])]
          /\ grants'[b] = grants[b] /\ Refilled(b)' = Refilled(b)
      BY <1>5, <2>1, <3>1 DEF PutToSleep
    <3>3. Refilled(b) + Wait(b) >= Token
      BY <1>1, <3>1, WaitFacts DEF PutToSleep
    <3>4. Len(grants[b]) <= Len(grants[b])
      BY <1>6
    <3>5. /\ c = b /\ task'[u].left = Wait(b) /\ task'[u].seen = Len(grants[b])
      BY <1>7, <3>2
    <3>6. QED
      BY <3>2, <3>3, <3>4, <3>5
  <2>2. CASE u # t
    <3>1. task'[u] = task[u] /\ task[u].seen \in Nat
      BY <1>1, <1>2, <2>2 DEF TypeOK
    <3>2. /\ task[u].seen <= Len(grants[c])
          /\ task[u].seen = Len(grants[c]) => Refilled(c) + task[u].left >= Token
      BY <1>1, <1>7, <3>1 DEF SleepCovers
    <3>3. CASE c # b
      <4>1. grants'[c] = grants[c] /\ Refilled(c)' = Refilled(c)
        BY <1>2, <1>3, <3>3
      <4>2. QED
        BY <3>1, <3>2, <4>1
    <3>4. CASE c = b /\ PutToSleep(t, b)
      <4>1. grants'[c] = grants[c] /\ Refilled(c)' = Refilled(c)
        BY <1>5, <3>4 DEF PutToSleep
      <4>2. QED
        BY <3>1, <3>2, <4>1
    <3>5. CASE c = b /\ Granted(t, b)
      <4>1. Len(grants'[c]) = Len(grants[c]) + 1
        BY <1>6, <3>5, AppendProperties DEF Granted
      <4>2. task[u].seen <= Len(grants'[c]) /\ task[u].seen # Len(grants'[c])
        BY <1>6, <3>1, <3>2, <3>5, <4>1
      <4>3. QED
        BY <3>1, <4>2
    <3>6. QED
      BY <1>2, <3>3, <3>4, <3>5
  <2>3. QED
    BY <2>1, <2>2
<1>8. QED
  BY <1>7 DEF SleepCovers, Rate, Buckets

-----------------------------------------------------------------------------
(* The other steps *)

(* A tick lets a tick's worth flow in, or the bucket is full. *)
LEMMA TickRefills ==
    ASSUME TypeOK, Clocks, NEW b \in Buckets, Tick
    PROVE  Refilled(b)' = Capacity(b) \/ Refilled(b)' = Refilled(b) + Rate(b)
<1> DEFINE flow == (now - last[b]) * Rate(b)
<1>1. Rate(b) \in Nat /\ Capacity(b) \in Nat
  BY ConfigFacts
<1>2. tokens[b] \in Nat /\ now \in Nat /\ last[b] \in Nat /\ flow \in Nat
  BY RefilledFacts
<1>3. now' = now + 1 /\ tokens' = tokens /\ last' = last
  BY DEF Tick
<1>4. (now' - last'[b]) * Rate(b) = flow + Rate(b)
  <2>1. now' - last'[b] = (now - last[b]) + 1 /\ now - last[b] \in Int
    BY <1>2, <1>3
  <2>2. ((now - last[b]) + 1) * Rate(b) = (now - last[b]) * Rate(b) + 1 * Rate(b)
    BY <1>1, <2>1, Distribute
  <2>3. QED
    BY <1>1, <2>1, <2>2
<1>5. Refilled(b) = IF tokens[b] + flow < Capacity(b) THEN tokens[b] + flow ELSE Capacity(b)
  BY DEF Refilled
<1> HIDE DEF flow
<1>6. Refilled(b)' = IF tokens[b] + (flow + Rate(b)) < Capacity(b)
                     THEN tokens[b] + (flow + Rate(b)) ELSE Capacity(b)
  BY <1>3, <1>4 DEF Refilled, Rate, Capacity
<1>7. QED
  BY <1>1, <1>2, <1>5, <1>6

(* A tick shortens the sleep by what flows in. *)
LEMMA TickPreserves ==
    ASSUME IInv, Tick
    PROVE  IInv'
<1>1. TypeOK /\ Clocks /\ Fresh /\ SleepCovers
  BY DEF IInv
<1>2. now' = now + 1 /\ UNCHANGED <<current, tokens, last, grants>>
  BY DEF Tick
<1>3. \A t \in Tasks :
        /\ task'[t].bucket = task[t].bucket /\ task'[t].seen = task[t].seen
        /\ task'[t].left = LeftAfterTick(task[t])
  BY <1>1 DEF Tick, TypeOK
<1>4. TypeOK'
  <2>1. now' \in 0..MaxTime
    BY <1>1, LimiterAssumption DEF Tick, TypeOK
  <2>2. task' \in [Tasks -> [bucket : Buckets \cup {0}, left : Nat, seen : Nat]]
    <3>1. \A t \in Tasks : task[t] \in [bucket : Buckets \cup {0}, left : Nat, seen : Nat]
      BY <1>1 DEF TypeOK
    <3>2. \A t \in Tasks : LeftAfterTick(task[t]) \in Nat
      BY <3>1, ConfigFacts DEF LeftAfterTick
    <3>3. QED
      BY <3>1, <3>2 DEF Tick
  <2>3. QED
    BY <1>1, <1>2, <2>1, <2>2 DEF TypeOK, Capacity, Buckets
<1>5. Clocks'
  <2>1. \A b \in Buckets : last[b] \in Int /\ now \in Int /\ last[b] <= now
    BY <1>1, LimiterAssumption DEF TypeOK, Clocks
  <2>2. QED
    BY <1>2, <2>1 DEF Clocks, Buckets
<1>6. Fresh'
  BY <1>1, <1>2, <1>3 DEF Fresh, Capacity, Buckets
<1>7. Budget' /\ BucketRateRespected'
  BY <1>2 DEF IInv, Budget, BucketRateRespected, Covered, Capacity, Rate, Buckets
<1>8. ASSUME NEW t \in Tasks, NEW b \in Buckets, task'[t].bucket = b
      PROVE  /\ task'[t].seen <= Len(grants'[b])
             /\ task'[t].seen = Len(grants'[b])
                   => Refilled(b)' + task'[t].left >= Token
  <2> DEFINE m == task[t].left
             R == Rate(b)
  <2>1. /\ task[t].seen <= Len(grants[b])
        /\ task[t].seen = Len(grants[b]) => Refilled(b) + m >= Token
    BY <1>1, <1>3, <1>8 DEF SleepCovers
  <2>2. m \in Nat /\ R \in Nat /\ Capacity(b) \in Nat /\ Token \in Nat /\ Token <= Capacity(b)
    BY <1>1, ConfigFacts DEF TypeOK
  <2>3. Refilled(b) \in Nat /\ (Refilled(b)' = Capacity(b) \/ Refilled(b)' = Refilled(b) + R)
    BY <1>1, RefilledFacts, TickRefills
  <2>4. Refilled(b) + m >= Token => Refilled(b)' + task'[t].left >= Token
    <3>1. b # 0
      BY ConfigFacts
    <3>2. task'[t].left = IF m <= R THEN 0 ELSE m - R
      BY <1>3, <1>8, <3>1 DEF LeftAfterTick
    <3> HIDE DEF m, R
    <3>3. QED
      BY <2>2, <2>3, <3>2
  <2>5. QED
    BY <1>2, <1>3, <1>8, <2>1, <2>4
<1>9. SleepCovers'
  BY <1>8 DEF SleepCovers, Rate, Buckets
<1>10. QED
  BY <1>4, <1>5, <1>6, <1>7, <1>9 DEF IInv

(* A new bucket is full, and nobody waits for it. *)
LEMMA SetOverridePreserves ==
    ASSUME IInv, SetOverride
    PROVE  IInv'
<1>1. TypeOK /\ Clocks /\ Fresh /\ SleepCovers /\ Budget
  BY DEF IInv
<1>2. current' = current + 1 /\ UNCHANGED <<now, tokens, task, grants>>
      /\ last' = [last EXCEPT ![current + 1] = now]
  BY DEF SetOverride
<1>3. current \in Nat /\ current + 1 \in Buckets /\ \A b \in Buckets : b \in Nat
  <2>1. current \in 1..Len(Configs) /\ Len(Configs) \in Nat /\ current < Len(Configs)
        /\ Buckets = 1..Len(Configs)
    <3>1. Buckets = 1..Len(Configs) /\ Len(Configs) \in Nat
      BY LimiterAssumption DEF Buckets
    <3>2. current \in Buckets /\ current < Len(Configs)
      BY <1>1 DEF SetOverride, TypeOK
    <3>3. QED
      BY <3>1, <3>2
  <2>2. QED
    BY <2>1
<1>4. last'[current + 1] = now /\ \A b \in Buckets \ {current + 1} : last'[b] = last[b]
  BY <1>1, <1>2, <1>3 DEF TypeOK
<1>5. TypeOK'
  BY <1>1, <1>2, <1>3 DEF TypeOK, Capacity, Buckets
<1>6. Clocks'
  <2>1. now \in Int
    BY <1>1, LimiterAssumption DEF TypeOK
  <2>2. \A b \in Buckets : last'[b] <= now
    BY <1>1, <1>4, <2>1 DEF Clocks
  <2>3. QED
    BY <1>2, <2>2 DEF Clocks, Buckets
<1>7. Fresh'
  <2>1. \A b \in Buckets : b > current + 1 => b > current
    BY <1>3
  <2>2. \A t \in Tasks : task[t].bucket \in Nat /\ task[t].bucket <= current
    <3>1. \A t \in Tasks : task[t].bucket \in Buckets \cup {0}
      BY <1>1 DEF TypeOK
    <3>2. QED
      BY <1>1, <1>3, <3>1 DEF Fresh
  <2>3. \A t \in Tasks : task[t].bucket <= current + 1
    BY <1>3, <2>2
  <2>4. QED
    BY <1>1, <1>2, <2>1, <2>3 DEF Fresh, Capacity, Buckets
<1>8. Budget'
  <2>1. grants[current + 1] = <<>>
    BY <1>1, <1>3 DEF Fresh
  <2>2. ASSUME NEW b \in Buckets, NEW i \in DOMAIN grants[b]
        PROVE  grants[b][i] <= last'[b]
               /\ Covered(b, Len(grants[b]) - i + 1, tokens[b], grants[b][i], last'[b])
    <3>1. b # current + 1
      BY <2>1, <2>2
    <3>2. last'[b] = last[b]
      BY <1>4, <3>1
    <3>3. QED
      BY <1>1, <2>2, <3>2 DEF Budget
  <2>3. QED
    BY <1>2, <2>2 DEF Budget, Covered, Capacity, Rate, Buckets
<1>9. BucketRateRespected'
  BY <1>2 DEF IInv, BucketRateRespected, Capacity, Rate, Buckets
<1>10. SleepCovers'
  <2>1. ASSUME NEW t \in Tasks, NEW b \in Buckets, task[t].bucket = b
        PROVE  Refilled(b)' = Refilled(b)
    <3>1. b <= current /\ b # current + 1
      BY <1>1, <1>3, <2>1 DEF Fresh
    <3>2. last'[b] = last[b]
      BY <1>4, <3>1
    <3>3. QED
      BY <1>2, <3>2 DEF Refilled, Capacity, Rate
  <2>2. QED
    BY <1>1, <1>2, <2>1 DEF SleepCovers, Rate, Buckets
<1>11. QED
  BY <1>5, <1>6, <1>7, <1>8, <1>9, <1>10 DEF IInv

(* Every step keeps the invariant. *)
LEMMA IInvPreserved ==
    ASSUME IInv, [Next]_vars
    PROVE  IInv'
<1>1. ASSUME NEW t \in Tasks, NEW b \in Buckets, b <= current, Iterate(t, b)
      PROVE  IInv'
  <2>1. TypeOK' /\ Clocks' /\ Fresh' /\ Budget' /\ SleepCovers'
    BY <1>1, IterateTypes, IterateFresh, IterateBudget, IterateSleep
  <2>2. BucketRateRespected'
    BY <1>1, <2>1, IterateRate
  <2>3. QED
    BY <2>1, <2>2 DEF IInv
<1>2. ASSUME NEW t \in Tasks, Acquire(t)
      PROVE  IInv'
  <2>1. current \in Buckets /\ current \in Nat /\ current <= current
    BY ConfigFacts DEF IInv, TypeOK
  <2>2. QED
    BY <1>1, <1>2, <2>1 DEF Acquire
<1>3. ASSUME NEW t \in Tasks, Wake(t)
      PROVE  IInv'
  <2>1. task[t].bucket \in Buckets /\ task[t].bucket <= current
    BY <1>3 DEF Wake, IInv, TypeOK, Fresh
  <2>2. QED
    BY <1>1, <1>3, <2>1 DEF Wake
<1>4. CASE UNCHANGED vars
  BY <1>4 DEF vars, IInv, TypeOK, Clocks, Fresh, Budget, Covered, SleepCovers, Refilled,
              BucketRateRespected, Capacity, Rate, Buckets
<1>5. QED
  BY <1>2, <1>3, <1>4, TickPreserves, SetOverridePreserves DEF Next

(* The invariant holds throughout. *)
THEOREM Invariance == Spec => []IInv
<1>1. Init => IInv
  <2> SUFFICES ASSUME Init PROVE IInv
    OBVIOUS
  <2>1. \A b \in Buckets : Capacity(b) \in Nat /\ Capacity(b) <= Capacity(b) /\ b >= 1
    BY ConfigFacts
  <2>2. 1 \in Buckets /\ 0 \in 0..MaxTime
    BY LimiterAssumption DEF Buckets
  <2>3. TypeOK
    BY <2>1, <2>2 DEF Init, TypeOK, Outside
  <2>4. Clocks /\ Fresh /\ Budget /\ BucketRateRespected
    BY DEF Init, Clocks, Fresh, Budget, BucketRateRespected, Outside
  <2>5. SleepCovers
    BY <2>1 DEF Init, SleepCovers, Outside
  <2>6. QED
    BY <2>3, <2>4, <2>5 DEF IInv
<1>2. IInv /\ [Next]_vars => IInv'
  BY IInvPreserved
<1>3. QED
  BY <1>1, <1>2, PTL DEF Spec

(* The variables keep their types: a bucket never has less than nothing,   *)
(* nor more than its capacity.                                             *)
THEOREM TypeCorrect == Spec => []TypeOK
<1>1. IInv => TypeOK
  BY DEF IInv
<1>2. QED
  BY <1>1, Invariance, PTL

(* The rate limit: in any interval a bucket grants no more than its burst  *)
(* and what flows in during the interval, for any rates, bursts, tasks and *)
(* overrides.                                                              *)
THEOREM BucketRateRespectedHolds == Spec => []BucketRateRespected
<1>1. IInv => BucketRateRespected
  BY DEF IInv
<1>2. QED
  BY <1>1, Invariance, PTL

(* A task that slept off the wait that acquire() computed finds its token, *)
(* unless another task got one from the bucket in the meantime.            *)
THEOREM SleepSufficesHolds == Spec => []SleepSuffices
<1>1. IInv => SleepSuffices
  <2> SUFFICES ASSUME IInv, NEW t \in Tasks, NEW b, b = task[t].bucket, b # 0,
                      task[t].left = 0, task[t].seen = Len(grants[b])
               PROVE  Refilled(b) >= Token
    BY DEF SleepSuffices
  <2>1. b \in Buckets
    BY DEF IInv, TypeOK
  <2>2. Refilled(b) + 0 >= Token
    BY <2>1 DEF IInv, SleepCovers
  <2>3. Refilled(b) \in Nat
    BY <2>1, RefilledFacts DEF IInv
  <2>4. QED
    BY <2>2, <2>3
<1>2. QED
  BY <1>1, Invariance, PTL

=============================================================================
