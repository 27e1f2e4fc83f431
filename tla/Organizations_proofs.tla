------------------------ MODULE Organizations_proofs ------------------------
(***************************************************************************)
(* The cache of connections is exact, for any number of databases, callers *)
(* and DataSource objects, and whatever organizations are created, rolled  *)
(* back or restarted.  As long as no subdomain changes, an organization    *)
(* that was completed stays complete and has a database of its own, and a  *)
(* creation that fails leaves nothing behind.  The pool of a DataSource    *)
(* gives each of its connections to one request at a time, and lets none   *)
(* wait while one is free.                                                 *)
(***************************************************************************)
EXTENDS Organizations, ConnectionPool, SequenceTheorems, FiniteSetTheorems, TLAPS

-----------------------------------------------------------------------------
(* The pool of one DataSource, for any number of requests and connections. *)

Phases == {"idle", "waitTx", "inTx", "waitQuery", "querying", "finishing", "failing"}

(* The connections that requests in these phases hold.                     *)
InTransaction(f) == {r \in Requests : f[r] \notin {"idle", "waitTx"}}
Querying(f)      == {r \in Requests : f[r] = "querying"}
InUse(f)         == Cardinality(InTransaction(f)) + Cardinality(Querying(f))
Takes(p) ==
    (IF p \in {"idle", "waitTx"} THEN 0 ELSE 1) + (IF p = "querying" THEN 1 ELSE 0)

Waits(p) == p \in {"waitTx", "waitQuery"}

PoolInv ==
    /\ pc \in [Requests -> Phases] /\ queue \in Seq(Requests)
    /\ \A i, j \in 1 .. Len(queue) : queue[i] = queue[j] => i = j
    /\ \A r \in Requests : Waits(pc[r]) <=> \E i \in 1 .. Len(queue) : queue[i] = r
    /\ InUse(pc) <= PoolSize
    /\ queue # <<>> => InUse(pc) = PoolSize

(* A request that moves on takes or returns connections.                   *)
LEMMA SetMoves ==
    ASSUME IsFiniteSet(Requests), NEW A \in SUBSET Requests, NEW r \in Requests
    PROVE  /\ IsFiniteSet(A) /\ Cardinality(A) \in Nat
           /\ Cardinality(A \cup {r}) = Cardinality(A) + (IF r \in A THEN 0 ELSE 1)
           /\ Cardinality(A \ {r}) = Cardinality(A) - (IF r \in A THEN 1 ELSE 0)
<1>1. IsFiniteSet(A)
  BY FS_Subset
<1>2. Cardinality(A) \in Nat
  BY <1>1, FS_CardinalityType
<1>3. Cardinality(A \cup {r}) = IF r \in A THEN Cardinality(A) ELSE Cardinality(A) + 1
  BY <1>1, FS_AddElement
<1>4. Cardinality(A \ {r}) = IF r \in A THEN Cardinality(A) - 1 ELSE Cardinality(A)
  BY <1>1, FS_RemoveElement
<1> QED BY <1>1, <1>2, <1>3, <1>4

LEMMA UseMoves ==
    ASSUME IsFiniteSet(Requests), NEW f \in [Requests -> Phases],
           NEW r \in Requests, NEW p \in Phases
    PROVE  /\ InUse(f) \in Nat
           /\ InUse([f EXCEPT ![r] = p]) = InUse(f) + Takes(p) - Takes(f[r])
<1> DEFINE g == [f EXCEPT ![r] = p]
           A == InTransaction(f)
           B == Querying(f)
<1>1. /\ A \in SUBSET Requests /\ B \in SUBSET Requests
      /\ r \in A <=> f[r] \notin {"idle", "waitTx"}
      /\ r \in B <=> f[r] = "querying"
  BY DEF InTransaction, Querying
<1>2. InTransaction(g) = IF p \in {"idle", "waitTx"} THEN A \ {r} ELSE A \cup {r}
  BY DEF InTransaction
<1>3. Querying(g) = IF p = "querying" THEN B \cup {r} ELSE B \ {r}
  BY DEF Querying
<1> HIDE DEF A, B, g
<1>4. /\ Cardinality(A) \in Nat
      /\ Cardinality(A \cup {r}) = Cardinality(A) + (IF r \in A THEN 0 ELSE 1)
      /\ Cardinality(A \ {r}) = Cardinality(A) - (IF r \in A THEN 1 ELSE 0)
  BY <1>1, SetMoves
<1>5. /\ Cardinality(B) \in Nat
      /\ Cardinality(B \cup {r}) = Cardinality(B) + (IF r \in B THEN 0 ELSE 1)
      /\ Cardinality(B \ {r}) = Cardinality(B) - (IF r \in B THEN 1 ELSE 0)
  BY <1>1, SetMoves
<1>6. Cardinality(InTransaction(g)) = Cardinality(A) + (IF p \in {"idle", "waitTx"} THEN 0 ELSE 1)
                                        - (IF r \in A THEN 1 ELSE 0)
  BY <1>2, <1>4
<1>7. Cardinality(Querying(g)) = Cardinality(B) + (IF p = "querying" THEN 1 ELSE 0)
                                   - (IF r \in B THEN 1 ELSE 0)
  BY <1>3, <1>5
<1>8. InUse(f) = Cardinality(A) + Cardinality(B)
      /\ InUse(g) = Cardinality(InTransaction(g)) + Cardinality(Querying(g))
  BY DEF InUse, A, B
<1>9. InUse(g) = InUse(f) + Takes(p) - Takes(f[r])
  BY <1>1, <1>4, <1>5, <1>6, <1>7, <1>8 DEF Takes
<1> QED BY <1>4, <1>5, <1>8, <1>9 DEF g

LEMMA PoolIs ==
    /\ Busy = InUse(pc) /\ Query = Querying(pc) /\ HoldTx = InTransaction(pc)
    /\ Full <=> InUse(pc) >= PoolSize
BY DEF Busy, HoldTx, Query, Full, InUse, InTransaction, Querying

(* Joining the queue, and leaving it from the front or from within.         *)
LEMMA LineAppend ==
    ASSUME PoolInv, NEW r \in Requests, ~Waits(pc[r])
    PROVE  LET l == Append(queue, r) IN
           /\ l \in Seq(Requests) /\ l # <<>>
           /\ \A i, j \in 1 .. Len(l) : l[i] = l[j] => i = j
           /\ \A q : (\E i \in 1 .. Len(l) : l[i] = q)
                         <=> q = r \/ (\E i \in 1 .. Len(queue) : queue[i] = q)
<1> DEFINE l == Append(queue, r)
<1>1. /\ queue \in Seq(Requests) /\ Len(queue) \in Nat
      /\ \A i \in 1 .. Len(queue) : queue[i] # r
      /\ \A i, j \in 1 .. Len(queue) : queue[i] = queue[j] => i = j
  BY LenProperties DEF PoolInv
<1>2. /\ l \in Seq(Requests) /\ Len(l) = Len(queue) + 1 /\ l[Len(queue) + 1] = r
      /\ \A i \in 1 .. Len(queue) : l[i] = queue[i]
  BY <1>1, AppendProperties
<1> HIDE DEF l
<1>3. l # <<>>
  <2>1. Len(l) # 0
    BY <1>1, <1>2
  <2>2. Len(<<>>) = 0
    BY ONLY EmptySeq
  <2> QED BY ONLY <2>1, <2>2
<1>4. \A i \in 1 .. Len(l) : i \in 1 .. Len(queue) \/ i = Len(queue) + 1
  BY <1>1, <1>2
<1>5. \A i \in 1 .. Len(queue) : i \in 1 .. Len(l)
  BY <1>1, <1>2
<1>6. Len(queue) + 1 \in 1 .. Len(l)
  BY <1>1, <1>2
<1>7. \A i, j \in 1 .. Len(l) : l[i] = l[j] => i = j
  BY <1>1, <1>2, <1>4
<1>8. ASSUME NEW q
      PROVE  (\E i \in 1 .. Len(l) : l[i] = q) <=> q = r \/ (\E i \in 1 .. Len(queue) : queue[i] = q)
  BY <1>2, <1>4, <1>5, <1>6
<1> QED BY <1>2, <1>3, <1>7, <1>8 DEF l

LEMMA LineWithout ==
    ASSUME PoolInv, NEW k \in 1 .. Len(queue), NEW l \in Seq(Requests), Len(l) = Len(queue) - 1,
           \A i \in 1 .. Len(l) : l[i] = IF i < k THEN queue[i] ELSE queue[i + 1]
    PROVE  /\ \A i, j \in 1 .. Len(l) : l[i] = l[j] => i = j
           /\ \A q : (\E i \in 1 .. Len(l) : l[i] = q)
                         <=> q # queue[k] /\ (\E i \in 1 .. Len(queue) : queue[i] = q)
<1>1. /\ Len(queue) \in Nat /\ Len(l) \in Nat /\ k \in Nat /\ k >= 1 /\ k <= Len(queue)
      /\ \A i, j \in 1 .. Len(queue) : queue[i] = queue[j] => i = j
  BY LenProperties DEF PoolInv
<1>2. ASSUME NEW i \in 1 .. Len(l)
      PROVE  /\ i \in 1 .. Len(queue) /\ i + 1 \in 1 .. Len(queue)
             /\ i < k => l[i] = queue[i]
             /\ ~(i < k) => l[i] = queue[i + 1]
  BY <1>1
<1>3. ASSUME NEW i \in 1 .. Len(l), NEW j \in 1 .. Len(l), l[i] = l[j] PROVE i = j
  <2>1. CASE i < k /\ j < k
    BY <1>1, <1>2, <1>3, <2>1
  <2>2. CASE i < k /\ ~(j < k)
    <3>1. i = j + 1
      BY <1>1, <1>2, <1>3, <2>2
    <3> QED BY <1>1, <2>2, <3>1
  <2>3. CASE ~(i < k) /\ j < k
    <3>1. i + 1 = j
      BY <1>1, <1>2, <1>3, <2>3
    <3> QED BY <1>1, <2>3, <3>1
  <2>4. CASE ~(i < k) /\ ~(j < k)
    <3>1. i + 1 = j + 1
      BY <1>1, <1>2, <1>3, <2>4
    <3> QED BY <1>1, <3>1
  <2> QED BY <2>1, <2>2, <2>3, <2>4
<1>4. ASSUME NEW i \in 1 .. Len(l)
      PROVE  l[i] # queue[k] /\ \E j \in 1 .. Len(queue) : queue[j] = l[i]
  <2>1. CASE i < k
    BY <1>1, <1>2, <2>1
  <2>2. CASE ~(i < k)
    <3>1. i + 1 # k
      BY <1>1, <2>2
    <3> QED BY <1>1, <1>2, <2>2, <3>1
  <2> QED BY <2>1, <2>2
<1>5. ASSUME NEW j \in 1 .. Len(queue), queue[j] # queue[k]
      PROVE  \E i \in 1 .. Len(l) : l[i] = queue[j]
  <2>1. CASE j < k
    <3>1. j \in 1 .. Len(l)
      BY <1>1, <2>1
    <3> QED BY <1>2, <2>1, <3>1
  <2>2. CASE j > k
    <3>1. PICK i \in Nat : i = j - 1
      BY <1>1
    <3>2. i \in 1 .. Len(l) /\ ~(i < k) /\ i + 1 = j
      BY <1>1, <2>2, <3>1
    <3>3. l[i] = queue[j]
      BY <1>2, <3>2
    <3> QED BY <3>2, <3>3
  <2>3. j # k
    BY <1>5
  <2> QED BY <1>1, <2>1, <2>2, <2>3
<1>6. ASSUME NEW q
      PROVE  (\E i \in 1 .. Len(l) : l[i] = q)
                 <=> q # queue[k] /\ (\E i \in 1 .. Len(queue) : queue[i] = q)
  <2>1. ASSUME NEW i \in 1 .. Len(l), l[i] = q
        PROVE  q # queue[k] /\ (\E j \in 1 .. Len(queue) : queue[j] = q)
    BY <1>4, <2>1
  <2>2. ASSUME NEW j \in 1 .. Len(queue), queue[j] = q, q # queue[k]
        PROVE  \E i \in 1 .. Len(l) : l[i] = q
    BY <1>5, <2>2
  <2> QED BY <2>1, <2>2
<1> QED BY ONLY <1>3, <1>6

LEMMA LineRemove ==
    ASSUME PoolInv, NEW k \in 1 .. Len(queue)
    PROVE  LET l == RemoveAt(queue, k) IN
           /\ l \in Seq(Requests) /\ Len(l) = Len(queue) - 1
           /\ \A i \in 1 .. Len(l) : l[i] = IF i < k THEN queue[i] ELSE queue[i + 1]
<1> DEFINE a == SubSeq(queue, 1, k - 1)
           b == SubSeq(queue, k + 1, Len(queue))
<1>1. queue \in Seq(Requests) /\ Len(queue) \in Nat /\ k \in Nat /\ k >= 1 /\ k <= Len(queue)
  BY LenProperties DEF PoolInv
<1>2. \A i \in 1 .. Len(queue) : queue[i] \in Requests
  BY <1>1, ElementOfSeq
<1>3. a \in Seq(Requests) /\ Len(a) = k - 1 /\ \A i \in 1 .. k - 1 : a[i] = queue[i]
  <2>1. 1 \in Int /\ k - 1 \in Int /\ \A i \in 1 .. k - 1 : queue[i] \in Requests
    BY <1>1, <1>2
  <2>2. /\ a \in Seq(Requests) /\ Len(a) = IF 1 <= k - 1 THEN (k - 1) - 1 + 1 ELSE 0
        /\ \A i \in 1 .. (k - 1) - 1 + 1 : a[i] = queue[1 + i - 1]
    BY <2>1, SubSeqProperties
  <2> HIDE DEF a
  <2>3. \A i \in 1 .. k - 1 : i \in 1 .. (k - 1) - 1 + 1 /\ 1 + i - 1 = i
    BY <1>1
  <2>4. \A i \in 1 .. k - 1 : a[i] = queue[i]
    BY <2>2, <2>3
  <2> QED BY <1>1, <2>2, <2>4
<1>4. /\ b \in Seq(Requests) /\ Len(b) = Len(queue) - k
      /\ \A i \in 1 .. Len(queue) - k : b[i] = queue[k + i]
  <2>1. k + 1 \in Int /\ Len(queue) \in Int /\ \A i \in k + 1 .. Len(queue) : queue[i] \in Requests
    BY <1>1, <1>2
  <2>2. /\ b \in Seq(Requests) /\ Len(b) = IF k + 1 <= Len(queue) THEN Len(queue) - (k + 1) + 1 ELSE 0
        /\ \A i \in 1 .. Len(queue) - (k + 1) + 1 : b[i] = queue[k + 1 + i - 1]
    BY <2>1, SubSeqProperties
  <2> HIDE DEF b
  <2>3. \A i \in 1 .. Len(queue) - k : i \in 1 .. Len(queue) - (k + 1) + 1 /\ k + 1 + i - 1 = k + i
    BY <1>1
  <2>4. \A i \in 1 .. Len(queue) - k : b[i] = queue[k + i]
    BY <2>2, <2>3
  <2> QED BY <1>1, <2>2, <2>4
<1>5. PICK l : l = a \o b
  OBVIOUS
<1>6. RemoveAt(queue, k) = l
  BY <1>5 DEF RemoveAt
<1> HIDE DEF a, b
<1>7. /\ l \in Seq(Requests) /\ Len(l) = Len(a) + Len(b)
      /\ \A i \in 1 .. Len(a) + Len(b) : l[i] = IF i <= Len(a) THEN a[i] ELSE b[i - Len(a)]
  <2>1. a \in Seq(Requests) /\ b \in Seq(Requests)
    BY <1>3, <1>4
  <2>2. /\ a \o b \in Seq(Requests) /\ Len(a \o b) = Len(a) + Len(b)
        /\ \A i \in 1 .. Len(a) + Len(b) : (a \o b)[i] = IF i <= Len(a) THEN a[i] ELSE b[i - Len(a)]
    BY ONLY <2>1, ConcatProperties
  <2> QED BY <1>5, <2>2
<1>8. ASSUME NEW i \in 1 .. Len(l) PROVE l[i] = IF i < k THEN queue[i] ELSE queue[i + 1]
  <2>1. i \in Nat /\ i >= 1 /\ i <= Len(queue) - 1 /\ i \in 1 .. Len(a) + Len(b)
    BY <1>1, <1>3, <1>4, <1>7
  <2>2. CASE i < k
    <3>1. i \in 1 .. k - 1 /\ i <= Len(a)
      BY <1>1, <1>3, <2>1, <2>2
    <3>2. l[i] = a[i] /\ a[i] = queue[i]
      BY <1>3, <1>7, <2>1, <3>1
    <3> QED BY <2>2, <3>2
  <2>3. CASE ~(i < k)
    <3>1. PICK j \in Nat : j = i - Len(a)
      BY <1>1, <1>3, <2>1, <2>3
    <3>2. j \in 1 .. Len(queue) - k /\ k + j = i + 1 /\ ~(i <= Len(a))
      BY <1>1, <1>3, <2>1, <2>3, <3>1
    <3>3. l[i] = b[j] /\ b[j] = queue[k + j]
      BY <1>4, <1>7, <2>1, <3>1, <3>2
    <3> QED BY <2>3, <3>2, <3>3
  <2> QED BY <2>2, <2>3
<1> QED BY <1>1, <1>3, <1>4, <1>6, <1>7, <1>8

(* What a step has to respect.                                             *)
LEMMA PoolStays ==
    ASSUME PoolInv, pc' \in [Requests -> Phases], queue' \in Seq(Requests),
           \A i, j \in 1 .. Len(queue') : queue'[i] = queue'[j] => i = j,
           \A q \in Requests : Waits(pc'[q]) <=> \E i \in 1 .. Len(queue') : queue'[i] = q,
           InUse(pc') <= PoolSize, queue' # <<>> => InUse(pc') = PoolSize
    PROVE  PoolInv'
<1>1. InUse(pc)' = InUse(pc')
  BY DEF InUse, InTransaction, Querying
<1> QED BY <1>1 DEF PoolInv, Waits

LEMMA Acquires ==
    ASSUME PoolInv, NEW r \in Requests, NEW waiting, Acquire(r, waiting),
           \/ pc[r] = "idle" /\ waiting = "waitTx"
           \/ pc[r] = "inTx" /\ waiting = "waitQuery"
    PROVE  PoolInv'
<1>1. /\ IsFiniteSet(Requests) /\ PoolSize \in Nat /\ pc \in [Requests -> Phases] /\ queue \in Seq(Requests)
      /\ InUse(pc) <= PoolSize /\ (queue # <<>> => InUse(pc) = PoolSize)
      /\ ~Waits(pc[r]) /\ Waits(waiting) /\ waiting \in Phases /\ Granted(waiting) \in Phases
      /\ ~Waits(Granted(waiting))
      /\ Takes(waiting) = Takes(pc[r]) /\ Takes(Granted(waiting)) = Takes(pc[r]) + 1
      /\ Takes(pc[r]) \in Nat
  BY PoolAssumption DEF PoolInv, Waits, Phases, Granted, Takes
<1>2. CASE Full
  <2>1. pc' = [pc EXCEPT ![r] = waiting] /\ queue' = Append(queue, r)
    BY <1>2 DEF Acquire
  <2>2. InUse(pc) \in Nat /\ InUse(pc') = InUse(pc) /\ InUse(pc) = PoolSize
    <3>1. InUse(pc) \in Nat /\ InUse(pc') = InUse(pc) + Takes(waiting) - Takes(pc[r])
      BY <1>1, <2>1, UseMoves
    <3>2. InUse(pc) >= PoolSize
      BY <1>2, PoolIs
    <3> QED BY <1>1, <3>1, <3>2
  <2>3. /\ queue' \in Seq(Requests) /\ queue' # <<>>
        /\ \A i, j \in 1 .. Len(queue') : queue'[i] = queue'[j] => i = j
        /\ \A q : (\E i \in 1 .. Len(queue') : queue'[i] = q)
                      <=> q = r \/ (\E i \in 1 .. Len(queue) : queue[i] = q)
    BY <1>1, <2>1, LineAppend
  <2>4. ASSUME NEW q \in Requests PROVE Waits(pc'[q]) <=> \E i \in 1 .. Len(queue') : queue'[i] = q
    <3>1. Waits(pc'[q]) <=> q = r \/ Waits(pc[q])
      BY <1>1, <2>1
    <3> QED BY <2>3, <3>1 DEF PoolInv
  <2>5. pc' \in [Requests -> Phases]
    BY <1>1, <2>1
  <2> QED BY <1>1, <2>2, <2>3, <2>4, <2>5, PoolStays
<1>3. CASE ~Full
  <2>1. pc' = [pc EXCEPT ![r] = Granted(waiting)] /\ queue' = queue
    BY <1>3 DEF Acquire
  <2>2. InUse(pc) \in Nat /\ InUse(pc') = InUse(pc) + 1 /\ ~(InUse(pc) >= PoolSize)
    <3>1. InUse(pc) \in Nat /\ InUse(pc') = InUse(pc) + Takes(Granted(waiting)) - Takes(pc[r])
      BY <1>1, <2>1, UseMoves
    <3>2. ~(InUse(pc) >= PoolSize)
      BY <1>3, PoolIs
    <3> QED BY <1>1, <3>1, <3>2
  <2>3. queue = <<>> /\ InUse(pc') <= PoolSize
    BY <1>1, <2>2
  <2>4. ASSUME NEW q \in Requests PROVE Waits(pc'[q]) <=> \E i \in 1 .. Len(queue') : queue'[i] = q
    <3>1. Waits(pc'[q]) <=> Waits(pc[q])
      BY <1>1, <2>1
    <3> QED BY <2>1, <3>1 DEF PoolInv
  <2>5. pc' \in [Requests -> Phases]
    BY <1>1, <2>1
  <2> QED BY <1>1, <2>1, <2>3, <2>4, <2>5, PoolStays DEF PoolInv
<1> QED BY <1>2, <1>3

LEMMA GivesBack ==
    ASSUME PoolInv, NEW r \in Requests, NEW next \in Phases, GiveBack(r, next),
           ~Waits(pc[r]), ~Waits(next), Takes(next) = Takes(pc[r]) - 1
    PROVE  PoolInv'
<1>1. /\ IsFiniteSet(Requests) /\ PoolSize \in Nat /\ pc \in [Requests -> Phases] /\ queue \in Seq(Requests)
      /\ InUse(pc) <= PoolSize /\ (queue # <<>> => InUse(pc) = PoolSize)
      /\ Takes(pc[r]) \in Nat
  BY PoolAssumption DEF PoolInv, Takes
<1> DEFINE g == [pc EXCEPT ![r] = next]
<1>2. InUse(pc) \in Nat /\ InUse(g) = InUse(pc) - 1 /\ g \in [Requests -> Phases]
  <2>1. InUse(pc) \in Nat /\ InUse(g) = InUse(pc) + Takes(next) - Takes(pc[r])
    BY <1>1, UseMoves
  <2> QED BY <1>1, <2>1
<1>3. CASE queue = <<>>
  <2>1. pc' = g /\ queue' = queue
    BY <1>3 DEF GiveBack
  <2>2. InUse(pc') <= PoolSize
    BY <1>1, <1>2, <2>1
  <2>3. ASSUME NEW q \in Requests PROVE Waits(pc'[q]) <=> \E i \in 1 .. Len(queue') : queue'[i] = q
    <3>1. Waits(pc'[q]) <=> Waits(pc[q])
      BY <1>1, <2>1
    <3> QED BY <2>1, <3>1 DEF PoolInv
  <2> QED BY <1>1, <1>2, <1>3, <2>1, <2>2, <2>3, PoolStays DEF PoolInv
<1>4. CASE queue # <<>>
  <2>1. PICK w : w = Head(queue)
    OBVIOUS
  <2>2. /\ Len(queue) \in Nat /\ 1 \in 1 .. Len(queue) /\ w = queue[1] /\ w \in Requests
        /\ Tail(queue) \in Seq(Requests) /\ Len(Tail(queue)) = Len(queue) - 1
        /\ \A i \in 1 .. Len(Tail(queue)) : Tail(queue)[i] = queue[i + 1]
    BY <1>1, <1>4, <2>1, HeadTailProperties, LenProperties, EmptySeq
  <2>3. Waits(pc[w]) /\ w # r
    BY <2>2 DEF PoolInv
  <2>4. PICK p \in Phases : p = Granted(pc[w])
    BY <2>3 DEF Granted, Phases
  <2>5. pc' = [g EXCEPT ![w] = p] /\ queue' = Tail(queue)
    BY <1>4, <2>1, <2>4 DEF GiveBack
  <2>6. ~Waits(p) /\ Takes(p) = Takes(pc[w]) + 1 /\ Takes(pc[w]) \in Nat /\ g[w] = pc[w]
    BY <1>1, <2>2, <2>3, <2>4 DEF Waits, Granted, Takes
  <2> HIDE DEF g
  <2>7. InUse(pc') = InUse(pc)
    <3>1. InUse(pc') = InUse(g) + Takes(p) - Takes(g[w])
      BY <1>1, <1>2, <2>2, <2>5, UseMoves
    <3> QED BY <1>2, <2>6, <3>1
  <2>8. /\ \A i, j \in 1 .. Len(queue') : queue'[i] = queue'[j] => i = j
        /\ \A q : (\E i \in 1 .. Len(queue') : queue'[i] = q)
                      <=> q # w /\ (\E i \in 1 .. Len(queue) : queue[i] = q)
    <3>1. PICK l : l = Tail(queue)
      OBVIOUS
    <3>2. l \in Seq(Requests) /\ Len(l) = Len(queue) - 1 /\ queue' = l
      BY <2>2, <2>5, <3>1
    <3>3. \A i \in 1 .. Len(l) : l[i] = IF i < 1 THEN queue[i] ELSE queue[i + 1]
      <4>1. \A i \in 1 .. Len(l) : l[i] = queue[i + 1]
        BY <2>2, <3>1
      <4>2. \A i \in 1 .. Len(l) : ~(i < 1)
        OBVIOUS
      <4> QED BY <4>1, <4>2
    <3>4. /\ \A i, j \in 1 .. Len(l) : l[i] = l[j] => i = j
          /\ \A q : (\E i \in 1 .. Len(l) : l[i] = q)
                        <=> q # queue[1] /\ (\E i \in 1 .. Len(queue) : queue[i] = q)
      <4>1. PICK k \in 1 .. Len(queue) : k = 1
        BY <2>2
      <4>2. l \in Seq(Requests) /\ Len(l) = Len(queue) - 1
        BY <3>2
      <4>3. \A i \in 1 .. Len(l) : l[i] = IF i < k THEN queue[i] ELSE queue[i + 1]
        BY <3>3, <4>1
      <4>4. /\ \A i, j \in 1 .. Len(l) : l[i] = l[j] => i = j
            /\ \A q : (\E i \in 1 .. Len(l) : l[i] = q)
                          <=> q # queue[k] /\ (\E i \in 1 .. Len(queue) : queue[i] = q)
        BY <4>2, <4>3, LineWithout
      <4> QED BY <4>1, <4>4
    <3> QED BY <2>2, <3>2, <3>4
  <2>9. ASSUME NEW q \in Requests PROVE Waits(pc'[q]) <=> \E i \in 1 .. Len(queue') : queue'[i] = q
    <3>1. Waits(pc'[q]) <=> q # w /\ Waits(pc[q])
      BY <1>1, <1>2, <2>2, <2>5, <2>6 DEF g
    <3> QED BY <2>8, <3>1 DEF PoolInv
  <2>10. pc' \in [Requests -> Phases]
    BY <1>2, <2>5
  <2> QED BY <1>1, <1>4, <2>2, <2>5, <2>7, <2>8, <2>9, <2>10, PoolStays
<1> QED BY <1>3, <1>4

LEMMA TimesOut ==
    ASSUME PoolInv, NEW r \in Requests, Timeout(r) PROVE PoolInv'
<1>1. /\ IsFiniteSet(Requests) /\ PoolSize \in Nat /\ pc \in [Requests -> Phases] /\ queue \in Seq(Requests)
      /\ InUse(pc) <= PoolSize /\ (queue # <<>> => InUse(pc) = PoolSize) /\ Len(queue) \in Nat
      /\ DOMAIN queue = 1 .. Len(queue)
  BY PoolAssumption, LenProperties DEF PoolInv
<1>2. PICK k \in 1 .. Len(queue) : queue[k] = r /\ queue' = RemoveAt(queue, k)
  BY <1>1 DEF Timeout
<1>3. Waits(pc[r])
  BY <1>2 DEF PoolInv
<1>4. PICK p \in Phases : p = IF pc[r] = "waitTx" THEN "idle" ELSE "failing"
  BY DEF Phases
<1>5. pc' = [pc EXCEPT ![r] = p] /\ ~Waits(p) /\ Takes(p) = Takes(pc[r]) /\ Takes(p) \in Nat
  BY <1>1, <1>3, <1>4 DEF Timeout, Waits, Takes
<1>6. InUse(pc') = InUse(pc)
  <2>1. InUse(pc) \in Nat /\ InUse(pc') = InUse(pc) + Takes(p) - Takes(pc[r])
    BY <1>1, <1>5, UseMoves
  <2> QED BY <1>5, <2>1
<1>7. /\ queue' \in Seq(Requests) /\ Len(queue') = Len(queue) - 1
      /\ \A i \in 1 .. Len(queue') : queue'[i] = IF i < k THEN queue[i] ELSE queue[i + 1]
  BY <1>2, LineRemove
<1>8. /\ \A i, j \in 1 .. Len(queue') : queue'[i] = queue'[j] => i = j
      /\ \A q : (\E i \in 1 .. Len(queue') : queue'[i] = q)
                    <=> q # queue[k] /\ (\E i \in 1 .. Len(queue) : queue[i] = q)
  <2>1. PICK l : l = queue'
    OBVIOUS
  <2>2. /\ l \in Seq(Requests) /\ Len(l) = Len(queue) - 1
        /\ \A i \in 1 .. Len(l) : l[i] = IF i < k THEN queue[i] ELSE queue[i + 1]
    BY <1>7, <2>1
  <2>3. /\ \A i, j \in 1 .. Len(l) : l[i] = l[j] => i = j
        /\ \A q : (\E i \in 1 .. Len(l) : l[i] = q)
                      <=> q # queue[k] /\ (\E i \in 1 .. Len(queue) : queue[i] = q)
    BY <2>2, LineWithout
  <2> QED BY <2>1, <2>3
<1>9. ASSUME NEW q \in Requests PROVE Waits(pc'[q]) <=> \E i \in 1 .. Len(queue') : queue'[i] = q
  <2>1. Waits(pc'[q]) <=> q # r /\ Waits(pc[q])
    BY <1>1, <1>5
  <2> QED BY <1>2, <1>8, <2>1 DEF PoolInv
<1>10. queue # <<>>
  BY <1>1, <1>2, EmptySeq
<1>11. pc' \in [Requests -> Phases]
  BY <1>1, <1>5
<1> QED BY <1>1, <1>6, <1>7, <1>8, <1>9, <1>10, <1>11, PoolStays

LEMMA PoolStarts == PoolInit => PoolInv
<1> SUFFICES ASSUME PoolInit PROVE PoolInv
  OBVIOUS
<1>1. PoolSize \in Nat /\ queue = <<>> /\ queue \in Seq(Requests) /\ Len(queue) = 0
  BY PoolAssumption, EmptySeq DEF PoolInit
<1>2. pc \in [Requests -> Phases] /\ \A r \in Requests : ~Waits(pc[r])
  BY DEF PoolInit, Phases, Waits
<1>3. InUse(pc) = 0
  <2>1. InTransaction(pc) = {} /\ Querying(pc) = {}
    BY DEF PoolInit, InTransaction, Querying
  <2> QED BY <2>1, FS_EmptySet DEF InUse
<1> QED BY <1>1, <1>2, <1>3 DEF PoolInv

LEMMA PoolGoesOn == PoolInv /\ [PoolNext]_poolVars => PoolInv'
<1> SUFFICES ASSUME PoolInv, [PoolNext]_poolVars PROVE PoolInv'
  OBVIOUS
<1>1. ASSUME NEW r \in Requests, transaction(r) PROVE PoolInv'
  BY <1>1, Acquires DEF transaction
<1>2. ASSUME NEW r \in Requests, QueryOutside(r) PROVE PoolInv'
  BY <1>2, Acquires DEF QueryOutside
<1>3. ASSUME NEW r \in Requests, QueryDone(r) \/ Commit(r) \/ RollBack(r) PROVE PoolInv'
  <2>1. PICK next \in {"finishing", "idle"} :
            /\ GiveBack(r, next) /\ pc[r] \in {"querying", "inTx", "finishing", "failing"}
            /\ pc[r] = "querying" <=> next = "finishing"
    BY <1>3 DEF QueryDone, Commit, RollBack
  <2>2. next \in Phases /\ ~Waits(pc[r]) /\ ~Waits(next) /\ Takes(next) = Takes(pc[r]) - 1
    BY <2>1 DEF Phases, Waits, Takes
  <2> QED BY <2>1, <2>2, GivesBack
<1>4. ASSUME NEW r \in Requests, Throw(r) PROVE PoolInv'
  <2>1. CASE pc[r] = "querying" /\ GiveBack(r, "failing")
    <3>1. "failing" \in Phases /\ ~Waits(pc[r]) /\ ~Waits("failing") /\ Takes("failing") = Takes(pc[r]) - 1
      BY <2>1 DEF Phases, Waits, Takes
    <3> QED BY <2>1, <3>1, GivesBack
  <2>2. CASE pc[r] \in {"inTx", "finishing"} /\ pc' = [pc EXCEPT ![r] = "failing"] /\ queue' = queue
    <3>1. /\ IsFiniteSet(Requests) /\ pc \in [Requests -> Phases] /\ "failing" \in Phases
          /\ ~Waits(pc[r]) /\ ~Waits("failing") /\ Takes("failing") = Takes(pc[r]) /\ Takes("failing") = 1
      BY <2>2, PoolAssumption DEF PoolInv, Phases, Waits, Takes
    <3>2. InUse(pc') = InUse(pc)
      <4>1. InUse(pc) \in Nat /\ InUse(pc') = InUse(pc) + Takes("failing") - Takes(pc[r])
        BY <2>2, <3>1, UseMoves
      <4> QED BY <3>1, <4>1
    <3>3. ASSUME NEW q \in Requests PROVE Waits(pc'[q]) <=> \E i \in 1 .. Len(queue') : queue'[i] = q
      <4>1. Waits(pc'[q]) <=> Waits(pc[q])
        BY <2>2, <3>1
      <4> QED BY <2>2, <4>1 DEF PoolInv
    <3>4. pc' \in [Requests -> Phases]
      BY <2>2, <3>1
    <3> QED BY <2>2, <3>2, <3>3, <3>4, PoolStays DEF PoolInv
  <2> QED BY <1>4, <2>1, <2>2 DEF Throw
<1>5. CASE UNCHANGED poolVars
  BY <1>5 DEF poolVars, PoolInv, InUse, InTransaction, Querying
<1> QED BY <1>1, <1>2, <1>3, <1>4, <1>5, TimesOut DEF PoolNext, Step

(* The queue is as long as there are requests that wait.                   *)
LEMMA PoolInvImplies == PoolInv => PoolCorrect
<1> SUFFICES ASSUME PoolInv PROVE PoolCorrect
  OBVIOUS
<1>1. queue \in [1 .. Len(queue) -> Requests] /\ Len(queue) \in Nat /\ DOMAIN queue = 1 .. Len(queue)
  BY LenProperties DEF PoolInv
<1>2. Queued = Waiting
  BY <1>1 DEF PoolInv, Queued, Waiting, Waits
<1>3. Len(queue) = Cardinality(Waiting)
  <2>1. queue \in Bijection(1 .. Len(queue), Waiting)
    <3>1. queue \in [1 .. Len(queue) -> Waiting]
      BY <1>1, <1>2 DEF Queued
    <3>2. \A q \in Waiting : \E i \in 1 .. Len(queue) : queue[i] = q
      BY <1>1, <1>2 DEF Queued
    <3>3. \A i, j \in 1 .. Len(queue) : queue[i] = queue[j] => i = j
      BY DEF PoolInv
    <3>4. queue \in Injection(1 .. Len(queue), Waiting)
      BY <3>1, <3>3 DEF Injection, IsInjective
    <3>5. queue \in Surjection(1 .. Len(queue), Waiting)
      BY <3>1, <3>2 DEF Surjection
    <3> QED BY <3>4, <3>5 DEF Bijection
  <2>2. ExistsBijection(1 .. Len(queue), Waiting)
    BY <2>1 DEF ExistsBijection
  <2>3. IsFiniteSet(1 .. Len(queue)) /\ Cardinality(1 .. Len(queue)) = Len(queue)
    <3>1. PICK n \in Nat : n = Len(queue)
      BY <1>1
    <3>2. IsFiniteSet(1 .. n) /\ Cardinality(1 .. n) = IF 1 > n THEN 0 ELSE n - 1 + 1
      BY SMTT(30), FS_Interval
    <3>3. (IF 1 > n THEN 0 ELSE n - 1 + 1) = n
      OBVIOUS
    <3> QED BY <3>1, <3>2, <3>3
  <2> QED BY <2>2, <2>3, FS_Bijection
<1>4. Busy = InUse(pc)
  BY PoolIs
<1>5. Blocked => Cardinality(HoldTx) = PoolSize
  <2> SUFFICES ASSUME Blocked PROVE Cardinality(HoldTx) = PoolSize
    OBVIOUS
  <2>1. Query = {}
    BY DEF Blocked, Query, HoldTx, Waiting
  <2>2. Cardinality(Query) = 0 /\ Cardinality(HoldTx) \in Nat
    <3>1. HoldTx \in SUBSET Requests
      BY DEF HoldTx
    <3>2. IsFiniteSet(HoldTx)
      BY <3>1, PoolAssumption, FS_Subset
    <3> QED BY <2>1, <3>2, FS_EmptySet, FS_CardinalityType
  <2>3. Busy = PoolSize
    BY <1>4 DEF Blocked, PoolInv
  <2> QED BY <2>2, <2>3 DEF Busy
<1> QED BY <1>2, <1>3, <1>4, <1>5 DEF PoolCorrect, PoolInv

(* A request waits only while every connection is in use, none is given    *)
(* twice or lost, and requests wait for each other only when their         *)
(* transactions alone hold every connection: createConnection and the      *)
(* handlers that query outside of their transaction, for any number of     *)
(* requests and any size of the pool.                                      *)
THEOREM PoolAlwaysCorrect == PoolSpec => []PoolCorrect
<1>1. PoolInit => PoolInv
  BY PoolStarts
<1>2. PoolInv /\ [PoolNext]_poolVars => PoolInv'
  BY PoolGoesOn
<1>3. PoolInv => PoolCorrect
  BY PoolInvImplies
<1> QED BY <1>1, <1>2, <1>3, PTL DEF PoolSpec

-----------------------------------------------------------------------------
(* The connections, and the organizations they belong to.                  *)

(* Who has which DataSource: the one being connected is the locked one of  *)
(* its database, has one creator, and is what others wait for; the one     *)
(* being closed is cached and has one caller that drops it; a database is  *)
(* locked or cached, not both.                                             *)
Types ==
    /\ connections \in [Databases -> Sources \cup {None}]
    /\ lock        \in [Databases -> Sources \cup {None}]
    /\ source      \in [Sources -> [db : Databases \cup {None}, state : States]]
    /\ call        \in [Callers -> [pc : CallPhases, db : Databases \cup {None},
                                    source : Sources \cup {None}]]

LockIsExact ==
    \A s \in Sources, d \in Databases :
        lock[d] = s <=> source[s].db = d /\ source[s].state = "connecting"

OneOwner ==
    /\ \A s \in Sources : source[s].state = "closed" => source[s] = Closed
    /\ \A s \in Sources : source[s].state # "closed" => source[s].db \in Databases
    /\ \A d \in Databases : lock[d] = None \/ connections[d] = None

Creates(c) == call[c].pc = "creating"
Ends(c)    == call[c].pc = "ending"

OneActor ==
    /\ \A c \in Callers : Creates(c) \/ call[c].pc = "waiting" =>
        call[c].db \in Databases /\ call[c].source \in Sources /\ lock[call[c].db] = call[c].source
    /\ \A c, q \in Callers : Creates(c) /\ Creates(q) /\ call[c].source = call[q].source => c = q
    /\ \A c \in Callers : Ends(c) =>
        /\ call[c].db \in Databases /\ call[c].source \in Sources
        /\ connections[call[c].db] = call[c].source
        /\ source[call[c].source].state = "ending"
    /\ \A c, q \in Callers : Ends(c) /\ Ends(q) /\ call[c].source = call[q].source => c = q
    /\ \A c \in Callers : call[c].pc = "dropping" => call[c].db \in Databases

Asked == \A c \in Callers : call[c].pc = "asked" => call[c].db \in Databases

CacheInv == Types /\ LockIsExact /\ CacheIsExact /\ OneOwner /\ OneActor /\ Asked /\ LockIsHeld

USE ConnectionsAssumption DEF Call, DataSource, Closed, NoCall, Creates, Ends

LEMMA AskPreserves ==
    ASSUME NEW c \in Callers, NEW d \in Databases, CacheInv, Ask(c, d)
    PROVE  CacheInv'
<1>1. Types'
  BY DEF Ask, CacheInv, Types, CallPhases
<1>2. LockIsExact'
  BY DEF Ask, CacheInv, LockIsExact
<1>3. CacheIsExact'
  BY DEF Ask, CacheInv, CacheIsExact
<1>4. OneOwner'
  BY DEF Ask, CacheInv, OneOwner
<1>5. OneActor'
  BY DEF Ask, CacheInv, OneActor
<1>6. Asked'
  BY DEF Ask, CacheInv, Asked
<1>7. LockIsHeld'
  BY DEF Ask, CacheInv, LockIsHeld
<1> QED BY <1>1, <1>2, <1>3, <1>4, <1>5, <1>6, <1>7 DEF CacheInv

LEMMA UseCachedPreserves ==
    ASSUME NEW c \in Callers, NEW d, call[c].pc = "asked", d = call[c].db, CacheInv, UseCached(c, d)
    PROVE  CacheInv'
<1>1. Types'
  BY DEF UseCached, CacheInv, Types, Asked, CallPhases
<1>2. LockIsExact'
  BY DEF UseCached, CacheInv, LockIsExact
<1>3. CacheIsExact'
  BY DEF UseCached, CacheInv, CacheIsExact
<1>4. OneOwner'
  BY DEF UseCached, CacheInv, OneOwner
<1>5. OneActor'
  BY DEF UseCached, CacheInv, OneActor
<1>6. Asked'
  BY DEF UseCached, CacheInv, Asked
<1>7. LockIsHeld'
  BY DEF UseCached, CacheInv, LockIsHeld
<1> QED BY <1>1, <1>2, <1>3, <1>4, <1>5, <1>6, <1>7 DEF CacheInv

LEMMA AwaitLockPreserves ==
    ASSUME NEW c \in Callers, NEW d, call[c].pc = "asked", d = call[c].db, CacheInv, AwaitLock(c, d)
    PROVE  CacheInv'
<1>1. Types'
  BY DEF AwaitLock, BeingCreated, CacheInv, Types, Asked, CallPhases
<1>2. LockIsExact'
  BY DEF AwaitLock, BeingCreated, CacheInv, LockIsExact
<1>3. CacheIsExact'
  BY DEF AwaitLock, BeingCreated, CacheInv, CacheIsExact
<1>4. OneOwner'
  BY DEF AwaitLock, BeingCreated, CacheInv, OneOwner
<1>5. OneActor'
  BY DEF AwaitLock, BeingCreated, CacheInv, Types, OneActor, Asked
<1>6. Asked'
  BY DEF AwaitLock, BeingCreated, CacheInv, Asked
<1>7. LockIsHeld'
  BY DEF AwaitLock, BeingCreated, CacheInv, LockIsHeld
<1> QED BY <1>1, <1>2, <1>3, <1>4, <1>5, <1>6, <1>7 DEF CacheInv

LEMMA CreatePreserves ==
    ASSUME NEW c \in Callers, NEW d, call[c].pc = "asked", d = call[c].db, CacheInv, createConnection(c, d)
    PROVE  CacheInv'
<1>1. Types'
  BY DEF createConnection, BeingCreated, Fresh, CacheInv, Types, Asked, States,
         CallPhases
<1>2. LockIsExact'
  BY DEF createConnection, BeingCreated, Fresh, CacheInv, Types, LockIsExact
<1>3. CacheIsExact'
  BY DEF createConnection, BeingCreated, Fresh, CacheInv, CacheIsExact
<1>4. OneOwner'
  BY DEF createConnection, BeingCreated, Fresh, CacheInv, OneOwner, Asked
<1>5. OneActor'
  BY DEF createConnection, BeingCreated, Fresh, CacheInv, Types, OneActor,
         Asked
<1>6. Asked'
  BY DEF createConnection, BeingCreated, Fresh, CacheInv, Asked
<1>7. LockIsHeld'
  BY DEF createConnection, BeingCreated, Fresh, CacheInv, Types, LockIsHeld
<1> QED BY <1>1, <1>2, <1>3, <1>4, <1>5, <1>6, <1>7 DEF CacheInv

LEMMA ConnectedPreserves ==
    ASSUME NEW c \in Callers, CacheInv, Connected(c)
    PROVE  CacheInv'
<1>1. Types'
  BY DEF Connected, Awaits, CacheInv, Types, States, CallPhases
<1>2. LockIsExact'
  BY DEF Connected, Awaits, CacheInv, Types, LockIsExact, OneActor
<1>3. CacheIsExact'
  BY DEF Connected, Awaits, CacheInv, Types, LockIsExact, CacheIsExact,
         OneOwner, OneActor
<1>4. OneOwner'
  BY DEF Connected, Awaits, CacheInv, Types, OneOwner, OneActor
<1>5. OneActor'
  BY DEF Connected, Awaits, CacheInv, LockIsExact, OneOwner, OneActor
<1>6. Asked'
  BY DEF Connected, Awaits, CacheInv, Asked
<1>7. LockIsHeld'
  BY DEF Connected, Awaits, CacheInv, Types, OneActor, LockIsHeld
<1> QED BY <1>1, <1>2, <1>3, <1>4, <1>5, <1>6, <1>7 DEF CacheInv

LEMMA NotConnectedPreserves ==
    ASSUME NEW c \in Callers, CacheInv, NotConnected(c)
    PROVE  CacheInv'
<1>1. Types'
  BY DEF NotConnected, Awaits, LockReleased, CacheInv, Types, States,
         CallPhases
<1>2. LockIsExact'
  BY DEF NotConnected, Awaits, LockReleased, CacheInv, Types, LockIsExact,
         OneActor
<1>3. CacheIsExact'
  BY DEF NotConnected, Awaits, LockReleased, CacheInv, LockIsExact,
         CacheIsExact, OneActor
<1>4. OneOwner'
  BY DEF NotConnected, Awaits, LockReleased, CacheInv, OneOwner
<1>5. OneActor'
  BY DEF NotConnected, Awaits, LockReleased, CacheInv, LockIsExact, OneActor
<1>6. Asked'
  BY DEF NotConnected, Awaits, LockReleased, CacheInv, Asked
<1>7. LockIsHeld'
  BY DEF NotConnected, Awaits, LockReleased, CacheInv, Types, OneActor,
         LockIsHeld
<1> QED BY <1>1, <1>2, <1>3, <1>4, <1>5, <1>6, <1>7 DEF CacheInv

LEMMA ReleasePreserves ==
    ASSUME NEW c \in Callers, CacheInv, Release(c)
    PROVE  CacheInv'
<1>1. Types'
  BY DEF Release, CacheInv, Types, CallPhases
<1>2. LockIsExact'
  BY DEF Release, CacheInv, LockIsExact
<1>3. CacheIsExact'
  BY DEF Release, CacheInv, CacheIsExact
<1>4. OneOwner'
  BY DEF Release, CacheInv, OneOwner
<1>5. OneActor'
  BY DEF Release, CacheInv, OneActor
<1>6. Asked'
  BY DEF Release, CacheInv, Asked
<1>7. LockIsHeld'
  BY DEF Release, CacheInv, LockIsHeld
<1> QED BY <1>1, <1>2, <1>3, <1>4, <1>5, <1>6, <1>7 DEF CacheInv

LEMMA DestroyPreserves ==
    ASSUME NEW c \in Callers, NEW d \in Databases, CacheInv, Destroy(c, d)
    PROVE  CacheInv'
<1>1. Types'
  BY DEF Destroy, CacheInv, Types, States, CallPhases
<1>2. LockIsExact'
  BY DEF Destroy, CacheInv, LockIsExact
<1>3. CacheIsExact'
  BY DEF Destroy, CacheInv, CacheIsExact
<1>4. OneOwner'
  BY DEF Destroy, CacheInv, OneOwner
<1>5. OneActor'
  BY DEF Destroy, CacheInv, Types, OneActor
<1>6. Asked'
  BY DEF Destroy, CacheInv, Asked
<1>7. LockIsHeld'
  BY DEF Destroy, CacheInv, LockIsHeld
<1> QED BY <1>1, <1>2, <1>3, <1>4, <1>5, <1>6, <1>7 DEF CacheInv

LEMMA DestroyedPreserves ==
    ASSUME NEW c \in Callers, CacheInv, Destroyed(c)
    PROVE  CacheInv'
<1>1. Types'
  BY DEF Destroyed, RemovedFromCache, CacheInv, Types, States, CallPhases
<1>2. LockIsExact'
  BY DEF Destroyed, RemovedFromCache, CacheInv, LockIsExact, OneActor
<1>3. CacheIsExact'
  BY DEF Destroyed, RemovedFromCache, CacheInv, Types, CacheIsExact, OneActor
<1>4. OneOwner'
  BY DEF Destroyed, RemovedFromCache, CacheInv, OneOwner
<1>5. OneActor'
  BY DEF Destroyed, RemovedFromCache, CacheInv, Types, OneActor
<1>6. Asked'
  BY DEF Destroyed, RemovedFromCache, CacheInv, Asked
<1>7. LockIsHeld'
  BY DEF Destroyed, RemovedFromCache, CacheInv, LockIsHeld
<1> QED BY <1>1, <1>2, <1>3, <1>4, <1>5, <1>6, <1>7 DEF CacheInv

LEMMA NothingCachedPreserves ==
    ASSUME NEW c \in Callers, NEW d \in Databases, CacheInv, NothingCached(c, d)
    PROVE  CacheInv'
<1>1. Types'
  BY DEF NothingCached, CacheInv, Types, CallPhases
<1>2. LockIsExact'
  BY DEF NothingCached, CacheInv, LockIsExact
<1>3. CacheIsExact'
  BY DEF NothingCached, CacheInv, CacheIsExact
<1>4. OneOwner'
  BY DEF NothingCached, CacheInv, OneOwner
<1>5. OneActor'
  BY DEF NothingCached, CacheInv, OneActor
<1>6. Asked'
  BY DEF NothingCached, CacheInv, Asked
<1>7. LockIsHeld'
  BY DEF NothingCached, CacheInv, LockIsHeld
<1> QED BY <1>1, <1>2, <1>3, <1>4, <1>5, <1>6, <1>7 DEF CacheInv

LEMMA DroppedPreserves ==
    ASSUME NEW c \in Callers, CacheInv, Dropped(c)
    PROVE  CacheInv'
<1>1. Types'
  BY DEF Dropped, CacheInv, Types, CallPhases
<1>2. LockIsExact'
  BY DEF Dropped, CacheInv, LockIsExact
<1>3. CacheIsExact'
  BY DEF Dropped, CacheInv, CacheIsExact
<1>4. OneOwner'
  BY DEF Dropped, CacheInv, OneOwner
<1>5. OneActor'
  BY DEF Dropped, CacheInv, OneActor
<1>6. Asked'
  BY DEF Dropped, CacheInv, Asked
<1>7. LockIsHeld'
  BY DEF Dropped, CacheInv, LockIsHeld
<1> QED BY <1>1, <1>2, <1>3, <1>4, <1>5, <1>6, <1>7 DEF CacheInv

LEMMA DropFailsPreserves ==
    ASSUME NEW c \in Callers, CacheInv, DropFails(c)
    PROVE  CacheInv'
<1>1. Types'
  BY DEF DropFails, CacheInv, Types, CallPhases
<1>2. LockIsExact'
  BY DEF DropFails, CacheInv, LockIsExact
<1>3. CacheIsExact'
  BY DEF DropFails, CacheInv, CacheIsExact
<1>4. OneOwner'
  BY DEF DropFails, CacheInv, OneOwner
<1>5. OneActor'
  BY DEF DropFails, CacheInv, OneActor
<1>6. Asked'
  BY DEF DropFails, CacheInv, Asked
<1>7. LockIsHeld'
  BY DEF DropFails, CacheInv, LockIsHeld
<1> QED BY <1>1, <1>2, <1>3, <1>4, <1>5, <1>6, <1>7 DEF CacheInv

(* What the connection manager does, for whom it does it.                  *)
LEMMA ManagerPreserves ==
    ASSUME NEW c \in Callers, CacheInv,
           getOrCreateConnection(c) \/ Connected(c) \/ NotConnected(c) \/ Release(c)
               \/ Destroyed(c) \/ Dropped(c) \/ DropFails(c)
    PROVE  CacheInv'
<1>1. CASE getOrCreateConnection(c)
  BY <1>1, UseCachedPreserves, AwaitLockPreserves, CreatePreserves DEF getOrCreateConnection
<1> QED
  BY <1>1, ConnectedPreserves, NotConnectedPreserves, ReleasePreserves,
     DestroyedPreserves, DroppedPreserves, DropFailsPreserves

LEMMA dropDatabasePreserves ==
    ASSUME NEW c \in Callers, NEW d \in Databases, CacheInv, dropDatabase(c, d)
    PROVE  CacheInv'
  BY DestroyPreserves, NothingCachedPreserves DEF dropDatabase

(* The contents of the databases do not matter to the cache.               *)
LEMMA CacheUnchanged ==
    ASSUME CacheInv, UNCHANGED <<connections, lock, source, call>>
    PROVE  CacheInv'
<1>1. (Types /\ LockIsExact /\ OneOwner /\ OneActor)'
  BY DEF CacheInv, Types, LockIsExact, OneOwner, OneActor
<1>2. (CacheIsExact /\ Asked /\ LockIsHeld)'
  BY DEF CacheInv, CacheIsExact, Asked, LockIsHeld
<1> QED BY <1>1, <1>2 DEF CacheInv

(* A server that starts has connected to nothing yet.                      *)
LEMMA EmptyCache ==
    ASSUME connections = [d \in Databases |-> None], lock = [d \in Databases |-> None],
           source = [s \in Sources |-> Closed], call = [c \in Callers |-> NoCall]
    PROVE  CacheInv
<1>1. Types /\ LockIsExact /\ OneOwner /\ OneActor
  BY DEF Types, LockIsExact, OneOwner, OneActor, States, CallPhases
<1>2. CacheIsExact /\ Asked /\ LockIsHeld
  BY DEF CacheIsExact, Asked, LockIsHeld
<1> QED BY <1>1, <1>2 DEF CacheInv

LEMMA CacheInvImplies == CacheInv => ConnectionsSound
<1> SUFFICES ASSUME CacheInv
             PROVE  OnePoolPerDatabase
  BY DEF CacheInv, ConnectionsSound
<1> SUFFICES ASSUME NEW s \in Sources, NEW t \in Sources,
                    source[s] # Closed, source[s].db = source[t].db
             PROVE  s = t
  BY DEF OnePoolPerDatabase
<1> DEFINE d == source[s].db
<1>1. d \in Databases /\ source[s].state # "closed"
  BY DEF CacheInv, OneOwner
<1>2. source[t].state # "closed"
  BY <1>1 DEF CacheInv, OneOwner
<1>3. lock[d] = s \/ connections[d] = s
  BY <1>1 DEF CacheInv, Types, States, LockIsExact, CacheIsExact
<1>4. lock[d] = t \/ connections[d] = t
  BY <1>1, <1>2 DEF CacheInv, Types, States, LockIsExact, CacheIsExact
<1> QED BY <1>1, <1>3, <1>4 DEF CacheInv, OneOwner

-----------------------------------------------------------------------------
(* In every behaviour of the connection manager the cache holds exactly    *)
(* the open pools, a database has at most one, and a lock means that       *)
(* someone is connecting.                                                  *)
THEOREM CacheCorrect == ConnSpec => []ConnectionsSound
<1>1. ConnInit => CacheInv
  BY EmptyCache DEF ConnInit
<1>2. CacheInv /\ [ConnNext]_connVars => CacheInv'
  <2> SUFFICES ASSUME CacheInv, [ConnNext]_connVars
               PROVE  CacheInv'
    OBVIOUS
  <2>1. CASE UNCHANGED connVars
    BY <2>1, CacheUnchanged DEF connVars
  <2>2. CASE \E d \in Databases : createDatabase(d) /\ UNCHANGED <<connections, lock, source, call>>
    BY <2>2, CacheUnchanged
  <2>3. CASE \E c \in Callers, d \in Databases : Ask(c, d) \/ dropDatabase(c, d)
    BY <2>3, AskPreserves, dropDatabasePreserves
  <2>4. CASE \E c \in Callers :
               getOrCreateConnection(c) \/ Connected(c) \/ NotConnected(c) \/ Release(c)
                   \/ Destroyed(c) \/ Dropped(c) \/ DropFails(c)
    BY <2>4, ManagerPreserves
  <2> QED BY <2>1, <2>2, <2>3, <2>4 DEF ConnNext
<1> QED BY <1>1, <1>2, CacheInvImplies, PTL DEF ConnSpec

-----------------------------------------------------------------------------
(* Organizations.                                                          *)

Running == Provisioners \cup {Boot}

Rows ==
    /\ database \in [Databases -> Contents]
    /\ org      \in [Orgs -> [status : {"none", "active", "deleted"},
                              subdomain : Databases \cup {None},
                              dbName : Databases \cup {None}, admin : BOOLEAN]]
    /\ saga     \in [Callers -> [pc : Steps, org : Orgs \cup {None},
                                 db : Databases \cup {None}, created : BOOLEAN]]
    /\ toBoot   \in SUBSET Orgs
    /\ ready    \in SUBSET Orgs
    /\ mishaps  \in Nat

IsRow(o) == org[o].status # "none"

(* No two organizations have one subdomain, so no two have one database.   *)
OwnDatabase ==
    /\ \A o \in Orgs : IsRow(o) =>
        org[o].dbName = org[o].subdomain /\ org[o].dbName \in Databases
    /\ \A o, p \in Orgs :
        IsRow(o) /\ IsRow(p) /\ org[o].subdomain = org[p].subdomain => o = p

(* A saga works on a row of its own, and a creation on one that is not yet *)
(* complete; the bootstrap does not roll back.                             *)
HasRow(c) ==
    /\ saga[c].pc \in {"idle", "save"} <=> saga[c].org = None
    /\ saga[c].pc \notin {"idle", "save"} =>
        IsRow(saga[c].org) /\ saga[c].db = org[saga[c].org].dbName
    /\ saga[c].pc = "save" => saga[c].db \in Databases
    /\ saga[c].created => saga[c].org # None
OwnRow ==
    /\ \A c \in Running : HasRow(c)
    /\ \A c, q \in Provisioners : saga[c].org = saga[q].org /\ saga[c].org # None => c = q
    /\ \A c \in Provisioners : saga[c].org \notin ready
    /\ saga[Boot].pc \notin {"save", "drop", "dropping", "delete"}

(* What a saga asked for is the connection of its database; what it has    *)
(* done to the database is still there.                                    *)
OwnCall ==
    \A c \in Running :
        /\ call[c].pc # "idle" => call[c].db = saga[c].db
        /\ saga[c].pc \in {"idle", "save", "database", "connect", "drop", "delete"} =>
            call[c].pc = "idle"
Done ==
    \A c \in Running :
        /\ saga[c].pc = "seed"  => HasSchema(saga[c].db)
        /\ saga[c].pc = "admin" => database[saga[c].db] = "seeded"

(* Nothing is created or deleted before the bootstrap is over.             *)
BootAlone ==
    /\ \A c \in Provisioners : saga[c].pc # "idle" => toBoot = {} /\ saga[Boot].pc = "idle"
    /\ \A o \in toBoot : IsRow(o)

SagaInv == Rows /\ OwnDatabase /\ OwnRow /\ OwnCall /\ Done /\ BootAlone /\ ReadyStaysReady

(* What an update has read of its organization is still so, as long as the *)
(* organization is there.                                                  *)
Copied(u) ==
    /\ edit[u].pc = "idle" => edit[u].org = None /\ edit[u].dbName = None
    /\ edit[u].pc # "idle" =>
        /\ edit[u].org \in Orgs /\ edit[u].dbName \in Databases
        /\ edit[u].subdomain = edit[u].dbName
        /\ IsRow(edit[u].org) => org[edit[u].org].dbName = edit[u].dbName
EditsInv ==
    /\ edit \in [requests -> [pc : {"idle", "save", "admin"}, org : Orgs \cup {None},
                             subdomain : Subdomains \cup {None},
                             dbName : Databases \cup {None}]]
    /\ \A u \in requests : Copied(u)
    /\ \A u, q \in requests : edit[u].org = edit[q].org => edit[u].dbName = edit[q].dbName

USE OrganizationsAssumption
DEF Saga, NoSaga, Organization, NoOrg, Running, HasRow, IsRow, Listening, Mishap

LEMMA createPreserves ==
    ASSUME NEW c \in Provisioners, NEW d \in Subdomains, SagaInv, CacheInv, create(c, d)
    PROVE  SagaInv'
<1>1. Rows'
  BY DEF create, connVars, Subdomains, SagaInv, Rows, Steps
<1>2. OwnDatabase'
  BY DEF create, connVars, Subdomains, SagaInv, OwnDatabase
<1>3. OwnRow'
  BY DEF create, connVars, Subdomains, SagaInv, OwnRow
<1>4. OwnCall'
  BY DEF create, connVars, Subdomains, SagaInv, OwnCall
<1>5. Done'
  BY DEF create, connVars, Subdomains, SagaInv, Done, HasSchema
<1>6. BootAlone'
  BY DEF create, connVars, Subdomains, SagaInv, BootAlone
<1>7. ReadyStaysReady'
  BY DEF create, connVars, Subdomains, SagaInv, ReadyStaysReady
<1> QED BY <1>1, <1>2, <1>3, <1>4, <1>5, <1>6, <1>7 DEF SagaInv

LEMMA SaveOrganizationPreserves ==
    ASSUME NEW c \in Provisioners, NEW o \in Orgs, SagaInv, CacheInv, SaveOrganization(c, o)
    PROVE  SagaInv'
<1>1. Rows'
  BY DEF SaveOrganization, connVars, SubdomainTaken, Row, generateDbName,
         SagaInv, Rows, Steps
<1>2. OwnDatabase'
  BY DEF SaveOrganization, connVars, SubdomainTaken, Row, generateDbName,
         SagaInv, OwnDatabase, OwnRow
<1>3. OwnRow'
  BY DEF SaveOrganization, connVars, SubdomainTaken, Row, generateDbName,
         SagaInv, Rows, OwnRow, ReadyStaysReady
<1>4. OwnCall'
  BY DEF SaveOrganization, connVars, SubdomainTaken, Row, generateDbName,
         SagaInv, OwnCall
<1>5. Done'
  BY DEF SaveOrganization, connVars, SubdomainTaken, Row, generateDbName,
         SagaInv, Done, HasSchema
<1>6. BootAlone'
  BY DEF SaveOrganization, connVars, SubdomainTaken, Row, generateDbName,
         SagaInv, BootAlone
<1>7. ReadyStaysReady'
  BY DEF SaveOrganization, connVars, SubdomainTaken, Row, generateDbName,
         SagaInv, ReadyStaysReady
<1> QED BY <1>1, <1>2, <1>3, <1>4, <1>5, <1>6, <1>7 DEF SagaInv

LEMMA DatabaseCreatedPreserves ==
    ASSUME NEW c \in Running, SagaInv, CacheInv, DatabaseCreated(c)
    PROVE  SagaInv'
<1>1. Rows'
  BY DEF DatabaseCreated, createDatabase, Exists, SagaInv, Rows, Contents,
         Steps
<1>2. OwnDatabase'
  BY DEF DatabaseCreated, createDatabase, Exists, SagaInv, OwnDatabase
<1>3. OwnRow'
  BY DEF DatabaseCreated, createDatabase, Exists, SagaInv, OwnRow
<1>4. OwnCall'
  BY DEF DatabaseCreated, createDatabase, Exists, SagaInv, OwnCall
<1>5. Done'
  BY DEF DatabaseCreated, createDatabase, Exists, SagaInv, Done, HasSchema
<1>6. BootAlone'
  BY DEF DatabaseCreated, createDatabase, Exists, SagaInv, BootAlone
<1>7. ReadyStaysReady'
  BY DEF DatabaseCreated, createDatabase, Exists, SagaInv, ReadyStaysReady
<1> QED BY <1>1, <1>2, <1>3, <1>4, <1>5, <1>6, <1>7 DEF SagaInv

LEMMA ConnectPreserves ==
    ASSUME NEW c \in Running, SagaInv, CacheInv, Connect(c)
    PROVE  SagaInv'
<1>1. Rows'
  BY DEF Connect, Ask, Advance, SagaInv, Rows, Steps
<1>2. OwnDatabase'
  BY DEF Connect, Ask, Advance, SagaInv, OwnDatabase
<1>3. OwnRow'
  BY DEF Connect, Ask, Advance, SagaInv, OwnRow
<1>4. OwnCall'
  BY DEF Connect, Ask, Advance, SagaInv, Rows, OwnCall
<1>5. Done'
  BY DEF Connect, Ask, Advance, SagaInv, Done, HasSchema
<1>6. BootAlone'
  BY DEF Connect, Ask, Advance, SagaInv, BootAlone
<1>7. ReadyStaysReady'
  BY DEF Connect, Ask, Advance, SagaInv, ReadyStaysReady
<1> QED BY <1>1, <1>2, <1>3, <1>4, <1>5, <1>6, <1>7 DEF SagaInv

LEMMA runMigrationsPreserves ==
    ASSUME NEW c \in Running, SagaInv, CacheInv, runMigrations(c)
    PROVE  SagaInv'
<1>1. Rows'
  BY DEF runMigrations, Usable, Exists, Advance, SagaInv, Rows, Contents,
         Steps
<1>2. OwnDatabase'
  BY DEF runMigrations, Usable, Exists, Advance, SagaInv, OwnDatabase
<1>3. OwnRow'
  BY DEF runMigrations, Usable, Exists, Advance, SagaInv, OwnRow
<1>4. OwnCall'
  BY DEF runMigrations, Usable, Exists, Advance, SagaInv, OwnCall
<1>5. Done'
  BY DEF runMigrations, Usable, Exists, Advance, SagaInv, Rows, OwnDatabase,
         OwnRow, OwnCall, Done, Contents, HasSchema
<1>6. BootAlone'
  BY DEF runMigrations, Usable, Exists, Advance, SagaInv, BootAlone
<1>7. ReadyStaysReady'
  BY DEF runMigrations, Usable, Exists, Advance, SagaInv, ReadyStaysReady
<1> QED BY <1>1, <1>2, <1>3, <1>4, <1>5, <1>6, <1>7 DEF SagaInv

LEMMA seedTenantRbacPreserves ==
    ASSUME NEW c \in Running, SagaInv, CacheInv, seedTenantRbac(c)
    PROVE  SagaInv'
<1>1. Rows'
  BY DEF seedTenantRbac, Usable, Advance, SagaInv, Rows, Contents, Steps
<1>2. OwnDatabase'
  BY DEF seedTenantRbac, Usable, Advance, SagaInv, OwnDatabase
<1>3. OwnRow'
  BY DEF seedTenantRbac, Usable, Advance, SagaInv, OwnRow
<1>4. OwnCall'
  BY DEF seedTenantRbac, Usable, Advance, SagaInv, OwnCall
<1>5. Done'
  BY DEF seedTenantRbac, Usable, Advance, SagaInv, Rows, OwnDatabase, OwnRow,
         Done, HasSchema
<1>6. BootAlone'
  BY DEF seedTenantRbac, Usable, Advance, SagaInv, BootAlone
<1>7. ReadyStaysReady'
  BY DEF seedTenantRbac, Usable, Advance, SagaInv, ReadyStaysReady
<1> QED BY <1>1, <1>2, <1>3, <1>4, <1>5, <1>6, <1>7 DEF SagaInv

LEMMA ensureOrgAdminExistsPreserves ==
    ASSUME NEW c \in Running, SagaInv, CacheInv, ensureOrgAdminExists(c)
    PROVE  SagaInv'
<1>1. Rows'
  BY DEF ensureOrgAdminExists, SagaInv, Rows, OwnRow, Steps
<1>2. OwnDatabase'
  BY DEF ensureOrgAdminExists, SagaInv, OwnDatabase
<1>3. OwnRow'
  BY DEF ensureOrgAdminExists, SagaInv, Rows, OwnRow, BootAlone
<1>4. OwnCall'
  BY DEF ensureOrgAdminExists, SagaInv, OwnCall, CacheInv, Types
<1>5. Done'
  BY DEF ensureOrgAdminExists, SagaInv, Done, HasSchema
<1>6. BootAlone'
  BY DEF ensureOrgAdminExists, SagaInv, BootAlone
<1>7. ReadyStaysReady'
  BY DEF ensureOrgAdminExists, SagaInv, Rows, OwnRow, Done, ReadyStaysReady,
         HasSchema
<1> QED BY <1>1, <1>2, <1>3, <1>4, <1>5, <1>6, <1>7 DEF SagaInv

LEMMA FailPreserves ==
    ASSUME NEW c \in Running, SagaInv, CacheInv, Fail(c)
    PROVE  SagaInv'
<1>1. Rows'
  BY DEF Fail, Interruptible, AfterError, SagaInv, Rows, Steps
<1>2. OwnDatabase'
  BY DEF Fail, Interruptible, AfterError, SagaInv, OwnDatabase
<1>3. OwnRow'
  BY DEF Fail, Interruptible, AfterError, SagaInv, OwnRow
<1>4. OwnCall'
  BY DEF Fail, Interruptible, AfterError, SagaInv, OwnCall, CacheInv, Types
<1>5. Done'
  BY DEF Fail, Interruptible, AfterError, SagaInv, Done, HasSchema
<1>6. BootAlone'
  BY DEF Fail, Interruptible, AfterError, SagaInv, BootAlone
<1>7. ReadyStaysReady'
  BY DEF Fail, Interruptible, AfterError, SagaInv, ReadyStaysReady
<1> QED BY <1>1, <1>2, <1>3, <1>4, <1>5, <1>6, <1>7 DEF SagaInv

LEMMA CreatedUnnoticedPreserves ==
    ASSUME NEW c \in Running, SagaInv, CacheInv, CreatedUnnoticed(c)
    PROVE  SagaInv'
<1>1. Rows'
  <2>1. /\ database' = [database EXCEPT ![saga[c].db] = "empty"] \/ database' = database
        /\ UNCHANGED <<org, toBoot, ready>> /\ mishaps' = mishaps + 1
    BY DEF CreatedUnnoticed, createDatabase
  <2>2. /\ database' \in [Databases -> Contents] /\ mishaps' \in Nat
    BY <2>1 DEF SagaInv, Rows, Contents
  <2>3. saga' \in [Callers -> [pc : Steps, org : Orgs \cup {None},
                              db : Databases \cup {None}, created : BOOLEAN]]
    BY DEF CreatedUnnoticed, SagaInv, Rows, Steps
  <2> QED BY <2>1, <2>2, <2>3 DEF SagaInv, Rows
<1>2. OwnDatabase'
  BY DEF CreatedUnnoticed, createDatabase, Exists, SagaInv, OwnDatabase
<1>3. OwnRow'
  BY DEF CreatedUnnoticed, createDatabase, Exists, SagaInv, OwnRow
<1>4. OwnCall'
  BY DEF CreatedUnnoticed, createDatabase, Exists, SagaInv, OwnCall
<1>5. Done'
  BY DEF CreatedUnnoticed, createDatabase, Exists, SagaInv, Done, HasSchema
<1>6. BootAlone'
  BY DEF CreatedUnnoticed, createDatabase, Exists, SagaInv, BootAlone
<1>7. ReadyStaysReady'
  BY DEF CreatedUnnoticed, createDatabase, Exists, SagaInv, ReadyStaysReady
<1> QED BY <1>1, <1>2, <1>3, <1>4, <1>5, <1>6, <1>7 DEF SagaInv

LEMMA StartDropPreserves ==
    ASSUME NEW c \in Provisioners, SagaInv, CacheInv, StartDrop(c)
    PROVE  SagaInv'
<1>1. Rows'
  BY DEF StartDrop, dropDatabase, Destroy, NothingCached, Advance, SagaInv,
         Rows, Steps
<1>2. OwnDatabase'
  BY DEF StartDrop, dropDatabase, Destroy, NothingCached, Advance, SagaInv,
         OwnDatabase
<1>3. OwnRow'
  BY DEF StartDrop, dropDatabase, Destroy, NothingCached, Advance, SagaInv,
         OwnRow
<1>4. OwnCall'
  BY DEF StartDrop, dropDatabase, Destroy, NothingCached, Advance, SagaInv,
         Rows, OwnCall, CacheInv, Types
<1>5. Done'
  BY DEF StartDrop, dropDatabase, Destroy, NothingCached, Advance, SagaInv,
         Done, HasSchema
<1>6. BootAlone'
  BY DEF StartDrop, dropDatabase, Destroy, NothingCached, Advance, SagaInv,
         BootAlone
<1>7. ReadyStaysReady'
  BY DEF StartDrop, dropDatabase, Destroy, NothingCached, Advance, SagaInv,
         ReadyStaysReady
<1> QED BY <1>1, <1>2, <1>3, <1>4, <1>5, <1>6, <1>7 DEF SagaInv

LEMMA EndDropPreserves ==
    ASSUME NEW c \in Provisioners, SagaInv, CacheInv, EndDrop(c)
    PROVE  SagaInv'
<1>1. Rows'
  BY DEF EndDrop, Dropped, Advance, SagaInv, Rows, Contents, Steps
<1>2. OwnDatabase'
  BY DEF EndDrop, Dropped, Advance, SagaInv, OwnDatabase
<1>3. OwnRow'
  BY DEF EndDrop, Dropped, Advance, SagaInv, OwnRow
<1>4. OwnCall'
  BY DEF EndDrop, Dropped, Advance, SagaInv, OwnCall, CacheInv, Types
<1>5. Done'
  BY DEF EndDrop, Dropped, Advance, SagaInv, Rows, OwnDatabase, OwnRow,
         OwnCall, Done, BootAlone, ReadyStaysReady, Contents, Steps, HasSchema
<1>6. BootAlone'
  BY DEF EndDrop, Dropped, Advance, SagaInv, BootAlone
<1>7. ReadyStaysReady'
  BY DEF EndDrop, Dropped, Advance, SagaInv, Rows, OwnDatabase, OwnRow,
         OwnCall, ReadyStaysReady
<1> QED BY <1>1, <1>2, <1>3, <1>4, <1>5, <1>6, <1>7 DEF SagaInv

LEMMA AbandonDropPreserves ==
    ASSUME NEW c \in Provisioners, SagaInv, CacheInv, AbandonDrop(c)
    PROVE  SagaInv'
<1>1. Rows'
  BY DEF AbandonDrop, DropFails, Advance, connVars, SagaInv, Rows, Steps
<1>2. OwnDatabase'
  BY DEF AbandonDrop, DropFails, Advance, connVars, SagaInv, OwnDatabase
<1>3. OwnRow'
  BY DEF AbandonDrop, DropFails, Advance, connVars, SagaInv, OwnRow
<1>4. OwnCall'
  BY DEF AbandonDrop, DropFails, Advance, connVars, SagaInv, OwnCall, CacheInv,
         Types
<1>5. Done'
  BY DEF AbandonDrop, DropFails, Advance, connVars, SagaInv, Done, HasSchema
<1>6. BootAlone'
  BY DEF AbandonDrop, DropFails, Advance, connVars, SagaInv, BootAlone
<1>7. ReadyStaysReady'
  BY DEF AbandonDrop, DropFails, Advance, connVars, SagaInv, ReadyStaysReady
<1> QED BY <1>1, <1>2, <1>3, <1>4, <1>5, <1>6, <1>7 DEF SagaInv

LEMMA DeleteOrganizationPreserves ==
    ASSUME NEW c \in Provisioners, SagaInv, CacheInv, DeleteOrganization(c)
    PROVE  SagaInv'
<1>1. Rows'
  BY DEF DeleteOrganization, RowDeleted, connVars, SagaInv, Rows, Steps
<1>2. OwnDatabase'
  BY DEF DeleteOrganization, RowDeleted, connVars, SagaInv, OwnDatabase
<1>3. OwnRow'
  BY DEF DeleteOrganization, RowDeleted, connVars, SagaInv, Rows, OwnRow,
         BootAlone
<1>4. OwnCall'
  BY DEF DeleteOrganization, RowDeleted, connVars, SagaInv, OwnCall
<1>5. Done'
  BY DEF DeleteOrganization, RowDeleted, connVars, SagaInv, Done, HasSchema
<1>6. BootAlone'
  BY DEF DeleteOrganization, RowDeleted, connVars, SagaInv, BootAlone
<1>7. ReadyStaysReady'
  BY DEF DeleteOrganization, RowDeleted, connVars, SagaInv, Rows,
         ReadyStaysReady
<1> QED BY <1>1, <1>2, <1>3, <1>4, <1>5, <1>6, <1>7 DEF SagaInv

LEMMA DeleteFailsPreserves ==
    ASSUME NEW c \in Provisioners, SagaInv, CacheInv, DeleteFails(c)
    PROVE  SagaInv'
<1>1. Rows'
  BY DEF DeleteFails, connVars, SagaInv, Rows, Steps
<1>2. OwnDatabase'
  BY DEF DeleteFails, connVars, SagaInv, OwnDatabase
<1>3. OwnRow'
  BY DEF DeleteFails, connVars, SagaInv, Rows, OwnRow
<1>4. OwnCall'
  BY DEF DeleteFails, connVars, SagaInv, OwnCall
<1>5. Done'
  BY DEF DeleteFails, connVars, SagaInv, Done, HasSchema
<1>6. BootAlone'
  BY DEF DeleteFails, connVars, SagaInv, BootAlone
<1>7. ReadyStaysReady'
  BY DEF DeleteFails, connVars, SagaInv, ReadyStaysReady
<1> QED BY <1>1, <1>2, <1>3, <1>4, <1>5, <1>6, <1>7 DEF SagaInv

LEMMA removePreserves ==
    ASSUME NEW o \in Orgs, SagaInv, CacheInv, remove(o)
    PROVE  SagaInv'
<1>1. Rows'
  BY DEF remove, connVars, SagaInv, Rows
<1>2. OwnDatabase'
  BY DEF remove, connVars, SagaInv, OwnDatabase
<1>3. OwnRow'
  BY DEF remove, connVars, SagaInv, OwnRow
<1>4. OwnCall'
  BY DEF remove, connVars, SagaInv, OwnCall
<1>5. Done'
  BY DEF remove, connVars, SagaInv, Done, HasSchema
<1>6. BootAlone'
  BY DEF remove, connVars, SagaInv, BootAlone
<1>7. ReadyStaysReady'
  BY DEF remove, connVars, SagaInv, ReadyStaysReady
<1> QED BY <1>1, <1>2, <1>3, <1>4, <1>5, <1>6, <1>7 DEF SagaInv

(* An update writes the row as it read it: over the row that is there, or  *)
(* as a row that comes back, with a subdomain no other has.                *)
Saved(o, d) ==
    /\ o \in Orgs /\ d \in Databases
    /\ IsRow(o) => org[o].dbName = d
    /\ org' = [org EXCEPT ![o] = org'[o]]
    /\ org'[o] = Organization("active", d, d, org[o].admin)
    /\ \A p \in Orgs \ {o} : org'[p] = org[p] /\ org[p].subdomain # d
    /\ revived' = IF org[o] = NoOrg THEN revived \cup {o} ELSE revived
    /\ UNCHANGED <<database, call, saga, toBoot, ready, mishaps>>

LEMMA SaveUpdateIs ==
    ASSUME NEW u \in requests, SagaInv, EditsInv, SaveUpdate(u)
    PROVE  Saved(edit[u].org, edit[u].dbName)
<1> DEFINE o == edit[u].org
           d == edit[u].dbName
<1>1. /\ o \in Orgs /\ d \in Databases /\ edit[u].subdomain = d
      /\ IsRow(o) => org[o].dbName = d
  BY DEF SaveUpdate, EditsInv, Copied
<1>2. /\ org' = [org EXCEPT ![o] = Organization("active", d, d, @.admin)]
      /\ \A p \in Orgs \ {o} : org[p].subdomain # d
      /\ UNCHANGED <<database, call, saga, toBoot, ready, mishaps>>
  BY <1>1 DEF SaveUpdate, connVars
<1>3. revived' = IF org[o] = NoOrg THEN revived \cup {o} ELSE revived
  BY Zenon DEF SaveUpdate
<1>4. /\ org'[o] = Organization("active", d, d, org[o].admin)
      /\ \A p \in Orgs \ {o} : org'[p] = org[p]
  BY <1>1, <1>2 DEF SagaInv, Rows
<1>5. org' = [org EXCEPT ![o] = org'[o]]
  BY <1>1, <1>2, <1>4 DEF SagaInv, Rows
<1> HIDE DEF o, d
<1>6. Saved(o, d)
  BY <1>1, <1>2, <1>3, <1>4, <1>5 DEF Saved
<1> QED BY <1>6 DEF o, d

LEMMA SaveUpdatePreserves ==
    ASSUME NEW u \in requests, SagaInv, EditsInv, SaveUpdate(u)
    PROVE  SagaInv'
<1> DEFINE o == edit[u].org
           d == edit[u].dbName
           row == Organization("active", d, d, org[o].admin)
<1>1. /\ o \in Orgs /\ d \in Databases
      /\ IsRow(o) => org[o].dbName = d
      /\ org' = [org EXCEPT ![o] = org'[o]] /\ org'[o] = row
      /\ \A p \in Orgs \ {o} : org'[p] = org[p] /\ org[p].subdomain # d
      /\ UNCHANGED <<database, call, saga, toBoot, ready, mishaps>>
  BY SaveUpdateIs DEF Saved
<1>2. row.status = "active" /\ row.subdomain = d /\ row.dbName = d /\ row.admin = org[o].admin
  OBVIOUS
<1>3. row \in [status : {"none", "active", "deleted"}, subdomain : Databases \cup {None},
              dbName : Databases \cup {None}, admin : BOOLEAN]
  BY <1>1 DEF SagaInv, Rows
<1> HIDE DEF o, d, row
<1>4. \A p \in Orgs : IsRow(p) => /\ org'[p].status # "none"
                                 /\ org'[p].dbName = org[p].dbName
                                 /\ org'[p].admin = org[p].admin
  BY <1>1, <1>2
<1>5. Rows'
  BY <1>1, <1>3 DEF SagaInv, Rows
<1>6. OwnDatabase'
  BY <1>1, <1>2 DEF SagaInv, OwnDatabase
<1>7. OwnRow'
  BY <1>1, <1>4 DEF SagaInv, OwnRow, Rows
<1>8. OwnCall' /\ Done'
  BY <1>1 DEF SagaInv, OwnCall, Done, HasSchema
<1>9. BootAlone'
  BY <1>1, <1>4 DEF SagaInv, BootAlone, Rows
<1>10. ReadyStaysReady'
  BY <1>1, <1>4 DEF SagaInv, ReadyStaysReady, Rows
<1> QED BY <1>5, <1>6, <1>7, <1>8, <1>9, <1>10 DEF SagaInv

LEMMA AdminOfUpdatePreserves ==
    ASSUME NEW u \in requests, SagaInv, EditsInv, AdminOfUpdate(u)
    PROVE  SagaInv'
<1> DEFINE o == edit[u].org
<1>1. /\ o \in Orgs
      /\ org' = [org EXCEPT ![o] = Organization(@.status, @.subdomain, @.dbName, TRUE)]
      /\ UNCHANGED <<database, call, saga, toBoot, ready, mishaps>>
  BY DEF AdminOfUpdate, EditsInv, Copied, connVars
<1>2. \A p \in Orgs : /\ org'[p].subdomain = org[p].subdomain
                      /\ org'[p].dbName = org[p].dbName
                      /\ org'[p].status = org[p].status
                      /\ org[p].admin => org'[p].admin
  BY <1>1 DEF SagaInv, Rows
<1> HIDE DEF o
<1>3. Rows'
  BY <1>1 DEF SagaInv, Rows
<1>4. OwnDatabase'
  BY <1>1, <1>2 DEF SagaInv, OwnDatabase
<1>5. OwnRow'
  BY <1>1, <1>2 DEF SagaInv, OwnRow, Rows
<1>6. OwnCall' /\ Done'
  BY <1>1 DEF SagaInv, OwnCall, Done, HasSchema
<1>7. BootAlone'
  BY <1>1, <1>2 DEF SagaInv, BootAlone, Rows
<1>8. ReadyStaysReady'
  BY <1>1, <1>2 DEF SagaInv, ReadyStaysReady, Rows
<1> QED BY <1>3, <1>4, <1>5, <1>6, <1>7, <1>8 DEF SagaInv

LEMMA restorePreserves ==
    ASSUME NEW o \in Orgs, SagaInv, CacheInv, restore(o)
    PROVE  SagaInv'
<1>1. Rows'
  BY DEF restore, connVars, SagaInv, Rows
<1>2. OwnDatabase'
  BY DEF restore, connVars, SagaInv, OwnDatabase
<1>3. OwnRow'
  BY DEF restore, connVars, SagaInv, OwnRow
<1>4. OwnCall'
  BY DEF restore, connVars, SagaInv, OwnCall
<1>5. Done'
  BY DEF restore, connVars, SagaInv, Done, HasSchema
<1>6. BootAlone'
  BY DEF restore, connVars, SagaInv, BootAlone
<1>7. ReadyStaysReady'
  BY DEF restore, connVars, SagaInv, ReadyStaysReady
<1> QED BY <1>1, <1>2, <1>3, <1>4, <1>5, <1>6, <1>7 DEF SagaInv

LEMMA TenantRequestPreserves ==
    ASSUME NEW r \in requests, NEW o \in Orgs, SagaInv, CacheInv, TenantRequest(r, o)
    PROVE  SagaInv'
<1>1. Rows'
  BY DEF TenantRequest, requests, Ask, SagaInv, Rows
<1>2. OwnDatabase'
  BY DEF TenantRequest, requests, Ask, SagaInv, OwnDatabase
<1>3. OwnRow'
  BY DEF TenantRequest, requests, Ask, SagaInv, OwnRow
<1>4. OwnCall'
  BY DEF TenantRequest, requests, Ask, SagaInv, OwnCall
<1>5. Done'
  BY DEF TenantRequest, requests, Ask, SagaInv, Done, HasSchema
<1>6. BootAlone'
  BY DEF TenantRequest, requests, Ask, SagaInv, BootAlone
<1>7. ReadyStaysReady'
  BY DEF TenantRequest, requests, Ask, SagaInv, ReadyStaysReady
<1> QED BY <1>1, <1>2, <1>3, <1>4, <1>5, <1>6, <1>7 DEF SagaInv

LEMMA CrashPreserves ==
    ASSUME SagaInv, CacheInv, Crash
    PROVE  SagaInv'
<1>1. Rows'
  BY DEF Crash, SagaInv, Rows, Steps
<1>2. OwnDatabase'
  BY DEF Crash, SagaInv, OwnDatabase
<1>3. OwnRow'
  BY DEF Crash, SagaInv, Rows, OwnRow
<1>4. OwnCall'
  BY DEF Crash, SagaInv, OwnCall
<1>5. Done'
  BY DEF Crash, SagaInv, Done
<1>6. BootAlone'
  BY DEF Crash, SagaInv, BootAlone
<1>7. ReadyStaysReady'
  BY DEF Crash, SagaInv, ReadyStaysReady
<1> QED BY <1>1, <1>2, <1>3, <1>4, <1>5, <1>6, <1>7 DEF SagaInv

LEMMA ensureOrganizationRuntimeReadyPreserves ==
    ASSUME NEW o \in Orgs, SagaInv, CacheInv, ensureOrganizationRuntimeReady(o)
    PROVE  SagaInv'
<1>1. Rows'
  BY DEF ensureOrganizationRuntimeReady, connVars, SagaInv, Rows, Steps
<1>2. OwnDatabase'
  BY DEF ensureOrganizationRuntimeReady, connVars, SagaInv, OwnDatabase
<1>3. OwnRow'
  BY DEF ensureOrganizationRuntimeReady, connVars, SagaInv, OwnRow, BootAlone
<1>4. OwnCall'
  BY DEF ensureOrganizationRuntimeReady, connVars, SagaInv, OwnCall
<1>5. Done'
  BY DEF ensureOrganizationRuntimeReady, connVars, SagaInv, Done, HasSchema
<1>6. BootAlone'
  BY DEF ensureOrganizationRuntimeReady, connVars, SagaInv, BootAlone
<1>7. ReadyStaysReady'
  BY DEF ensureOrganizationRuntimeReady, connVars, SagaInv, ReadyStaysReady
<1> QED BY <1>1, <1>2, <1>3, <1>4, <1>5, <1>6, <1>7 DEF SagaInv

(* What the connection manager does for a saga changes nothing but how far *)
(* its call has got; those that await one attempt asked for one database.  *)
LEMMA OneDatabaseAwaited ==
    ASSUME NEW c \in Callers, NEW q \in Callers, CacheInv,
           call[c].pc = "creating", Awaits(q, call[c].source)
    PROVE  call[q].db = call[c].db
  BY DEF Awaits, CacheInv, LockIsExact, OneActor, Creates

LEMMA ManagerPreservesSaga ==
    ASSUME NEW c \in Callers, SagaInv, CacheInv, Manager(c)
    PROVE  SagaInv'
<1>1. UNCHANGED <<database, org, saga, toBoot, ready, mishaps>>
  BY DEF Manager, getOrCreateConnection, UseCached, AwaitLock, createConnection, Connected,
         NotConnected, Destroyed, Release
<1>2. (Rows /\ OwnDatabase /\ OwnRow /\ Done /\ BootAlone /\ ReadyStaysReady)'
  BY <1>1 DEF SagaInv, Rows, OwnDatabase, OwnRow, Done, BootAlone, ReadyStaysReady, HasSchema
<1>3. ASSUME NEW q \in Running
      PROVE  \/ call'[q] = call[q]
             \/ call[q].pc # "idle" /\ call'[q].db = call[q].db
             \/ call[q].pc # "idle" /\ call'[q].pc = "idle"
  <2> q \in Callers
    OBVIOUS
  <2> call \in [Callers -> [pc : CallPhases, db : Databases \cup {None}, source : Sources \cup {None}]]
    BY DEF CacheInv, Types
  <2>1. CASE getOrCreateConnection(c) \/ Destroyed(c) \/ (c \in requests /\ Release(c))
    BY <2>1 DEF getOrCreateConnection, UseCached, AwaitLock, createConnection, Destroyed, Release,
                requests
  <2>2. CASE Connected(c) \/ NotConnected(c)
    BY <2>2, OneDatabaseAwaited DEF Connected, NotConnected, Awaits
  <2>3. \/ getOrCreateConnection(c) \/ Destroyed(c) \/ (c \in requests /\ Release(c))
        \/ Connected(c) \/ NotConnected(c)
    BY DEF Manager
  <2> QED BY <2>1, <2>2, <2>3
<1>4. OwnCall'
  BY <1>1, <1>3 DEF SagaInv, OwnCall
<1> QED BY <1>2, <1>4 DEF SagaInv

LEMMA UnchangedSaga ==
    ASSUME SagaInv, UNCHANGED <<database, call, org, saga, toBoot, ready, mishaps>>
    PROVE  SagaInv'
<1>1. (Rows /\ OwnDatabase /\ OwnRow)'
  BY DEF SagaInv, Rows, OwnDatabase, OwnRow
<1>2. (OwnCall /\ Done /\ BootAlone /\ ReadyStaysReady)'
  BY DEF SagaInv, OwnCall, Done, BootAlone, ReadyStaysReady, HasSchema
<1> QED BY <1>1, <1>2 DEF SagaInv

(* A saga that ends, or gives up, lets go of what it was handed.           *)
LEMMA LetGo ==
    ASSUME NEW c \in Callers, CacheInv, call[c].pc \in {"idle", "held", "failed"},
           call' = [call EXCEPT ![c] = NoCall], UNCHANGED <<connections, lock, source>>
    PROVE  CacheInv'
<1>1. Types'
  BY DEF CacheInv, Types, CallPhases
<1>2. LockIsExact' /\ OneOwner'
  BY DEF CacheInv, LockIsExact, OneOwner
<1>3. OneActor'
  BY DEF CacheInv, OneActor, Creates, Ends
<1>4. (CacheIsExact /\ Asked /\ LockIsHeld)'
  BY DEF CacheInv, CacheIsExact, Asked, LockIsHeld
<1> QED BY <1>1, <1>2, <1>3, <1>4 DEF CacheInv

LEMMA CrashEmptiesCache ==
    ASSUME Crash
    PROVE  CacheInv'
<1>1. (Types /\ LockIsExact /\ OneOwner /\ OneActor)'
  BY DEF Crash, Types, LockIsExact, OneOwner, OneActor, Creates, Ends, DataSource, Closed,
         States, CallPhases
<1>2. (CacheIsExact /\ Asked /\ LockIsHeld)'
  BY DEF Crash, CacheIsExact, Asked, LockIsHeld, DataSource, Closed
<1> QED BY <1>1, <1>2 DEF CacheInv

LEMMA NextPreservesCache ==
    ASSUME SagaInv, CacheInv, [Next]_vars
    PROVE  CacheInv'
<1>1. CASE UNCHANGED <<connections, lock, source, call>>
  BY <1>1, CacheUnchanged
<1>2. ASSUME NEW c \in Provisioners, Rollback(c)
      PROVE  CacheInv'
  <2>1. CASE StartDrop(c)
    <3>1. saga[c].db \in Databases
      BY <2>1 DEF StartDrop, SagaInv, OwnRow, OwnDatabase, Rows
    <3> QED BY <2>1, <3>1, dropDatabasePreserves DEF StartDrop
  <2>2. CASE EndDrop(c)
    BY <2>2, DroppedPreserves DEF EndDrop
  <2>3. CASE AbandonDrop(c)
    BY <2>3, <1>1, DropFailsPreserves DEF AbandonDrop, connVars
  <2>4. CASE DeleteOrganization(c) \/ DeleteFails(c)
    BY <2>4, <1>1 DEF DeleteOrganization, DeleteFails, connVars
  <2> QED BY <1>2, <2>1, <2>2, <2>3, <2>4 DEF Rollback
<1>3. ASSUME NEW c \in Running, Provision(c)
      PROVE  CacheInv'
  <2>1. CASE Connect(c)
    <3>1. saga[c].db \in Databases
      BY <2>1 DEF Connect, SagaInv, OwnRow, OwnDatabase, Rows
    <3> QED BY <2>1, <3>1, AskPreserves DEF Connect
  <2>2. CASE ensureOrgAdminExists(c) \/ Fail(c)
    BY <2>2, LetGo DEF ensureOrgAdminExists, Fail, Interruptible, Usable
  <2>3. CASE DatabaseCreated(c) \/ runMigrations(c) \/ seedTenantRbac(c) \/ CreatedUnnoticed(c)
    BY <2>3, <1>1 DEF DatabaseCreated, runMigrations, seedTenantRbac, CreatedUnnoticed
  <2> QED BY <1>3, <2>1, <2>2, <2>3 DEF Provision
<1>4. ASSUME NEW r \in requests, NEW o \in Orgs, TenantRequest(r, o)
      PROVE  CacheInv'
  <2>1. org[o].dbName \in Databases
    BY <1>4 DEF TenantRequest, SagaInv, OwnDatabase
  <2> QED BY <1>4, <2>1, AskPreserves DEF TenantRequest, requests
<1>5. ASSUME NEW c \in Callers, Manager(c)
      PROVE  CacheInv'
  BY <1>5, ManagerPreserves DEF Manager
<1>6. CASE \/ UNCHANGED vars
           \/ \E c \in Provisioners :
                (\E d \in Subdomains : create(c, d)) \/ (\E o \in Orgs : SaveOrganization(c, o))
           \/ \E o \in Orgs : remove(o) \/ restore(o) \/ ensureOrganizationRuntimeReady(o)
           \/ \E u \in requests : Updates(u)
  <2>1. UNCHANGED <<connections, lock, source, call>>
    BY <1>6 DEF vars, connVars, create, SaveOrganization, remove, restore,
                ensureOrganizationRuntimeReady, Updates, update, SaveUpdate,
                AdminOfUpdate, UpdateEnds
  <2> QED BY <2>1, <1>1
<1> QED BY <1>2, <1>3, <1>4, <1>5, <1>6, CrashEmptiesCache DEF Next, Others

LEMMA NextPreservesSaga ==
    ASSUME SagaInv, CacheInv, EditsInv, [Next]_vars
    PROVE  SagaInv'
<1>1. ASSUME NEW c \in Provisioners,
             \/ \E d \in Subdomains : create(c, d)
             \/ \E o \in Orgs : SaveOrganization(c, o)
      PROVE  SagaInv'
  BY <1>1, createPreserves, SaveOrganizationPreserves
<1>2. ASSUME NEW c \in Provisioners, Rollback(c)
      PROVE  SagaInv'
  BY <1>2, StartDropPreserves, EndDropPreserves, AbandonDropPreserves,
     DeleteOrganizationPreserves, DeleteFailsPreserves DEF Rollback
<1>3. ASSUME NEW c \in Running, Provision(c)
      PROVE  SagaInv'
  BY <1>3, DatabaseCreatedPreserves, ConnectPreserves, runMigrationsPreserves,
     seedTenantRbacPreserves, ensureOrgAdminExistsPreserves, FailPreserves,
     CreatedUnnoticedPreserves DEF Provision
<1>4. ASSUME NEW o \in Orgs,
             remove(o) \/ restore(o) \/ ensureOrganizationRuntimeReady(o)
                 \/ \E r \in requests : TenantRequest(r, o)
      PROVE  SagaInv'
  BY <1>4, removePreserves, restorePreserves, ensureOrganizationRuntimeReadyPreserves,
     TenantRequestPreserves
<1>5. ASSUME NEW u \in requests, Updates(u)
      PROVE  SagaInv'
  <2>1. ASSUME NEW o \in Orgs, NEW d \in Subdomains, update(u, o, d) PROVE SagaInv'
    BY <2>1, UnchangedSaga DEF update, connVars
  <2>2. CASE UpdateEnds(u)
    BY <2>2, UnchangedSaga DEF UpdateEnds, connVars
  <2> QED BY <1>5, <2>1, <2>2, SaveUpdatePreserves, AdminOfUpdatePreserves DEF Updates
<1>6. CASE UNCHANGED vars
  BY <1>6, UnchangedSaga DEF vars, connVars
<1> QED
  BY <1>1, <1>2, <1>3, <1>4, <1>5, <1>6, CrashPreserves, ManagerPreservesSaga DEF Next, Others

(* Whatever else happens, a row keeps its database, and no row comes back  *)
(* that an update has read: only another update brings it back, as it was. *)
LEMMA CopiesKept ==
    ASSUME EditsInv, edit' = edit,
           \A o \in Orgs : IsRow(o)' /\ (\E u \in requests : edit[u].org = o) =>
                IsRow(o) /\ org'[o].dbName = org[o].dbName
    PROVE  EditsInv'
  BY DEF EditsInv, Copied

LEMMA SaveUpdateKeepsCopies ==
    ASSUME NEW u \in requests, SagaInv, EditsInv, SaveUpdate(u)
    PROVE  EditsInv'
<1> DEFINE o == edit[u].org
           d == edit[u].dbName
<1>1. /\ o \in Orgs /\ d \in Databases
      /\ edit' = [edit EXCEPT ![u] = Edit("admin", o, d, d)]
  BY DEF SaveUpdate, EditsInv, Copied
<1>0. Saved(o, d)
  BY SaveUpdateIs
<1>2. /\ org'[o].dbName = d /\ org'[o].status = "active"
      /\ \A p \in Orgs \ {o} : org'[p] = org[p]
  <2> HIDE DEF o, d
  <2> QED BY <1>0 DEF Saved
<1>3. /\ edit'[u] = Edit("admin", o, d, d)
      /\ \A q \in requests \ {u} : edit'[q] = edit[q]
  BY <1>1 DEF EditsInv
<1>4. ASSUME NEW q \in requests PROVE Copied(q)'
  <2>1. CASE q = u
    BY <1>1, <1>2, <1>3, <2>1 DEF Copied, Edit
  <2>2. CASE q # u /\ edit[q].org # o
    BY <1>2, <1>3, <2>2 DEF Copied, EditsInv
  <2>3. CASE q # u /\ edit[q].org = o
    <3>1. edit[q].dbName = d
      BY <2>3 DEF EditsInv
    <3> QED BY <1>1, <1>2, <1>3, <2>3, <3>1 DEF Copied, EditsInv
  <2> QED BY <2>1, <2>2, <2>3
<1>5. edit' \in [requests -> [pc : {"idle", "save", "admin"}, org : Orgs \cup {None},
                             subdomain : Subdomains \cup {None},
                             dbName : Databases \cup {None}]]
  BY <1>1 DEF EditsInv, Edit, Subdomains
<1>6. ASSUME NEW p \in requests, NEW q \in requests, edit'[p].org = edit'[q].org
      PROVE  edit'[p].dbName = edit'[q].dbName
  BY <1>3, <1>6 DEF EditsInv, Edit
<1> QED BY <1>4, <1>5, <1>6 DEF EditsInv

LEMMA NewCopy ==
    ASSUME NEW u \in requests, NEW o \in Orgs, NEW d \in Subdomains, "rename" \notin Ops,
           SagaInv, EditsInv, update(u, o, d)
    PROVE  EditsInv'
<1>1. /\ edit' = [edit EXCEPT ![u] = Edit("save", o, d, org[o].dbName)]
      /\ org[o].status = "active" /\ d = org[o].subdomain /\ org' = org
  BY DEF update
<1>2. org[o].dbName = d /\ d \in Databases
  BY <1>1 DEF SagaInv, OwnDatabase
<1>3. /\ edit'[u] = Edit("save", o, d, d)
      /\ \A q \in requests \ {u} : edit'[q] = edit[q]
  BY <1>1, <1>2 DEF EditsInv
<1>4. ASSUME NEW q \in requests PROVE Copied(q)'
  <2>1. CASE q = u
    BY <1>1, <1>2, <1>3, <2>1 DEF Copied, Edit
  <2>2. CASE q # u
    BY <1>1, <1>3, <2>2 DEF Copied, EditsInv
  <2> QED BY <2>1, <2>2
<1>5. edit' \in [requests -> [pc : {"idle", "save", "admin"}, org : Orgs \cup {None},
                             subdomain : Subdomains \cup {None},
                             dbName : Databases \cup {None}]]
  BY <1>1, <1>2 DEF EditsInv, Edit, Subdomains
<1>6. ASSUME NEW q \in requests, edit[q].org = o PROVE edit[q].dbName = d
  <2>1. edit[q].pc # "idle"
    BY <1>6 DEF EditsInv, Copied
  <2> QED BY <1>1, <1>2, <1>6, <2>1 DEF EditsInv, Copied
<1>7. ASSUME NEW p \in requests, NEW q \in requests, edit'[p].org = edit'[q].org
      PROVE  edit'[p].dbName = edit'[q].dbName
  BY <1>3, <1>6, <1>7 DEF EditsInv, Edit
<1> QED BY <1>4, <1>5, <1>7 DEF EditsInv

LEMMA UpdateOver ==
    ASSUME NEW u \in requests, EditsInv, edit' = [edit EXCEPT ![u] = NoEdit],
           \A o \in Orgs : org'[o].status = org[o].status /\ org'[o].dbName = org[o].dbName
    PROVE  EditsInv'
<1>1. /\ edit'[u] = NoEdit
      /\ \A q \in requests \ {u} : edit'[q] = edit[q]
  BY DEF EditsInv
<1>2. ASSUME NEW q \in requests PROVE Copied(q)'
  <2>1. CASE q = u
    BY <1>1, <2>1 DEF Copied, Edit, NoEdit
  <2>2. CASE q # u
    BY <1>1, <2>2 DEF Copied, EditsInv
  <2> QED BY <2>1, <2>2
<1>3. edit' \in [requests -> [pc : {"idle", "save", "admin"}, org : Orgs \cup {None},
                             subdomain : Subdomains \cup {None},
                             dbName : Databases \cup {None}]]
  BY DEF EditsInv, Edit, NoEdit
<1>4. \A q \in requests : edit[q].org = None => edit[q].dbName = None
  BY DEF EditsInv, Copied
<1>5. ASSUME NEW p \in requests, NEW q \in requests, edit'[p].org = edit'[q].org
      PROVE  edit'[p].dbName = edit'[q].dbName
  BY <1>1, <1>4, <1>5 DEF EditsInv, Edit, NoEdit
<1> QED BY <1>2, <1>3, <1>5 DEF EditsInv

LEMMA NextPreservesEdits ==
    ASSUME "rename" \notin Ops, SagaInv, EditsInv, [Next]_vars
    PROVE  EditsInv'
<1>1. CASE \E u \in requests : Updates(u)
  <2> SUFFICES ASSUME NEW u \in requests, Updates(u) PROVE EditsInv'
    BY <1>1
  <2>1. CASE \E o \in Orgs, d \in Subdomains : update(u, o, d)
    BY <2>1, NewCopy
  <2>2. CASE SaveUpdate(u)
    BY <2>2, SaveUpdateKeepsCopies
  <2>3. CASE AdminOfUpdate(u)
    <3>1. /\ edit' = [edit EXCEPT ![u] = NoEdit] /\ edit[u].org \in Orgs
          /\ org' = [org EXCEPT ![edit[u].org] =
                        Organization(@.status, @.subdomain, @.dbName, TRUE)]
      BY <2>3 DEF AdminOfUpdate, EditsInv, Copied
    <3>2. \A o \in Orgs : org'[o].status = org[o].status /\ org'[o].dbName = org[o].dbName
      BY <3>1 DEF SagaInv, Rows
    <3> QED BY <3>1, <3>2, UpdateOver
  <2>4. CASE UpdateEnds(u)
    BY <2>4, UpdateOver DEF UpdateEnds
  <2> QED BY <2>1, <2>2, <2>3, <2>4 DEF Updates
<1>2. CASE Crash
  BY <1>2 DEF Crash, EditsInv, Copied, Edit, NoEdit
<1>3. CASE UNCHANGED <<edit, org>>
  BY <1>3, CopiesKept
<1>4. CASE Others /\ edit' = edit
  <2>1. ASSUME NEW c \in Provisioners, NEW o \in Orgs, SaveOrganization(c, o)
        PROVE  EditsInv'
    <3>1. /\ \A u \in requests : edit[u].org # o
          /\ \A p \in Orgs \ {o} : org'[p] = org[p]
      BY <2>1 DEF SaveOrganization, SagaInv, Rows
    <3> QED BY <1>4, <3>1, CopiesKept
  <2>2. ASSUME NEW c \in Provisioners, DeleteOrganization(c)
        PROVE  EditsInv'
    <3>1. \A p \in Orgs : org'[p].status # "none" => org'[p] = org[p]
      BY <2>2 DEF DeleteOrganization, RowDeleted
    <3> QED BY <1>4, <3>1, CopiesKept
  <2>3. ASSUME NEW o \in Orgs, org[o].status # "none", NEW a,
               NEW status \in {"active", "deleted"},
               org' = [org EXCEPT ![o] = Organization(status, @.subdomain, @.dbName, a)]
        PROVE  EditsInv'
    <3>1. \A p \in Orgs : org'[p].status # "none" =>
            org[p].status # "none" /\ org'[p].dbName = org[p].dbName
      BY <2>3 DEF SagaInv, Rows
    <3> QED BY <1>4, <3>1, CopiesKept
  <2>4. ASSUME NEW c \in Running, ensureOrgAdminExists(c)
        PROVE  EditsInv'
    <3>1. saga[c].org \in Orgs /\ org[saga[c].org].status \in {"active", "deleted"}
      BY <2>4 DEF ensureOrgAdminExists, SagaInv, OwnRow, Rows
    <3>2. org' = [org EXCEPT ![saga[c].org] =
                    Organization(org[saga[c].org].status, @.subdomain, @.dbName, TRUE)]
      BY <2>4, <3>1 DEF ensureOrgAdminExists, SagaInv, Rows
    <3> QED BY <2>3, <3>1, <3>2
  <2>5. ASSUME NEW o \in Orgs, remove(o) \/ restore(o)
        PROVE  EditsInv'
    <3>1. PICK status \in {"active", "deleted"} :
             org' = [org EXCEPT ![o] = Organization(status, @.subdomain, @.dbName, org[o].admin)]
      BY <2>5 DEF remove, restore, SagaInv, Rows
    <3>2. org[o].status # "none"
      BY <2>5 DEF remove, restore
    <3> QED BY <2>3, <3>1, <3>2
  <2>6. ASSUME NEW c \in Running,
               \/ DatabaseCreated(c) \/ Connect(c) \/ runMigrations(c) \/ seedTenantRbac(c)
               \/ Fail(c) \/ CreatedUnnoticed(c)
        PROVE  EditsInv'
    <3>1. org' = org
      BY <2>6 DEF DatabaseCreated, Connect, runMigrations, seedTenantRbac, Fail, CreatedUnnoticed
    <3> QED BY <1>4, <3>1, <1>3
  <2>7. ASSUME NEW c \in Provisioners,
               \/ StartDrop(c) \/ EndDrop(c) \/ AbandonDrop(c) \/ DeleteFails(c)
               \/ \E d \in Subdomains : create(c, d)
        PROVE  EditsInv'
    <3>1. org' = org
      BY <2>7 DEF StartDrop, EndDrop, AbandonDrop, DeleteFails, create
    <3> QED BY <1>4, <3>1, <1>3
  <2>8. ASSUME NEW o \in Orgs, \/ ensureOrganizationRuntimeReady(o)
                               \/ \E r \in requests : TenantRequest(r, o)
        PROVE  EditsInv'
    BY <1>3, <1>4, <2>8 DEF ensureOrganizationRuntimeReady, TenantRequest
  <2>9. ASSUME NEW c \in Callers, Manager(c)
        PROVE  EditsInv'
    BY <1>3, <1>4, <2>9 DEF Manager
  <2> QED
    BY <1>4, <2>1, <2>2, <2>4, <2>5, <2>6, <2>7, <2>8, <2>9 DEF Others, Provision, Rollback
<1> QED BY <1>1, <1>2, <1>3, <1>4 DEF Next, vars, editVars

LEMMA InitSaga == Init => SagaInv /\ CacheInv /\ EditsInv
<1> SUFFICES ASSUME Init
             PROVE  SagaInv /\ CacheInv /\ EditsInv
  OBVIOUS
<1>1. CacheInv
  BY EmptyCache DEF Init, ConnInit
<1>2. Rows /\ OwnDatabase /\ OwnRow
  BY DEF Init, ConnInit, Rows, OwnDatabase, OwnRow, Contents, Steps
<1>3. OwnCall /\ Done /\ BootAlone /\ ReadyStaysReady
  BY DEF Init, ConnInit, OwnCall, Done, BootAlone, ReadyStaysReady
<1>4. EditsInv
  BY DEF Init, EditsInv, Copied, Edit, NoEdit
<1> QED BY <1>1, <1>2, <1>3, <1>4 DEF SagaInv

-----------------------------------------------------------------------------
(* As long as the server has not stopped and no rollback has failed: every *)
(* row is complete or on its way, every database is that of a row, and a   *)
(* creation that has made no database yet, or has dropped it, has none.    *)
Making(o) == \E c \in Provisioners : saga[c].org = o

Clean ==
    /\ toBoot = {} /\ saga[Boot] = NoSaga
    /\ \A o \in Orgs : org[o].status = "none" => org[o] = NoOrg
    /\ \A o \in Orgs : org[o] # NoOrg => o \in ready \/ o \in revived \/ Making(o)
    /\ \A d \in Databases : Exists(d) => \E o \in Orgs : IsRow(o) /\ org[o].dbName = d
    /\ \A c \in Provisioners :
        /\ saga[c].pc \in {"database", "delete"} => ~Exists(saga[c].db)
        /\ saga[c].pc \in {"connect", "connecting", "seed", "admin", "drop"} => saga[c].created

CleanInv == mishaps = 0 => Clean

(* Two creations under way are of different databases.                     *)
LEMMA OwnNames ==
    ASSUME SagaInv, NEW c \in Provisioners, NEW q \in Provisioners, c # q,
           saga[c].pc \notin {"idle", "save"}, saga[q].pc \notin {"idle", "save"}
    PROVE  /\ saga[c].org \in Orgs /\ saga[q].org \in Orgs /\ saga[c].org # saga[q].org
           /\ saga[c].db \in Databases /\ saga[c].db # saga[q].db
  BY DEF SagaInv, OwnRow, OwnDatabase, Rows

(* The rows, the databases and the creations stay as they are.             *)
LEMMA StaysClean ==
    ASSUME Clean, UNCHANGED <<org, saga, toBoot, ready, revived>>,
           \A d \in Databases : Exists(d)' <=> Exists(d),
           \A c \in Provisioners : saga[c].pc \in {"database", "delete"} => saga[c].db \in Databases
    PROVE  Clean'
  BY DEF Clean, Making

LEMMA DatabaseOfRow ==
    ASSUME SagaInv, NEW c \in Provisioners
    PROVE  saga[c].pc \notin {"idle", "save"} =>
             /\ saga[c].org \in Orgs /\ saga[c].db \in Databases
             /\ IsRow(saga[c].org) /\ saga[c].db = org[saga[c].org].dbName
  BY DEF SagaInv, OwnRow, OwnDatabase, Rows

LEMMA CreatingStaysClean ==
    ASSUME SagaInv, Clean, NEW c \in Provisioners,
           \/ \E d \in Subdomains : create(c, d)
           \/ \E o \in Orgs : SaveOrganization(c, o),
           revived' = revived
    PROVE  Clean'
<1>1. ASSUME NEW d \in Subdomains, create(c, d) PROVE Clean'
  <2>1. c # Boot /\ UNCHANGED <<database, org, toBoot, ready>> /\ saga[c] = NoSaga
    BY <1>1 DEF create, connVars
  <2>2. /\ saga'[c].pc = "save" /\ saga'[c].org = None
        /\ \A q \in Callers \ {c} : saga'[q] = saga[q]
    BY <1>1 DEF create, SagaInv, Rows
  <2>3. \A o \in Orgs : Making(o) => Making(o)'
    BY <2>1, <2>2 DEF Making
  <2>4. /\ (toBoot = {} /\ saga[Boot] = NoSaga)'
        /\ (\A o \in Orgs : org[o].status = "none" => org[o] = NoOrg)'
        /\ (\A o \in Orgs : org[o] # NoOrg => o \in ready \/ o \in revived \/ Making(o))'
        /\ (\A e \in Databases : Exists(e) => \E o \in Orgs : IsRow(o) /\ org[o].dbName = e)'
    BY <2>1, <2>2, <2>3 DEF Clean, Exists
  <2>5. ASSUME NEW q \in Provisioners
        PROVE  /\ (saga[q].pc \in {"database", "delete"} => ~Exists(saga[q].db))'
               /\ (saga[q].pc \in {"connect", "connecting", "seed", "admin", "drop"} =>
                     saga[q].created)'
    BY <2>1, <2>2 DEF Clean, Exists
  <2> QED BY <2>4, <2>5 DEF Clean
<1>2. ASSUME NEW o \in Orgs, SaveOrganization(c, o) PROVE Clean'
  <2> DEFINE d == saga[c].db
  <2>1. /\ saga[c].pc = "save" /\ org[o] = NoOrg /\ ~SubdomainTaken(d)
        /\ org' = [org EXCEPT ![o] = Row(d)] /\ UNCHANGED <<database, toBoot, ready>>
        /\ saga' = [saga EXCEPT ![c] = Saga("database", o, d, FALSE)]
    BY <1>2 DEF SaveOrganization, connVars, generateDbName
  <2>2. d \in Databases
    BY <2>1 DEF SagaInv, OwnRow
  <2>3. ~Exists(d)
    <3> SUFFICES ASSUME Exists(d) PROVE FALSE
      OBVIOUS
    <3>1. PICK p \in Orgs : IsRow(p) /\ org[p].dbName = d
      BY <2>2 DEF Clean
    <3> QED BY <2>1, <3>1 DEF SagaInv, OwnDatabase, SubdomainTaken
  <2>4. /\ org'[o].status = "active" /\ org'[o].dbName = d /\ org'[o] # NoOrg
        /\ \A p \in Orgs \ {o} : org'[p] = org[p]
    BY <2>1 DEF SagaInv, Rows, Row, generateDbName
  <2>5. /\ saga'[c].org = o /\ saga'[c].pc = "database" /\ saga'[c].db = d
        /\ \A q \in Callers \ {c} : saga'[q] = saga[q]
    BY <2>1 DEF SagaInv, Rows
  <2>6. (\A p \in Orgs : org[p] # NoOrg => p \in ready \/ p \in revived \/ Making(p))'
    <3> SUFFICES ASSUME NEW p \in Orgs, org'[p] # NoOrg PROVE p \in ready \/ p \in revived \/ Making(p)'
      BY <2>1
    <3>1. CASE p = o
      BY <2>5, <3>1 DEF Making
    <3>2. CASE p # o
      <4>1. p \in ready \/ p \in revived \/ Making(p)
        BY <2>4, <3>2 DEF Clean
      <4>2. saga[c].org = None
        BY <2>1 DEF SagaInv, OwnRow
      <4> QED BY <4>1, <4>2, <2>5 DEF Making
    <3> QED BY <3>1, <3>2
  <2>7. (\A e \in Databases : Exists(e) => \E p \in Orgs : IsRow(p) /\ org[p].dbName = e)'
    <3> SUFFICES ASSUME NEW e \in Databases, Exists(e)
                 PROVE  \E p \in Orgs : org'[p].status # "none" /\ org'[p].dbName = e
      BY <2>1 DEF Exists
    <3>1. PICK p \in Orgs : IsRow(p) /\ org[p].dbName = e
      BY DEF Clean
    <3>2. p # o
      BY <2>1, <3>1
    <3> QED BY <2>4, <3>1, <3>2
  <2>8. /\ (toBoot = {} /\ saga[Boot] = NoSaga)'
        /\ (\A p \in Orgs : org[p].status = "none" => org[p] = NoOrg)'
    <3>1. toBoot' = {} /\ saga'[Boot] = saga[Boot] /\ saga[Boot] = NoSaga
      BY <2>1, <2>5 DEF Clean
    <3>2. \A p \in Orgs : org'[p].status = "none" => org'[p] = NoOrg
      BY <2>4 DEF Clean
    <3> QED BY <3>1, <3>2
  <2>9. ASSUME NEW q \in Provisioners
        PROVE  /\ (saga[q].pc \in {"database", "delete"} => ~Exists(saga[q].db))'
               /\ (saga[q].pc \in {"connect", "connecting", "seed", "admin", "drop"} =>
                     saga[q].created)'
    BY <2>1, <2>3, <2>5 DEF Clean, Exists
  <2> QED BY <2>6, <2>7, <2>8, <2>9 DEF Clean
<1> QED BY <1>1, <1>2

(* A creation goes on with its row and its database, and touches no other. *)
LEMMA SagaStaysClean ==
    ASSUME SagaInv, Clean, NEW c \in Provisioners, saga[c].pc \notin {"idle", "save"},
           NEW t, saga' = [saga EXCEPT ![c] = t], t.org = saga[c].org, t.db = saga[c].db,
           UNCHANGED <<org, toBoot, ready, revived>>,
           \A d \in Databases \ {saga[c].db} : Exists(d)' <=> Exists(d),
           t.pc \in {"database", "delete"} => database'[t.db] = "absent",
           t.pc \in {"connect", "connecting", "seed", "admin", "drop"} => t.created
    PROVE  Clean'
<1>1. saga'[c] = t /\ \A q \in Callers \ {c} : saga'[q] = saga[q]
  BY DEF SagaInv, Rows
<1>2. saga[c].org \in Orgs /\ IsRow(saga[c].org) /\ saga[c].db = org[saga[c].org].dbName
  BY DatabaseOfRow
<1>3. (toBoot = {} /\ saga[Boot] = NoSaga)'
  BY <1>1 DEF Clean
<1>4. (\A o \in Orgs : org[o].status = "none" => org[o] = NoOrg)'
  BY DEF Clean
<1>5. (\A o \in Orgs : org[o] # NoOrg => o \in ready \/ o \in revived \/ Making(o))'
  BY <1>1 DEF Clean, Making
<1>6. (\A d \in Databases : Exists(d) => \E o \in Orgs : IsRow(o) /\ org[o].dbName = d)'
  <2> SUFFICES ASSUME NEW d \in Databases, Exists(d)'
               PROVE  \E o \in Orgs : IsRow(o) /\ org[o].dbName = d
    OBVIOUS
  <2>1. CASE d = saga[c].db
    BY <1>2, <2>1
  <2>2. CASE d # saga[c].db
    BY <2>2 DEF Clean
  <2> QED BY <2>1, <2>2
<1>7. ASSUME NEW q \in Provisioners
      PROVE  /\ saga'[q].pc \in {"database", "delete"} => database'[saga'[q].db] = "absent"
             /\ saga'[q].pc \in {"connect", "connecting", "seed", "admin", "drop"} =>
                   saga'[q].created
  <2>1. CASE q = c
    BY <1>1, <2>1
  <2>2. CASE q # c
    <3>1. saga'[q] = saga[q]
      BY <1>1, <2>2
    <3>2. ASSUME saga[q].pc \in {"database", "delete"}
          PROVE  database'[saga[q].db] = "absent"
      <4>1. saga[q].db \in Databases \ {saga[c].db} /\ ~Exists(saga[q].db)
        BY <2>2, <3>2, OwnNames DEF Clean
      <4> QED BY <4>1 DEF Exists
    <3> QED BY <3>1, <3>2 DEF Clean
  <2> QED BY <2>1, <2>2
<1>8. \A q \in Provisioners :
        /\ (saga[q].pc \in {"database", "delete"} => ~Exists(saga[q].db))'
        /\ (saga[q].pc \in {"connect", "connecting", "seed", "admin", "drop"} =>
              saga[q].created)'
  BY <1>7 DEF Exists
<1> QED BY <1>3, <1>4, <1>5, <1>6, <1>8 DEF Clean

LEMMA ProvisionStaysClean ==
    ASSUME SagaInv, Clean, NEW c \in Provisioners, Provision(c), mishaps' = 0,
           revived' = revived
    PROVE  Clean'
<1> DEFINE o == saga[c].org
           d == saga[c].db
<1>1. CASE DatabaseCreated(c)
  <2> DEFINE t == Saga("connect", o, d, TRUE)
  <2>1. /\ saga[c].pc = "database" /\ saga' = [saga EXCEPT ![c] = t]
        /\ t.pc = "connect" /\ t.org = o /\ t.db = d /\ t.created
        /\ UNCHANGED <<org, toBoot, ready>>
    BY <1>1 DEF DatabaseCreated
  <2>2. \A e \in Databases \ {d} : Exists(e)' <=> Exists(e)
    BY <1>1 DEF DatabaseCreated, createDatabase, SagaInv, Rows, Exists
  <2> HIDE DEF t
  <2> QED BY <2>1, <2>2, SagaStaysClean
<1>2. ASSUME NEW next, saga' = [saga EXCEPT ![c] = Saga(next, o, d, saga[c].created)],
             next \in {"connecting", "seed", "admin", "drop"}, UNCHANGED <<org, toBoot, ready>>,
             saga[c].pc \in {"connect", "connecting", "seed", "admin", "drop"},
             \A e \in Databases \ {d} : Exists(e)' <=> Exists(e)
      PROVE  Clean'
  <2> DEFINE t == Saga(next, o, d, saga[c].created)
  <2>1. t.pc = next /\ t.org = o /\ t.db = d /\ t.created = saga[c].created
    OBVIOUS
  <2>2. saga[c].created
    BY <1>2 DEF Clean
  <2>3. saga' = [saga EXCEPT ![c] = t]
    BY <1>2
  <2> HIDE DEF t
  <2> QED BY <1>2, <2>1, <2>2, <2>3, SagaStaysClean
<1>3. CASE Connect(c)
  BY <1>2, <1>3 DEF Connect, Ask, Advance, Exists
<1>4. CASE runMigrations(c)
  BY <1>2, <1>4 DEF runMigrations, Advance, SagaInv, Rows, Exists
<1>5. CASE seedTenantRbac(c)
  BY <1>2, <1>5 DEF seedTenantRbac, Advance, SagaInv, Rows, Exists
<1>6. CASE ensureOrgAdminExists(c)
  <2>1. /\ saga[c].pc = "admin" /\ saga' = [saga EXCEPT ![c] = NoSaga]
        /\ org' = [org EXCEPT ![o] = Organization(@.status, @.subdomain, @.dbName, TRUE)]
        /\ ready' = ready \cup {o} /\ UNCHANGED <<database, toBoot>>
    BY <1>6 DEF ensureOrgAdminExists
  <2>2. o \in Orgs /\ IsRow(o)
    BY <2>1, DatabaseOfRow
  <2>3. /\ org'[o].status = org[o].status /\ org'[o].dbName = org[o].dbName
        /\ \A p \in Orgs \ {o} : org'[p] = org[p]
    BY <2>1, <2>2 DEF SagaInv, Rows
  <2>4. saga'[c].pc = "idle" /\ saga'[c].org = None /\ \A q \in Callers \ {c} : saga'[q] = saga[q]
    BY <2>1 DEF SagaInv, Rows
  <2>5. (toBoot = {} /\ saga[Boot] = NoSaga)'
    BY <2>1, <2>4 DEF Clean
  <2>6. (\A p \in Orgs : org[p].status = "none" => org[p] = NoOrg)'
    BY <2>2, <2>3 DEF Clean
  <2>7. (\A p \in Orgs : org[p] # NoOrg => p \in ready \/ p \in revived \/ Making(p))'
    <3> SUFFICES ASSUME NEW p \in Orgs, org'[p] # NoOrg PROVE p \in ready' \/ p \in revived' \/ Making(p)'
      OBVIOUS
    <3>1. CASE p = o
      BY <2>1, <3>1
    <3>2. CASE p # o
      BY <2>1, <2>3, <2>4, <3>2 DEF Clean, Making
    <3> QED BY <3>1, <3>2
  <2>8. (\A e \in Databases : Exists(e) => \E p \in Orgs : IsRow(p) /\ org[p].dbName = e)'
    BY <2>1, <2>3 DEF Clean, Exists
  <2>9. \A q \in Provisioners :
          /\ (saga[q].pc \in {"database", "delete"} => ~Exists(saga[q].db))'
          /\ (saga[q].pc \in {"connect", "connecting", "seed", "admin", "drop"} =>
                saga[q].created)'
    BY <2>1, <2>4 DEF Clean, Exists
  <2> QED BY <2>5, <2>6, <2>7, <2>8, <2>9 DEF Clean
<1>7. CASE Fail(c)
  <2>1. /\ Interruptible(c) /\ UNCHANGED <<database, org, toBoot, ready>>
        /\ saga' = [saga EXCEPT ![c] = IF AfterError(c) = "idle" THEN NoSaga
                                       ELSE Saga(AfterError(c), o, d, saga[c].created)]
    BY <1>7 DEF Fail
  <2>2. CASE saga[c].pc = "save"
    <3>1. o = None /\ AfterError(c) = "idle"
      BY <2>2 DEF SagaInv, OwnRow, AfterError
    <3>2. saga'[c].pc = "idle" /\ saga'[c].org = None /\ \A q \in Callers \ {c} : saga'[q] = saga[q]
      BY <2>1, <3>1 DEF SagaInv, Rows
    <3>3. \A p \in Orgs : Making(p) => Making(p)'
      BY <3>1, <3>2 DEF Making
    <3>4. /\ (toBoot = {} /\ saga[Boot] = NoSaga)'
          /\ (\A p \in Orgs : org[p].status = "none" => org[p] = NoOrg)'
          /\ (\A p \in Orgs : org[p] # NoOrg => p \in ready \/ p \in revived \/ Making(p))'
          /\ (\A e \in Databases : Exists(e) => \E p \in Orgs : IsRow(p) /\ org[p].dbName = e)'
      BY <2>1, <3>2, <3>3 DEF Clean, Exists
    <3>5. \A q \in Provisioners :
            /\ (saga[q].pc \in {"database", "delete"} => ~Exists(saga[q].db))'
            /\ (saga[q].pc \in {"connect", "connecting", "seed", "admin", "drop"} =>
                  saga[q].created)'
      BY <2>1, <3>2 DEF Clean, Exists
    <3> QED BY <3>4, <3>5 DEF Clean
  <2>3. CASE saga[c].pc # "save"
    <3>1. /\ saga[c].pc \in {"database", "connect", "connecting", "seed", "admin"}
          /\ o # None
      BY <2>1, <2>3 DEF Interruptible, SagaInv, OwnRow
    <3>2. AfterError(c) = IF saga[c].created THEN "drop" ELSE "delete"
      BY <3>1 DEF AfterError
    <3> DEFINE t == Saga(AfterError(c), o, d, saga[c].created)
    <3>3. /\ saga' = [saga EXCEPT ![c] = t] /\ t.org = o /\ t.db = d
          /\ t.pc = AfterError(c) /\ t.created = saga[c].created
      BY <2>1, <3>2
    <3>4. ~saga[c].created => database'[d] = "absent"
      BY <2>1, <3>1 DEF Clean, Exists
    <3>5. \A e \in Databases \ {d} : Exists(e)' <=> Exists(e)
      BY <2>1 DEF Exists
    <3> HIDE DEF t
    <3> QED BY <2>1, <3>1, <3>2, <3>3, <3>4, <3>5, SagaStaysClean
  <2> QED BY <2>2, <2>3
<1>8. CASE CreatedUnnoticed(c)
  BY <1>8 DEF CreatedUnnoticed, SagaInv, Rows
<1> QED BY <1>1, <1>3, <1>4, <1>5, <1>6, <1>7, <1>8 DEF Provision

LEMMA RollbackStaysClean ==
    ASSUME SagaInv, Clean, NEW c \in Provisioners, Rollback(c), mishaps' = 0,
           revived' = revived
    PROVE  Clean'
<1> DEFINE o == saga[c].org
           d == saga[c].db
<1>1. CASE StartDrop(c)
  <2> DEFINE t == Saga("dropping", o, d, saga[c].created)
  <2>1. /\ saga[c].pc = "drop" /\ saga' = [saga EXCEPT ![c] = t]
        /\ t.pc = "dropping" /\ t.org = o /\ t.db = d
        /\ UNCHANGED <<database, org, toBoot, ready>>
    BY <1>1 DEF StartDrop, Advance, dropDatabase, Destroy, NothingCached
  <2>2. \A e \in Databases \ {d} : Exists(e)' <=> Exists(e)
    BY <2>1 DEF Exists
  <2> HIDE DEF t
  <2> QED BY <2>1, <2>2, SagaStaysClean
<1>2. CASE EndDrop(c)
  <2> DEFINE t == Saga("delete", o, d, saga[c].created)
  <2>1. /\ saga[c].pc = "dropping" /\ saga' = [saga EXCEPT ![c] = t]
        /\ t.pc = "delete" /\ t.org = o /\ t.db = d
        /\ UNCHANGED <<org, toBoot, ready>>
        /\ call[c].pc = "dropping" /\ database' = [database EXCEPT ![call[c].db] = "absent"]
    BY <1>2 DEF EndDrop, Advance, Dropped
  <2>2. call[c].db = d /\ d \in Databases
    BY <2>1, DatabaseOfRow DEF SagaInv, OwnCall
  <2>3. database'[d] = "absent" /\ \A e \in Databases \ {d} : Exists(e)' <=> Exists(e)
    BY <2>1, <2>2 DEF Exists, SagaInv, Rows
  <2> HIDE DEF t
  <2> QED BY <2>1, <2>3, SagaStaysClean
<1>3. CASE DeleteOrganization(c)
  <2>1. /\ saga[c].pc = "delete" /\ org' = RowDeleted(c) /\ ready' = ready \ {o}
        /\ saga' = [saga EXCEPT ![c] = NoSaga] /\ UNCHANGED <<database, toBoot>>
    BY <1>3 DEF DeleteOrganization, connVars
  <2>2. o \in Orgs /\ d \in Databases /\ d = org[o].dbName /\ ~Exists(d)
    BY <2>1, DatabaseOfRow DEF Clean
  <2>3. org'[o] = NoOrg /\ \A p \in Orgs \ {o} : org'[p] = org[p]
    BY <2>1, <2>2 DEF RowDeleted
  <2>4. saga'[c].pc = "idle" /\ saga'[c].org = None /\ \A q \in Callers \ {c} : saga'[q] = saga[q]
    BY <2>1 DEF SagaInv, Rows
  <2>5. (toBoot = {} /\ saga[Boot] = NoSaga)'
    BY <2>1, <2>4 DEF Clean
  <2>6. (\A p \in Orgs : org[p].status = "none" => org[p] = NoOrg)'
    BY <2>3 DEF Clean
  <2>7. (\A p \in Orgs : org[p] # NoOrg => p \in ready \/ p \in revived \/ Making(p))'
    <3> SUFFICES ASSUME NEW p \in Orgs, org'[p] # NoOrg PROVE p \in ready' \/ p \in revived' \/ Making(p)'
      OBVIOUS
    <3>1. p # o /\ org[p] # NoOrg
      BY <2>3
    <3> QED BY <2>1, <2>4, <3>1 DEF Clean, Making
  <2>8. (\A e \in Databases : Exists(e) => \E p \in Orgs : IsRow(p) /\ org[p].dbName = e)'
    <3> SUFFICES ASSUME NEW e \in Databases, Exists(e)
                 PROVE  \E p \in Orgs : org'[p].status # "none" /\ org'[p].dbName = e
      BY <2>1 DEF Exists
    <3>1. PICK p \in Orgs : IsRow(p) /\ org[p].dbName = e
      BY DEF Clean
    <3>2. p # o
      BY <2>2, <3>1
    <3> QED BY <2>3, <3>1, <3>2
  <2>9. \A q \in Provisioners :
          /\ (saga[q].pc \in {"database", "delete"} => ~Exists(saga[q].db))'
          /\ (saga[q].pc \in {"connect", "connecting", "seed", "admin", "drop"} =>
                saga[q].created)'
    BY <2>1, <2>4 DEF Clean, Exists
  <2> QED BY <2>5, <2>6, <2>7, <2>8, <2>9 DEF Clean
<1>4. CASE AbandonDrop(c) \/ DeleteFails(c)
  BY <1>4 DEF AbandonDrop, DeleteFails, SagaInv, Rows
<1> QED BY <1>1, <1>2, <1>3, <1>4 DEF Rollback

LEMMA RowsStayClean ==
    ASSUME SagaInv, Clean, UNCHANGED <<database, saga, toBoot, ready, revived>>, NEW o \in Orgs,
           org[o].status # "none", NEW row, org' = [org EXCEPT ![o] = row],
           row.status # "none", row.dbName = org[o].dbName
    PROVE  Clean'
<1>1. org'[o] = row /\ \A p \in Orgs \ {o} : org'[p] = org[p]
  BY DEF SagaInv, Rows
<1>2. (\A p \in Orgs : org[p].status = "none" => org[p] = NoOrg)'
  BY <1>1 DEF Clean
<1>3. (\A p \in Orgs : org[p] # NoOrg => p \in ready \/ p \in revived \/ Making(p))'
  <2>1. org[o] # NoOrg
    OBVIOUS
  <2> QED BY <1>1, <2>1 DEF Clean, Making
<1>4. (\A e \in Databases : Exists(e) => \E p \in Orgs : IsRow(p) /\ org[p].dbName = e)'
  BY <1>1 DEF Clean, Exists
<1>5. (toBoot = {} /\ saga[Boot] = NoSaga)'
  BY DEF Clean
<1>6. \A q \in Provisioners :
        /\ (saga[q].pc \in {"database", "delete"} => ~Exists(saga[q].db))'
        /\ (saga[q].pc \in {"connect", "connecting", "seed", "admin", "drop"} =>
              saga[q].created)'
  BY DEF Clean, Exists
<1> QED BY <1>2, <1>3, <1>4, <1>5, <1>6 DEF Clean

LEMMA UntouchedStaysClean ==
    ASSUME Clean, UNCHANGED <<database, org, saga, toBoot, ready, revived>>
    PROVE  Clean'
  BY DEF Clean, Making, Exists

(* A row that an update put back is a row like another, of no creation.    *)
LEMMA SaveUpdateStaysClean ==
    ASSUME SagaInv, EditsInv, Clean, NEW u \in requests, SaveUpdate(u)
    PROVE  Clean'
<1> DEFINE o == edit[u].org
           d == edit[u].dbName
           row == Organization("active", d, d, org[o].admin)
<1>0. Saved(o, d)
  BY SaveUpdateIs
<1> HIDE DEF o, d
<1>1. /\ o \in Orgs /\ d \in Databases
      /\ IsRow(o) => org[o].dbName = d
      /\ org' = [org EXCEPT ![o] = org'[o]] /\ org'[o] = row
      /\ \A p \in Orgs \ {o} : org'[p] = org[p] /\ org[p].subdomain # d
      /\ revived' = IF org[o] = NoOrg THEN revived \cup {o} ELSE revived
      /\ UNCHANGED <<database, saga, toBoot, ready>>
  BY <1>0 DEF Saved
<1>9. row.status = "active" /\ row.dbName = d
  OBVIOUS
<1> HIDE DEF row
<1>2. CASE IsRow(o)
  <2>1. revived' = revived
    BY <1>1, <1>2
  <2> QED BY <1>1, <1>2, <1>9, <2>1, RowsStayClean
<1>3. CASE ~IsRow(o)
  <2>1. revived' = revived \cup {o}
    BY <1>1, <1>3 DEF Clean
  <2>2. org'[o].status = "active" /\ \A p \in Orgs \ {o} : org'[p] = org[p]
    BY <1>1, <1>9
  <2>3. (\A p \in Orgs : org[p].status = "none" => org[p] = NoOrg)'
    BY <2>2 DEF Clean
  <2>4. (\A p \in Orgs : org[p] # NoOrg => p \in ready \/ p \in revived \/ Making(p))'
    BY <1>1, <2>1, <2>2 DEF Clean, Making
  <2>5. (\A e \in Databases : Exists(e) => \E p \in Orgs : IsRow(p) /\ org[p].dbName = e)'
    <3> SUFFICES ASSUME NEW e \in Databases, Exists(e)
                 PROVE  \E p \in Orgs : org'[p].status # "none" /\ org'[p].dbName = e
      BY <1>1 DEF Exists
    <3>1. PICK p \in Orgs : IsRow(p) /\ org[p].dbName = e
      BY DEF Clean
    <3>2. p # o
      BY <1>3, <3>1
    <3> QED BY <2>2, <3>1, <3>2
  <2>6. (toBoot = {} /\ saga[Boot] = NoSaga)'
    BY <1>1 DEF Clean
  <2>7. \A q \in Provisioners :
          /\ (saga[q].pc \in {"database", "delete"} => ~Exists(saga[q].db))'
          /\ (saga[q].pc \in {"connect", "connecting", "seed", "admin", "drop"} =>
                saga[q].created)'
    BY <1>1 DEF Clean, Exists
  <2> QED BY <2>3, <2>4, <2>5, <2>6, <2>7 DEF Clean
<1> QED BY <1>2, <1>3

(* Such a row is of no creation, and has neither database nor admin.       *)
Bare ==
    /\ revived \subseteq Orgs
    /\ \A o \in revived : /\ IsRow(o) /\ ~Making(o)
                          /\ ~Exists(org[o].dbName) /\ ~org[o].admin
BareInv == mishaps = 0 => Bare

LEMMA BareStays ==
    ASSUME Bare, revived' = revived,
           \A o \in revived : /\ org'[o].status # "none" /\ org'[o].dbName = org[o].dbName
                             /\ org'[o].admin = org[o].admin
                             /\ database'[org[o].dbName] = database[org[o].dbName],
           \A o \in revived, c \in Provisioners : saga'[c].org = o => saga[c].org = o
    PROVE  Bare'
  BY DEF Bare, Making, Exists

(* What a creation writes is its own row and its own database.             *)
LEMMA CreationLeavesBare ==
    ASSUME SagaInv, Clean, Bare, mishaps = 0, revived' = revived, mishaps' = 0,
           NEW c \in Provisioners,
           \/ \E d \in Subdomains : create(c, d)
           \/ \E o \in Orgs : SaveOrganization(c, o)
           \/ Provision(c) \/ Rollback(c)
    PROVE  Bare'
<1>1. \A q \in Callers \ {c} : saga'[q] = saga[q]
  BY DEF create, SaveOrganization, Provision, DatabaseCreated, Connect, runMigrations,
         seedTenantRbac, ensureOrgAdminExists, Fail, CreatedUnnoticed, Rollback, StartDrop,
         EndDrop, AbandonDrop, DeleteOrganization, DeleteFails, Advance, SagaInv, Rows
<1>2. \A o \in revived : o \in Orgs /\ IsRow(o) /\ saga[c].org # o
  BY DEF Bare, Making
<1>3. ASSUME NEW o \in revived, saga[c].pc \notin {"idle", "save"}
      PROVE  saga[c].org \in Orgs /\ saga[c].db \in Databases /\ org[o].dbName # saga[c].db
  <2>1. /\ saga[c].org \in Orgs /\ saga[c].db \in Databases
        /\ IsRow(saga[c].org) /\ saga[c].db = org[saga[c].org].dbName
    BY <1>3, DatabaseOfRow
  <2> QED BY <1>2, <2>1 DEF SagaInv, OwnDatabase
<1>4. CASE \E d \in Subdomains : create(c, d)
  <2>1. saga'[c].org = None /\ UNCHANGED <<org, database>>
    BY <1>4 DEF create, connVars, SagaInv, Rows
  <2> QED BY <1>1, <1>2, <2>1, BareStays
<1>5. CASE \E o \in Orgs : SaveOrganization(c, o)
  <2>1. PICK o \in Orgs : SaveOrganization(c, o)
    BY <1>5
  <2>2. /\ saga'[c].org = o /\ org[o] = NoOrg /\ UNCHANGED database
        /\ \A p \in Orgs \ {o} : org'[p] = org[p]
    BY <2>1 DEF SaveOrganization, connVars, SagaInv, Rows
  <2>3. o \notin revived
    BY <1>2, <2>2
  <2> QED BY <1>1, <1>2, <2>2, <2>3, BareStays
<1>6. CASE DatabaseCreated(c) \/ runMigrations(c) \/ seedTenantRbac(c)
  <2>1. /\ saga[c].pc \notin {"idle", "save"} /\ org' = org /\ saga'[c].org = saga[c].org
        /\ \A d \in Databases \ {saga[c].db} : database'[d] = database[d]
    BY <1>6 DEF DatabaseCreated, createDatabase, runMigrations, seedTenantRbac, Advance, SagaInv, Rows
  <2>2. \A o \in revived : org[o].dbName \in Databases
    BY <1>2 DEF SagaInv, OwnDatabase
  <2> QED BY <1>1, <1>2, <1>3, <2>1, <2>2, BareStays
<1>7. CASE Connect(c) \/ Fail(c) \/ StartDrop(c)
  <2>1. UNCHANGED <<org, database>> /\ saga'[c].org \in {saga[c].org, None}
    BY <1>7 DEF Connect, Ask, Fail, StartDrop, dropDatabase, Destroy, NothingCached, Advance,
                SagaInv, Rows
  <2> QED BY <1>1, <1>2, <2>1, BareStays
<1>8. CASE ensureOrgAdminExists(c) \/ DeleteOrganization(c)
  <2>1. /\ UNCHANGED database /\ saga'[c].org = None
        /\ \A p \in Orgs \ {saga[c].org} : org'[p] = org[p]
    BY <1>8 DEF ensureOrgAdminExists, DeleteOrganization, RowDeleted, connVars, SagaInv, Rows
  <2> QED BY <1>1, <1>2, <2>1, BareStays
<1>9. CASE EndDrop(c)
  <2>1. /\ saga[c].pc = "dropping" /\ org' = org /\ saga'[c].org = saga[c].org
        /\ call[c].pc = "dropping" /\ database' = [database EXCEPT ![call[c].db] = "absent"]
    BY <1>9 DEF EndDrop, Advance, Dropped, SagaInv, Rows
  <2>2. call[c].db = saga[c].db
    BY <2>1 DEF SagaInv, OwnCall
  <2>3. \A o \in revived : org[o].dbName # saga[c].db
    BY <1>3, <2>1
  <2>4. \A d \in Databases \ {saga[c].db} : database'[d] = database[d]
    BY <2>1, <2>2 DEF SagaInv, Rows
  <2>5. \A o \in revived : org[o].dbName \in Databases
    BY <1>2 DEF SagaInv, OwnDatabase
  <2> QED BY <1>1, <1>2, <2>1, <2>3, <2>4, <2>5, BareStays
<1>10. ~(CreatedUnnoticed(c) \/ AbandonDrop(c) \/ DeleteFails(c))
  BY DEF SagaInv, Rows, CreatedUnnoticed, AbandonDrop, DeleteFails
<1> QED BY <1>4, <1>5, <1>6, <1>7, <1>8, <1>9, <1>10 DEF Provision, Rollback

LEMMA UpdateLeavesBare ==
    ASSUME SagaInv, EditsInv, Clean, Bare, NEW u \in requests, Updates(u)
    PROVE  Bare'
<1> DEFINE o == edit[u].org
           d == edit[u].dbName
<1>1. CASE UNCHANGED <<org, database, saga, revived>>
  BY <1>1, BareStays DEF Bare
<1>2. CASE SaveUpdate(u)
  <2> DEFINE row == Organization("active", d, d, org[o].admin)
  <2>0. Saved(o, d)
    BY <1>2, SaveUpdateIs
  <2> HIDE DEF o, d
  <2>1. /\ o \in Orgs /\ d \in Databases
        /\ IsRow(o) => org[o].dbName = d
        /\ org'[o] = row
        /\ \A p \in Orgs \ {o} : org'[p] = org[p] /\ org[p].subdomain # d
        /\ revived' = IF org[o] = NoOrg THEN revived \cup {o} ELSE revived
        /\ UNCHANGED <<database, saga>>
    BY <2>0 DEF Saved
  <2>2. row.status = "active" /\ row.dbName = d /\ row.admin = org[o].admin
    OBVIOUS
  <2> HIDE DEF row
  <2>3. CASE IsRow(o)
    <3>1. revived' = revived
      BY <2>1, <2>3
    <3>2. \A p \in Orgs : IsRow(p) => /\ org'[p].status # "none"
                                     /\ org'[p].dbName = org[p].dbName
                                     /\ org'[p].admin = org[p].admin
      BY <2>1, <2>2
    <3> QED BY <2>1, <3>1, <3>2, BareStays DEF Bare
  <2>4. CASE ~IsRow(o)
    <3>1. org[o] = NoOrg /\ revived' = revived \cup {o} /\ o \notin revived
      BY <2>1, <2>4 DEF Clean, Bare
    <3>2. \A c \in Provisioners : saga[c].org # o
      BY <2>1, <2>4 DEF SagaInv, OwnRow, Rows
    <3>3. ~Exists(d)
      <4> SUFFICES ASSUME Exists(d) PROVE FALSE
        OBVIOUS
      <4>1. PICK p \in Orgs : IsRow(p) /\ org[p].dbName = d
        BY <2>1 DEF Clean
      <4> QED BY <2>1, <2>4, <4>1 DEF SagaInv, OwnDatabase
    <3>4. ~org[o].admin
      BY <3>1
    <3>5. ASSUME NEW p \in revived'
          PROVE  /\ p \in Orgs /\ org'[p].status # "none" /\ ~org'[p].admin
                 /\ database'[org'[p].dbName] = "absent"
                 /\ \A c \in Provisioners : saga'[c].org # p
      <4>1. CASE p = o
        BY <2>1, <2>2, <3>2, <3>3, <3>4, <4>1 DEF Exists
      <4>2. CASE p # o
        <5>1. p \in revived /\ p \in Orgs /\ org'[p] = org[p]
          BY <2>1, <3>1, <4>2 DEF Bare
        <5> QED BY <2>1, <5>1 DEF Bare, Making, Exists
      <4> QED BY <4>1, <4>2
    <3> QED BY <3>5 DEF Bare, Making, Exists
  <2> QED BY <2>3, <2>4
<1>3. CASE AdminOfUpdate(u)
  <2>1. /\ o \in Orgs
        /\ IsRow(o) => org[o].dbName = d
        /\ org[o] # NoOrg /\ HasSchema(d)
        /\ org' = [org EXCEPT ![o] = Organization(@.status, @.subdomain, @.dbName, TRUE)]
        /\ UNCHANGED <<database, saga, revived>>
    BY <1>3 DEF AdminOfUpdate, EditsInv, Copied, connVars
  <2>2. o \notin revived
    BY <2>1 DEF Bare, Exists, HasSchema
  <2>3. \A p \in revived : org'[p] = org[p]
    BY <2>1, <2>2 DEF Bare, SagaInv, Rows
  <2> QED BY <2>1, <2>3, BareStays DEF Bare
<1>4. CASE \E p \in Orgs, e \in Subdomains : update(u, p, e)
  BY <1>1, <1>4 DEF update, connVars
<1>5. CASE UpdateEnds(u)
  BY <1>1, <1>5 DEF UpdateEnds, connVars
<1> QED BY <1>2, <1>3, <1>4, <1>5 DEF Updates

(* What went wrong is not forgotten.                                       *)
LEMMA MishapsStay ==
    ASSUME mishaps \in Nat, mishaps # 0, [Next]_vars
    PROVE  mishaps' # 0
<1>1. ASSUME NEW c \in Callers, Provision(c) PROVE mishaps' # 0
  BY <1>1 DEF Provision, DatabaseCreated, Connect, runMigrations, seedTenantRbac,
     ensureOrgAdminExists, Fail, CreatedUnnoticed
<1>2. ASSUME NEW c \in Callers, Rollback(c) PROVE mishaps' # 0
  BY <1>2 DEF Rollback, StartDrop, EndDrop, AbandonDrop, DeleteOrganization, DeleteFails
<1>3. ASSUME NEW o \in Orgs, \/ remove(o) \/ restore(o) \/ ensureOrganizationRuntimeReady(o)
                             \/ \E r \in requests : TenantRequest(r, o)
      PROVE  mishaps' # 0
  BY <1>3 DEF remove, restore, ensureOrganizationRuntimeReady, TenantRequest
<1>4. ASSUME NEW c \in Callers, \/ \E d \in Subdomains : create(c, d)
                                \/ \E o \in Orgs : SaveOrganization(c, o)
                                \/ Manager(c)
      PROVE  mishaps' # 0
  BY <1>4 DEF create, SaveOrganization, Manager
<1>5. ASSUME NEW u \in requests, Updates(u) PROVE mishaps' # 0
  BY <1>5 DEF Updates, update, SaveUpdate, AdminOfUpdate, UpdateEnds
<1>6. UNCHANGED vars => mishaps' # 0
  BY DEF vars
<1>7. Crash => mishaps' # 0
  BY DEF Crash
<1> QED BY <1>1, <1>2, <1>3, <1>4, <1>5, <1>6, <1>7 DEF Next, Others

LEMMA CleanKept ==
    ASSUME SagaInv, EditsInv, CleanInv, [Next]_vars
    PROVE  CleanInv'
<1> SUFFICES ASSUME mishaps' = 0, Clean PROVE Clean'
  BY MishapsStay DEF CleanInv, SagaInv, Rows
<1>1. ASSUME NEW c \in Provisioners,
             \/ \E d \in Subdomains : create(c, d)
             \/ \E o \in Orgs : SaveOrganization(c, o),
             revived' = revived
      PROVE  Clean'
  BY <1>1, CreatingStaysClean
<1>2. ASSUME NEW c \in Provisioners, Rollback(c), revived' = revived PROVE Clean'
  BY <1>2, RollbackStaysClean
<1>3. ASSUME NEW c \in Running, Provision(c), revived' = revived PROVE Clean'
  <2>1. c # Boot
    BY <1>3 DEF Clean, Provision, DatabaseCreated, Connect, runMigrations, seedTenantRbac,
       ensureOrgAdminExists, Fail, Interruptible, CreatedUnnoticed
  <2> QED BY <1>3, <2>1, ProvisionStaysClean
<1>4. ASSUME NEW u \in requests, Updates(u) PROVE Clean'
  <2>1. CASE AdminOfUpdate(u)
    <3> DEFINE o == edit[u].org
               row == Organization(org[o].status, org[o].subdomain, org[o].dbName, TRUE)
    <3>1. /\ o \in Orgs /\ org[o] # NoOrg
          /\ org' = [org EXCEPT ![o] = Organization(@.status, @.subdomain, @.dbName, TRUE)]
          /\ UNCHANGED <<database, saga, toBoot, ready, revived>>
      BY <2>1 DEF AdminOfUpdate, EditsInv, Copied, connVars
    <3>2. IsRow(o)
      BY <3>1 DEF Clean
    <3>3. org' = [org EXCEPT ![o] = row] /\ row.status # "none" /\ row.dbName = org[o].dbName
      BY <3>1, <3>2 DEF SagaInv, Rows
    <3> HIDE DEF row, o
    <3> QED BY <3>1, <3>2, <3>3, RowsStayClean
  <2>2. CASE UpdateEnds(u) \/ \E o \in Orgs, d \in Subdomains : update(u, o, d)
    BY <2>2, UntouchedStaysClean DEF UpdateEnds, update, connVars
  <2> QED BY <1>4, <2>1, <2>2, SaveUpdateStaysClean DEF Updates
<1>5. ASSUME NEW o \in Orgs, NEW status \in {"active", "deleted"},
             org' = [org EXCEPT ![o] = Organization(status, @.subdomain, @.dbName, @.admin)],
             org[o].status # "none", UNCHANGED <<connVars, saga, toBoot, ready, revived>>
      PROVE  Clean'
  <2> DEFINE row == Organization(status, org[o].subdomain, org[o].dbName, org[o].admin)
  <2>1. org' = [org EXCEPT ![o] = row] /\ row.status # "none" /\ row.dbName = org[o].dbName
    BY <1>5 DEF SagaInv, Rows
  <2> HIDE DEF row
  <2> QED BY <1>5, <2>1, RowsStayClean DEF connVars
<1>6. ASSUME NEW o \in Orgs, remove(o) \/ restore(o), revived' = revived PROVE Clean'
  BY <1>5, <1>6 DEF remove, restore
<1>7. ASSUME NEW o \in Orgs, ensureOrganizationRuntimeReady(o) PROVE Clean'
  BY <1>7 DEF ensureOrganizationRuntimeReady, Clean
<1>8. ASSUME NEW o \in Orgs, NEW r \in requests, TenantRequest(r, o), revived' = revived
      PROVE  Clean'
  BY <1>8, UntouchedStaysClean DEF TenantRequest, Ask
<1>9. ASSUME NEW c \in Callers, Manager(c), revived' = revived PROVE Clean'
  BY <1>9, UntouchedStaysClean DEF Manager, getOrCreateConnection, UseCached, AwaitLock,
     createConnection, Connected, NotConnected, Destroyed, Release
<1>10. ~Crash
  BY DEF Crash, SagaInv, Rows
<1>11. CASE UNCHANGED vars
  BY <1>11, UntouchedStaysClean DEF vars, connVars
<1>12. CASE Others /\ UNCHANGED editVars
  BY <1>1, <1>2, <1>3, <1>6, <1>7, <1>8, <1>9, <1>12 DEF Others, editVars
<1> QED BY <1>4, <1>10, <1>11, <1>12 DEF Next

LEMMA BareKept ==
    ASSUME SagaInv, EditsInv, CleanInv, BareInv, [Next]_vars
    PROVE  BareInv'
<1> SUFFICES ASSUME mishaps' = 0, mishaps = 0, Clean, Bare PROVE Bare'
  BY MishapsStay DEF CleanInv, BareInv, SagaInv, Rows
<1>1. CASE UNCHANGED <<org, database, saga, revived>>
  BY <1>1, BareStays DEF Bare
<1>2. ASSUME NEW c \in Provisioners, revived' = revived,
             \/ \E d \in Subdomains : create(c, d)
             \/ \E o \in Orgs : SaveOrganization(c, o)
             \/ Provision(c) \/ Rollback(c)
      PROVE  Bare'
  BY <1>2, CreationLeavesBare
<1>3. ~Provision(Boot)
  BY DEF Clean, Provision, DatabaseCreated, Connect, runMigrations, seedTenantRbac,
     ensureOrgAdminExists, Fail, Interruptible, CreatedUnnoticed
<1>4. ASSUME NEW o \in Orgs, remove(o) \/ restore(o), revived' = revived PROVE Bare'
  <2>1. /\ \A p \in Orgs : IsRow(p) => /\ org'[p].status # "none"
                                      /\ org'[p].dbName = org[p].dbName
                                      /\ org'[p].admin = org[p].admin
        /\ UNCHANGED <<database, saga>>
    BY <1>4 DEF remove, restore, connVars, SagaInv, Rows
  <2> QED BY <1>4, <2>1, BareStays DEF Bare
<1>5. ASSUME NEW o \in Orgs PROVE ~ensureOrganizationRuntimeReady(o)
  BY DEF ensureOrganizationRuntimeReady, Clean
<1>6. ASSUME NEW o \in Orgs, NEW r \in requests, TenantRequest(r, o), revived' = revived
      PROVE  Bare'
  BY <1>1, <1>6 DEF TenantRequest, Ask
<1>7. ASSUME NEW c \in Callers, Manager(c), revived' = revived PROVE Bare'
  <2>1. UNCHANGED <<database, org, saga>>
    BY <1>7 DEF Manager, getOrCreateConnection, UseCached, AwaitLock, createConnection,
                Connected, NotConnected, Destroyed, Release
  <2> QED BY <1>1, <1>7, <2>1
<1>8. ~Crash
  BY DEF Crash, SagaInv, Rows
<1>9. CASE UNCHANGED vars
  BY <1>1, <1>9 DEF vars, connVars
<1>10. CASE Others /\ UNCHANGED editVars
  <2>1. revived' = revived
    BY <1>10 DEF editVars
  <2> QED BY <1>2, <1>3, <1>4, <1>5, <1>6, <1>7, <1>10, <2>1 DEF Others
<1> QED BY <1>8, <1>9, <1>10, UpdateLeavesBare DEF Next

LEMMA InitClean == Init => CleanInv /\ BareInv
  BY DEF Init, ConnInit, CleanInv, Clean, Exists, BareInv, Bare

-----------------------------------------------------------------------------
(* As long as no request changes a subdomain, an organization that was     *)
(* completed stays complete and has a database of its own, whatever        *)
(* creations fail and are rolled back, whatever an update saves late, and  *)
(* wherever the server stops; and the cache of connections is exact.       *)
THEOREM CompleteOrganizationsStay ==
    ASSUME "rename" \notin Ops
    PROVE  Spec => [](/\ ReadyStaysReady /\ OneDatabasePerOrganization
                      /\ ConnectionsSound)
<1>1. SagaInv /\ CacheInv /\ EditsInv /\ [Next]_vars => (SagaInv /\ CacheInv /\ EditsInv)'
  BY NextPreservesCache, NextPreservesSaga, NextPreservesEdits
<1>2. SagaInv => OneDatabasePerOrganization
  BY DEF SagaInv, Rows, OwnDatabase, ReadyStaysReady, OneDatabasePerOrganization
<1>3. SagaInv /\ CacheInv => /\ ReadyStaysReady /\ OneDatabasePerOrganization
                             /\ ConnectionsSound
  BY <1>2, CacheInvImplies DEF SagaInv
<1> QED BY InitSaga, <1>1, <1>3, PTL DEF Spec

(* As long as no subdomain changes, the server does not stop and no        *)
(* rollback fails: whatever step of a creation fails, and however several  *)
(* creations and updates overlap, every organization is complete, or on    *)
(* its way, or a row alone that an update put back after its rollback; and *)
(* every database is that of an organization.                              *)
THEOREM FailedCreationsLeaveNothing ==
    ASSUME "rename" \notin Ops
    PROVE  Spec => []NothingHalfProvisioned
<1> DEFINE IInv == SagaInv /\ CacheInv /\ EditsInv /\ CleanInv /\ BareInv
<1>1. IInv /\ [Next]_vars => IInv'
  BY NextPreservesCache, NextPreservesSaga, NextPreservesEdits, CleanKept, BareKept
<1>2. Init => IInv
  BY InitSaga, InitClean
<1>3. IInv => NothingHalfProvisioned
  <2> SUFFICES ASSUME Clean, Bare PROVE NothingHalfProvisioned
    BY DEF CleanInv, BareInv, NothingHalfProvisioned
  <2>1. \A o \in Orgs : Making(o) => Provisioning(o)
    BY DEF Making, Provisioning
  <2>2. \A o \in Orgs : IsRow(o) => org[o] # NoOrg
    OBVIOUS
  <2>3. \A o \in Orgs : org[o] # NoOrg => o \in ready \/ Provisioning(o) \/ o \in revived
    BY <2>1 DEF Clean
  <2>4. \A d \in Databases : Exists(d) => \E o \in Orgs : org[o] # NoOrg /\ org[o].dbName = d
    BY <2>2 DEF Clean
  <2>5. \A o \in revived : ~Exists(org[o].dbName) /\ ~org[o].admin
    BY DEF Bare
  <2> QED BY <2>3, <2>4, <2>5 DEF NothingHalfProvisioned
<1> HIDE DEF IInv
<1> QED BY <1>1, <1>2, <1>3, PTL DEF Spec

=============================================================================
