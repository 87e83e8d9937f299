--------------------------- MODULE TopicStore_proofs ---------------------------
(***************************************************************************)
(* Proofs about the lock cache, for any number of keys, tasks and locks.    *)
(*                                                                         *)
(*  - The cache never outgrows MaxLocks (CacheIsBounded).                   *)
(*  - With at least as many places as keys, tasks exclude each other on     *)
(*    every key (LocksExclude).  The inductive invariant says that the      *)
(*    cache has one lock per key and that a lock in use is in the cache;    *)
(*    nothing is evicted, since a cache of distinct keys cannot be longer   *)
(*    than the set of keys (a pigeonhole argument).                         *)
(*                                                                         *)
(* And about TopicStore, for any number of tasks, topics and stores.        *)
(*                                                                         *)
(*  - Its types (StoreTypes), and mutual exclusion on every lock key        *)
(*    (StoreExcludes), which follows from the lemmas on the lock cache      *)
(*    because every step of the store does one lock operation or none.      *)
(*  - A task holds one lock at most (LocksAreNotNested), because every task *)
(*    is in its place: the lock it holds or waits for is the one of what it *)
(*    works on (Places).                                                    *)
(*  - No task is forgotten (NoTaskIsForgotten): who is in an operation is   *)
(*    in its block, or in the queue of a lock that somebody at work holds   *)
(*    or that its head can take.                                            *)
(*  - The store implements TopicMap (StoreImplementsTopicMap): what a task  *)
(*    has in hand is still what its file says (Current), so a write takes   *)
(*    effect on the present content; and a write changes its own topic only *)
(*    (WritesAreConfined).                                                  *)
(***************************************************************************)
EXTENDS TopicStore, FiniteSetTheorems, SequenceTheorems, WellFoundedInduction,
        NaturalsInduction, TLAPS

-------------------------------------------------------------------------------
(***************************************************************************)
(* Sequences with one element removed, or moved to the end.                 *)
(***************************************************************************)

(***************************************************************************)
(* RemoveAt drops the element at position i and closes the gap (OrderedDict *)
(* deletion in _evict_cold_locks).                                          *)
(***************************************************************************)
LEMMA RemoveAtProperties ==
  ASSUME NEW S, NEW s \in Seq(S), NEW i \in 1..Len(s)
  PROVE  /\ RemoveAt(s, i) \in Seq(S)
         /\ Len(RemoveAt(s, i)) = Len(s) - 1
         /\ \A j \in 1..(Len(s) - 1) :
              RemoveAt(s, i)[j] = IF j < i THEN s[j] ELSE s[j + 1]
<1> DEFINE a == SubSeq(s, 1, i - 1)
           b == SubSeq(s, i + 1, Len(s))
<1>1. Len(s) \in Nat /\ \A j \in 1..Len(s) : s[j] \in S
  BY LenProperties
<1>2. /\ a \in Seq(S)
      /\ Len(a) = i - 1
      /\ \A j \in 1..(i - 1) : a[j] = s[j]
  <2>1. /\ i - 1 \in Int
        /\ \A j \in 1..(i - 1) : s[j] \in S
    BY <1>1
  <2>2. /\ SubSeq(s, 1, i - 1) \in Seq(S)
        /\ Len(SubSeq(s, 1, i - 1)) = IF 1 <= i - 1 THEN i - 1 - 1 + 1 ELSE 0
        /\ \A j \in 1..(i - 1 - 1 + 1) : SubSeq(s, 1, i - 1)[j] = s[1 + j - 1]
    BY <2>1, SubSeqProperties
  <2> QED BY <1>1, <2>2
<1>3. /\ b \in Seq(S)
      /\ Len(b) = Len(s) - i
      /\ \A j \in 1..(Len(s) - i) : b[j] = s[i + j]
  <2>1. /\ i + 1 \in Int
        /\ \A j \in (i + 1)..Len(s) : s[j] \in S
    BY <1>1
  <2>2. /\ SubSeq(s, i + 1, Len(s)) \in Seq(S)
        /\ Len(SubSeq(s, i + 1, Len(s))) = IF i + 1 <= Len(s) THEN Len(s) - (i + 1) + 1 ELSE 0
        /\ \A j \in 1..(Len(s) - (i + 1) + 1) : SubSeq(s, i + 1, Len(s))[j] = s[(i + 1) + j - 1]
    BY <1>1, <2>1, SubSeqProperties
  <2> QED BY <1>1, <2>2
<1>4. RemoveAt(s, i) = a \o b
  BY DEF RemoveAt
<1> HIDE DEF a, b
<1>5. /\ a \o b \in Seq(S)
      /\ Len(a \o b) = Len(a) + Len(b)
      /\ \A j \in 1..(Len(a) + Len(b)) :
           (a \o b)[j] = IF j <= Len(a) THEN a[j] ELSE b[j - Len(a)]
  BY <1>2, <1>3, ConcatProperties
<1>6. ASSUME NEW j \in 1..(Len(s) - 1)
      PROVE  (a \o b)[j] = IF j < i THEN s[j] ELSE s[j + 1]
  <2>1. CASE j < i
    BY <2>1, <1>1, <1>2, <1>3, <1>5
  <2>2. CASE ~(j < i)
    <3>1. j - (i - 1) \in 1..(Len(s) - i)
      BY <2>2, <1>1
    <3>2. (a \o b)[j] = b[j - (i - 1)]
      BY <2>2, <1>1, <1>2, <1>3, <1>5
    <3>3. b[j - (i - 1)] = s[i + (j - (i - 1))]
      BY <3>1, <1>3
    <3>4. i + (j - (i - 1)) = j + 1
      BY <1>1
    <3> QED BY <3>2, <3>3, <3>4, <2>2
  <2> QED BY <2>1, <2>2
<1> QED BY <1>1, <1>2, <1>3, <1>4, <1>5, <1>6

(***************************************************************************)
(* Moving the element at position i to the end (move_to_end on a hit) keeps *)
(* the length and the elements, and keeps distinct keys distinct.           *)
(***************************************************************************)
KeysDistinct(s) == \A i, j \in 1..Len(s) : s[i][1] = s[j][1] => i = j

\* A hit moves the lock to the end: same length, same locks, keys still distinct.
LEMMA MoveToEndProperties ==
  ASSUME NEW s \in Seq(Lock), NEW i \in 1..Len(s), KeysDistinct(s),
         NEW t \in Seq(Lock), t = Append(RemoveAt(s, i), s[i])
  PROVE  /\ Len(t) = Len(s)
         /\ KeysDistinct(t)
         /\ \A j \in 1..Len(s) : \E k \in 1..Len(t) : t[k] = s[j]
<1> DEFINE r == RemoveAt(s, i)
<1>1. Len(s) \in Nat /\ s[i] \in Lock
  BY LenProperties
<1>2. /\ r \in Seq(Lock)
      /\ Len(r) = Len(s) - 1
      /\ \A j \in 1..(Len(s) - 1) : r[j] = IF j < i THEN s[j] ELSE s[j + 1]
  BY RemoveAtProperties
<1> HIDE DEF r
<1>3. /\ t \in Seq(Lock)
      /\ Len(t) = Len(r) + 1
      /\ \A j \in 1..Len(r) : t[j] = r[j]
      /\ t[Len(r) + 1] = s[i]
  <2>1. t = Append(r, s[i])
    BY DEF r
  <2> QED BY <2>1, <1>1, <1>2, AppendProperties
<1>4. /\ Len(t) = Len(s)
      /\ \A j \in 1..Len(s) :
           t[j] = IF j < i THEN s[j] ELSE IF j < Len(s) THEN s[j + 1] ELSE s[i]
  <2>1. Len(t) = Len(s)
    BY <1>1, <1>2, <1>3
  <2>2. ASSUME NEW j \in 1..Len(s), j < Len(s)
        PROVE  t[j] = IF j < i THEN s[j] ELSE s[j + 1]
    <3>1. j \in 1..Len(r) /\ j \in 1..(Len(s) - 1)
      BY <2>2, <1>1, <1>2
    <3> QED BY <3>1, <1>2, <1>3
  <2>3. t[Len(s)] = s[i]
    <3>1. Len(r) + 1 = Len(s)
      BY <1>1, <1>2
    <3> QED BY <3>1, <1>3
  <2>4. ASSUME NEW j \in 1..Len(s)
        PROVE  t[j] = IF j < i THEN s[j] ELSE IF j < Len(s) THEN s[j + 1] ELSE s[i]
    <3>1. CASE j < Len(s)
      BY <3>1, <2>2
    <3>2. CASE j = Len(s)
      <4>1. ~(j < i) /\ ~(j < Len(s))
        BY <3>2, <1>1
      <4> QED BY <4>1, <3>2, <2>3
    <3>3. j < Len(s) \/ j = Len(s)
      BY <1>1
    <3> QED BY <3>1, <3>2, <3>3, Zenon
  <2> QED BY <2>1, <2>4
<1>5. KeysDistinct(t)
  <2> SUFFICES ASSUME NEW j \in 1..Len(s), NEW k \in 1..Len(s), t[j][1] = t[k][1]
               PROVE  j = k
    BY <1>4 DEF KeysDistinct
  <2> DEFINE src(n) == IF n < i THEN n ELSE IF n < Len(s) THEN n + 1 ELSE i
  <2>1. /\ src(j) \in 1..Len(s) /\ t[j] = s[src(j)]
        /\ src(k) \in 1..Len(s) /\ t[k] = s[src(k)]
    BY <1>1, <1>4
  <2>2. src(j) = src(k)
    BY <2>1 DEF KeysDistinct
  <2> QED BY <2>2, <1>1
<1>6. ASSUME NEW j \in 1..Len(s)
      PROVE  \E k \in 1..Len(t) : t[k] = s[j]
  <2>1. Len(t) = Len(s)
    BY <1>4
  <2>2. CASE j < i
    BY <2>1, <2>2, <1>1, <1>4
  <2>3. CASE j = i
    <3>1. t[Len(s)] = s[i] /\ Len(s) \in 1..Len(t)
      BY <2>1, <1>1, <1>4
    <3> QED BY <3>1, <2>3
  <2>4. CASE j > i
    <3>1. t[j - 1] = s[j] /\ j - 1 \in 1..Len(t)
      BY <2>1, <2>4, <1>1, <1>4
    <3> QED BY <3>1
  <2> QED BY <2>2, <2>3, <2>4, <1>1
<1> QED BY <1>3, <1>4, <1>5, <1>6

(***************************************************************************)
(* A cache with distinct keys is no longer than there are keys.             *)
(***************************************************************************)
LEMMA DistinctKeysBound ==
  ASSUME NEW s \in Seq(Lock), KeysDistinct(s), IsFiniteSet(Key)
  PROVE  Len(s) <= Cardinality(Key)
<1> DEFINE f == [i \in 1..Len(s) |-> s[i][1]]
<1>1. Len(s) \in Nat /\ \A i \in 1..Len(s) : s[i] \in Lock
  BY LenProperties
<1>2. f \in [1..Len(s) -> Key]
  BY <1>1 DEF Lock
<1>3. IsFiniteSet(1..Len(s)) /\ Cardinality(1..Len(s)) = Len(s)
  <2>1. 1 \in Int /\ Len(s) \in Int
    BY <1>1
  <2>2. /\ IsFiniteSet(1..Len(s))
        /\ Cardinality(1..Len(s)) = IF 1 > Len(s) THEN 0 ELSE Len(s) - 1 + 1
    BY <2>1, FS_Interval, Zenon
  <2> QED BY <1>1, <2>2
<1>4. Cardinality(Key) \in Nat
  BY FS_CardinalityType
<1>5. ~ Cardinality(Key) < Cardinality(1..Len(s))
  <2>1. ASSUME Cardinality(Key) < Cardinality(1..Len(s))
        PROVE  FALSE
    <3>1. \E x, y \in 1..Len(s) : x # y /\ f[x] = f[y]
      <4> HIDE DEF f
      <4> QED BY <2>1, <1>2, <1>3, FS_PigeonHole, Zenon
    <3> QED BY <3>1 DEF KeysDistinct
  <2> QED BY <2>1
<1> QED BY <1>1, <1>3, <1>4, <1>5

-------------------------------------------------------------------------------
(***************************************************************************)
(* The cache at its limit.                                                  *)
(***************************************************************************)

(***************************************************************************)
(* Among the entries of c there is a coldest unlocked one, when any is      *)
(* unlocked: the loop of _evict_cold_locks finds something to drop.         *)
(***************************************************************************)
LEMMA ColdestExists ==
  ASSUME NEW c \in Seq(Lock), NEW h, NEW n \in 1..Len(c), ~Locked(h, c[n])
  PROVE  \E i \in 1..Len(c) : Coldest(c, h, i)
<1> DEFINE T == {i \in 1..Len(c) : ~Locked(h, c[i])}
<1>1. Len(c) \in Nat
  BY LenProperties
<1>2. T \subseteq Nat /\ T # {}
  BY <1>1
<1>3. PICK i \in T : \A j \in T : ~(<<j, i>> \in OpToRel(<, Nat))
  BY <1>2, NatLessThanWellFounded, WFMin
<1>4. \A j \in 1..(i - 1) : Locked(h, c[j])
  <2> SUFFICES ASSUME NEW j \in 1..(i - 1), ~Locked(h, c[j])
               PROVE  FALSE
    OBVIOUS
  <2>1. j \in 1..Len(c) /\ i \in Nat /\ j \in Nat /\ j < i
    <3>1. i \in 1..Len(c)
      BY <1>3
    <3> QED BY <1>1, <3>1
  <2>2. <<j, i>> \in OpToRel(<, Nat)
    BY <2>1 DEF OpToRel
  <2>3. j \in T
    BY <2>1
  <2> QED BY <1>3, <2>2, <2>3
<1> QED BY <1>3, <1>4 DEF Coldest

(***************************************************************************)
(* Trimming a cache that a new, unlocked entry took one over the limit      *)
(* leaves a cache within the limit.                                         *)
(***************************************************************************)
LEMMA EvictColdProperties ==
  ASSUME NEW c \in Seq(Lock), NEW h, NEW n \in 1..Len(c), ~Locked(h, c[n]),
         Len(c) <= MaxLocks + 1
  PROVE  EvictCold(c, h) \in Seq(Lock) /\ Len(EvictCold(c, h)) <= MaxLocks
<1>1. CASE Len(c) <= MaxLocks
  BY <1>1 DEF EvictCold
<1>2. CASE ~(Len(c) <= MaxLocks)
  <2> DEFINE i == CHOOSE i \in 1..Len(c) : Coldest(c, h, i)
  <2>1. i \in 1..Len(c)
    BY ColdestExists
  <2>2. EvictCold(c, h) = RemoveAt(c, i)
    BY <1>2 DEF EvictCold
  <2> HIDE DEF i
  <2>3. RemoveAt(c, i) \in Seq(Lock) /\ Len(RemoveAt(c, i)) = Len(c) - 1
    BY <2>1, RemoveAtProperties
  <2>4. Len(c) \in Nat /\ MaxLocks \in Nat
    BY LenProperties, MaxLocksAssumption
  <2> QED BY <2>2, <2>3, <2>4
<1> QED BY <1>1, <1>2

-------------------------------------------------------------------------------
(***************************************************************************)
(* Types and the bound on the cache, step by step.                          *)
(***************************************************************************)
Holders == [Lock -> Proc \cup {NoProc}]

\* Handing a lock to a task that takes it, or queues on it.
LEMMA EnterTypes ==
  ASSUME LocksTypeOK, CacheBounded, NEW p \in Proc, NEW k, NEW h \in Holders,
         EnterFrom(p, k, h)
  PROVE  LocksTypeOK' /\ CacheBounded'
<1>1. PICK l \in Lock :
        /\ LockFor(k, l, h)
        /\ IF InUse(h, l)
           THEN waiters' = [waiters EXCEPT ![l] = Append(@, p)] /\ holder' = h
           ELSE holder' = [h EXCEPT ![l] = p] /\ UNCHANGED waiters
  BY DEF EnterFrom
<1>2. cache \in Seq(Lock) /\ Len(cache) \in Nat /\ MaxLocks \in Nat
  BY LenProperties, MaxLocksAssumption DEF LocksTypeOK
<1>3. cache' \in Seq(Lock) /\ Len(cache') <= MaxLocks
  <2>1. CASE \E i \in 1..Len(cache) : cache[i] = l /\ cache' = Append(RemoveAt(cache, i), l)
    <3>1. PICK i \in 1..Len(cache) : cache[i] = l /\ cache' = Append(RemoveAt(cache, i), l)
      BY <2>1
    <3>2. RemoveAt(cache, i) \in Seq(Lock) /\ Len(RemoveAt(cache, i)) = Len(cache) - 1
      BY <1>2, RemoveAtProperties
    <3>3. cache' \in Seq(Lock) /\ Len(cache') = Len(RemoveAt(cache, i)) + 1
      BY <3>1, <3>2, AppendProperties
    <3> QED BY <3>2, <3>3, <1>2 DEF CacheBounded
  <2>2. CASE IsNewLock(k, l, h) /\ cache' = EvictCold(Append(cache, l), h)
    <3> DEFINE c == Append(cache, l)
    <3>1. /\ c \in Seq(Lock)
          /\ Len(c) = Len(cache) + 1
          /\ c[Len(cache) + 1] = l
      BY <1>2, AppendProperties
    <3> HIDE DEF c
    <3>2. Len(cache) + 1 \in 1..Len(c) /\ ~Locked(h, c[Len(cache) + 1]) /\ Len(c) <= MaxLocks + 1
      BY <3>1, <2>2, <1>2 DEF IsNewLock, InUse, CacheBounded
    <3>3. EvictCold(c, h) \in Seq(Lock) /\ Len(EvictCold(c, h)) <= MaxLocks
      BY <3>1, <3>2, EvictColdProperties
    <3> QED BY <3>3, <2>2 DEF c
  <2> QED BY <1>1, <2>1, <2>2 DEF LockFor
<1>4. holder' \in Holders /\ waiters' \in [Lock -> Seq(Proc)]
  <2>1. waiters[l] \in Seq(Proc)
    BY DEF LocksTypeOK
  <2>2. Append(waiters[l], p) \in Seq(Proc)
    BY <2>1, AppendProperties
  <2> QED BY <1>1, <2>2 DEF LocksTypeOK, Holders
<1> QED BY <1>3, <1>4 DEF LocksTypeOK, CacheBounded, Holders

\* The event loop resumes the oldest task in the queue.
LEMMA ResumeTypes ==
  ASSUME LocksTypeOK, CacheBounded, NEW p \in Proc, Resume(p)
  PROVE  LocksTypeOK' /\ CacheBounded'
<1>1. PICK l \in Lock :
        /\ waiters[l] # <<>>
        /\ holder' = [holder EXCEPT ![l] = p]
        /\ waiters' = [waiters EXCEPT ![l] = Tail(@)]
        /\ UNCHANGED cache
  BY DEF Resume
<1>2. Tail(waiters[l]) \in Seq(Proc)
  BY <1>1, HeadTailProperties DEF LocksTypeOK
<1> QED BY <1>1, <1>2 DEF LocksTypeOK, CacheBounded

\* A lock is released.
LEMMA LeaveTypes ==
  ASSUME LocksTypeOK, CacheBounded, NEW p \in Proc, Leave(p)
  PROVE  LocksTypeOK' /\ CacheBounded'
BY DEF Leave, LocksTypeOK, CacheBounded

\* A lock is released and another is asked for in the same step.
LEMMA LeaveEnterTypes ==
  ASSUME LocksTypeOK, CacheBounded, NEW p \in Proc, NEW k, LeaveEnter(p, k)
  PROVE  LocksTypeOK' /\ CacheBounded'
<1>1. PICK l \in Lock : EnterFrom(p, k, [holder EXCEPT ![l] = NoProc])
  BY DEF LeaveEnter
<1>2. [holder EXCEPT ![l] = NoProc] \in Holders
  BY DEF LocksTypeOK, Holders
<1> QED BY <1>1, <1>2, EnterTypes

(***************************************************************************)
(* The cache of locks stays well formed and within MaxLocks, also when all  *)
(* its locks are held at the time a new key comes in.                       *)
(***************************************************************************)
THEOREM CacheIsBounded == LocksSpec => [](LocksTypeOK /\ CacheBounded)
<1>1. LocksInit => LocksTypeOK /\ CacheBounded
  BY MaxLocksAssumption DEF LocksInit, LocksTypeOK, CacheBounded
<1>2. LocksTypeOK /\ CacheBounded /\ [LocksNext]_lockVars => LocksTypeOK' /\ CacheBounded'
  <2> SUFFICES ASSUME LocksTypeOK, CacheBounded, [LocksNext]_lockVars
               PROVE  LocksTypeOK' /\ CacheBounded'
    OBVIOUS
  <2>1. CASE UNCHANGED lockVars
    BY <2>1 DEF lockVars, LocksTypeOK, CacheBounded
  <2>2. ASSUME NEW p \in Proc, NEW k \in Key, Enter(p, k)
        PROVE  LocksTypeOK' /\ CacheBounded'
    BY <2>2, EnterTypes DEF Enter, Holders, LocksTypeOK
  <2>3. ASSUME NEW p \in Proc, Resume(p)
        PROVE  LocksTypeOK' /\ CacheBounded'
    BY <2>3, ResumeTypes
  <2>4. ASSUME NEW p \in Proc, Leave(p)
        PROVE  LocksTypeOK' /\ CacheBounded'
    BY <2>4, LeaveTypes
  <2>5. ASSUME NEW p \in Proc, NEW k \in Key, LeaveEnter(p, k)
        PROVE  LocksTypeOK' /\ CacheBounded'
    BY <2>5, LeaveEnterTypes
  <2> QED BY <2>1, <2>2, <2>3, <2>4, <2>5 DEF LocksNext, LocksStep
<1> QED BY <1>1, <1>2, PTL DEF LocksSpec

-------------------------------------------------------------------------------
(***************************************************************************)
(* Mutual exclusion, with room for a lock per key.                          *)
(***************************************************************************)
AmpleCache == IsFiniteSet(Key) /\ Cardinality(Key) <= MaxLocks

(***************************************************************************)
(* The inductive invariant, for the state h the locks are in.               *)
(***************************************************************************)
CachedIn(h) ==
  \A l \in Lock : InUse(h, l) => \E i \in 1..Len(cache) : cache[i] = l

OneLockPerKey == LocksTypeOK /\ CacheBounded /\ KeysDistinct(cache) /\ CachedIn(holder)

\* With room for all keys nothing is evicted, so a lock that is entered stays in the cache.
LEMMA EnterKeepsOneLockPerKey ==
  ASSUME AmpleCache, LocksTypeOK, CacheBounded, KeysDistinct(cache),
         NEW p \in Proc, NEW k, NEW h \in Holders, CachedIn(h), EnterFrom(p, k, h)
  PROVE  OneLockPerKey'
<1>1. PICK l \in Lock :
        /\ LockFor(k, l, h)
        /\ IF InUse(h, l)
           THEN waiters' = [waiters EXCEPT ![l] = Append(@, p)] /\ holder' = h
           ELSE holder' = [h EXCEPT ![l] = p] /\ UNCHANGED waiters
  BY DEF EnterFrom
<1>2. cache \in Seq(Lock) /\ Len(cache) \in Nat
  BY LenProperties DEF LocksTypeOK
<1>3. /\ KeysDistinct(cache')
      /\ \A j \in 1..Len(cache) : \E i \in 1..Len(cache') : cache'[i] = cache[j]
      /\ \E i \in 1..Len(cache') : cache'[i] = l
  <2>1. ASSUME NEW i \in 1..Len(cache), cache[i] = l, cache' = Append(RemoveAt(cache, i), l)
        PROVE  <1>3!1 /\ <1>3!2 /\ <1>3!3
    <3>1. /\ KeysDistinct(cache')
          /\ \A j \in 1..Len(cache) : \E n \in 1..Len(cache') : cache'[n] = cache[j]
      <4> DEFINE t == Append(RemoveAt(cache, i), cache[i])
      <4>1. cache' = t
        BY <2>1
      <4>2. t \in Seq(Lock)
        BY <1>2, <2>1, RemoveAtProperties, AppendProperties
      <4>3. \A u \in Seq(Lock) :
              u = t => /\ KeysDistinct(u)
                       /\ \A j \in 1..Len(cache) : \E n \in 1..Len(u) : u[n] = cache[j]
        BY <1>2, MoveToEndProperties, Zenon
      <4> HIDE DEF t
      <4> QED BY <4>1, <4>2, <4>3
    <3> QED BY <3>1, <2>1
  <2>2. ASSUME \A i \in 1..Len(cache) : cache[i][1] # k,
               IsNewLock(k, l, h),
               cache' = EvictCold(Append(cache, l), h)
        PROVE  <1>3!1 /\ <1>3!2 /\ <1>3!3
    <3> DEFINE c == Append(cache, l)
    <3>1. /\ c \in Seq(Lock)
          /\ Len(c) = Len(cache) + 1
          /\ \A i \in 1..Len(cache) : c[i] = cache[i]
          /\ c[Len(cache) + 1] = l
      BY <1>2, AppendProperties
    <3> HIDE DEF c
    <3>2. l[1] = k
      BY <2>2 DEF IsNewLock
    <3>3. KeysDistinct(c)
      <4> SUFFICES ASSUME NEW i \in 1..Len(c), NEW j \in 1..Len(c), c[i][1] = c[j][1]
                   PROVE  i = j
        BY DEF KeysDistinct
      <4>1. CASE i \in 1..Len(cache) /\ j \in 1..Len(cache)
        BY <4>1, <3>1 DEF KeysDistinct
      <4>2. CASE i = Len(cache) + 1 /\ j \in 1..Len(cache)
        BY <4>2, <3>1, <3>2, <2>2
      <4>3. CASE i \in 1..Len(cache) /\ j = Len(cache) + 1
        BY <4>3, <3>1, <3>2, <2>2
      <4>4. CASE i = Len(cache) + 1 /\ j = Len(cache) + 1
        BY <4>4
      <4> QED BY <4>1, <4>2, <4>3, <4>4, <3>1, <1>2
    <3>4. Len(c) <= MaxLocks
      <4>1. Len(c) <= Cardinality(Key)
        BY <3>1, <3>3, DistinctKeysBound DEF AmpleCache
      <4>2. Len(c) \in Nat /\ Cardinality(Key) \in Nat /\ MaxLocks \in Nat
        BY <3>1, <1>2, FS_CardinalityType, MaxLocksAssumption DEF AmpleCache
      <4> QED BY <4>1, <4>2 DEF AmpleCache
    <3>5. cache' = c
      BY <3>4, <2>2 DEF EvictCold, c
    <3> QED BY <3>1, <3>3, <3>5, <1>2
  <2> QED BY <1>1, <2>1, <2>2 DEF LockFor
<1>4. CachedIn(holder)'
  <2> SUFFICES ASSUME NEW m \in Lock, InUse(holder, m)'
               PROVE  \E i \in 1..Len(cache') : cache'[i] = m
    BY DEF CachedIn
  <2>1. CASE m = l
    BY <2>1, <1>3
  <2>2. CASE m # l
    <3>1. InUse(h, m)
      BY <2>2, <1>1 DEF InUse, Locked, LocksTypeOK, Holders
    <3>2. \E j \in 1..Len(cache) : cache[j] = m
      BY <3>1 DEF CachedIn
    <3> QED BY <3>2, <1>3
  <2> QED BY <2>1, <2>2
<1>5. LocksTypeOK' /\ CacheBounded'
  BY EnterTypes
<1> QED BY <1>3, <1>4, <1>5 DEF OneLockPerKey

\* A resumed task was queued on its lock, which was in use before.
LEMMA ResumeKeepsOneLockPerKey ==
  ASSUME OneLockPerKey, NEW p \in Proc, Resume(p)
  PROVE  OneLockPerKey'
<1>1. LocksTypeOK' /\ CacheBounded'
  BY ResumeTypes DEF OneLockPerKey
<1>2. \A l \in Lock : InUse(holder, l)' => InUse(holder, l)
  BY DEF Resume, OneLockPerKey, LocksTypeOK, InUse, Locked
<1> QED BY <1>1, <1>2 DEF OneLockPerKey, CachedIn, Resume

\* Releasing a lock puts no other one into use.
LEMMA LeaveKeepsOneLockPerKey ==
  ASSUME OneLockPerKey, NEW p \in Proc, Leave(p)
  PROVE  OneLockPerKey'
<1>1. LocksTypeOK' /\ CacheBounded'
  BY LeaveTypes DEF OneLockPerKey
<1>2. \A l \in Lock : InUse(holder, l)' => InUse(holder, l)
  BY DEF Leave, OneLockPerKey, LocksTypeOK, InUse, Locked
<1> QED BY <1>1, <1>2 DEF OneLockPerKey, CachedIn, Leave

\* Releasing and entering is a release followed by an entry.
LEMMA LeaveEnterKeepsOneLockPerKey ==
  ASSUME AmpleCache, OneLockPerKey, NEW p \in Proc, NEW k, LeaveEnter(p, k)
  PROVE  OneLockPerKey'
<1>1. PICK l \in Lock : EnterFrom(p, k, [holder EXCEPT ![l] = NoProc])
  BY DEF LeaveEnter
<1> DEFINE h == [holder EXCEPT ![l] = NoProc]
<1>2. h \in Holders /\ CachedIn(h)
  BY DEF OneLockPerKey, LocksTypeOK, Holders, CachedIn, InUse, Locked
<1> QED BY <1>1, <1>2, EnterKeepsOneLockPerKey DEF OneLockPerKey

\* Locks in use are cached, and the cache has one per key: two holders of a key hold one lock.
LEMMA OneLockPerKeyExcludes == OneLockPerKey => MutualExclusion /\ InUseIsCached
<1> SUFFICES ASSUME OneLockPerKey
             PROVE  MutualExclusion /\ InUseIsCached
  OBVIOUS
<1>1. InUseIsCached
  BY DEF OneLockPerKey, CachedIn, InUseIsCached
<1>2. ASSUME NEW l \in Lock, NEW m \in Lock,
             Locked(holder, l), Locked(holder, m), l[1] = m[1]
      PROVE  l = m
  <2>1. PICK i \in 1..Len(cache) : cache[i] = l
    BY <1>1, <1>2 DEF InUseIsCached, InUse
  <2>2. PICK j \in 1..Len(cache) : cache[j] = m
    BY <1>1, <1>2 DEF InUseIsCached, InUse
  <2>3. i = j
    BY <1>2, <2>1, <2>2 DEF OneLockPerKey, KeysDistinct
  <2> QED BY <2>1, <2>2, <2>3
<1> QED BY <1>1, <1>2 DEF MutualExclusion

(***************************************************************************)
(* With room for a lock per key, no two tasks are ever inside blocks        *)
(* guarded by the same key, and the lock a task holds or waits for is the   *)
(* one _lock_for hands out, whatever the number of tasks and keys.          *)
(***************************************************************************)
THEOREM LocksExclude ==
  ASSUME AmpleCache
  PROVE  LocksSpec => [](MutualExclusion /\ InUseIsCached)
<1>1. LocksInit => OneLockPerKey
  BY MaxLocksAssumption
  DEF LocksInit, OneLockPerKey, LocksTypeOK, CacheBounded, KeysDistinct, CachedIn, InUse, Locked
<1>2. OneLockPerKey /\ [LocksNext]_lockVars => OneLockPerKey'
  <2> SUFFICES ASSUME OneLockPerKey, [LocksNext]_lockVars
               PROVE  OneLockPerKey'
    OBVIOUS
  <2>1. CASE UNCHANGED lockVars
    BY <2>1 DEF lockVars, OneLockPerKey, LocksTypeOK, CacheBounded, KeysDistinct, CachedIn,
               InUse, Locked
  <2>2. ASSUME NEW p \in Proc, NEW k \in Key, Enter(p, k)
        PROVE  OneLockPerKey'
    BY <2>2, EnterKeepsOneLockPerKey DEF Enter, Holders, LocksTypeOK, OneLockPerKey
  <2>3. ASSUME NEW p \in Proc, Resume(p)
        PROVE  OneLockPerKey'
    BY <2>3, ResumeKeepsOneLockPerKey
  <2>4. ASSUME NEW p \in Proc, Leave(p)
        PROVE  OneLockPerKey'
    BY <2>4, LeaveKeepsOneLockPerKey
  <2>5. ASSUME NEW p \in Proc, NEW k \in Key, LeaveEnter(p, k)
        PROVE  OneLockPerKey'
    BY <2>5, LeaveEnterKeepsOneLockPerKey
  <2> QED BY <2>1, <2>2, <2>3, <2>4, <2>5 DEF LocksNext, LocksStep
<1> QED BY <1>1, <1>2, OneLockPerKeyExcludes, PTL DEF LocksSpec

-------------------------------------------------------------------------------
(***************************************************************************)
(* Every step of the store is one lock operation of one task, or leaves the *)
(* locks alone.                                                             *)
(***************************************************************************)
LockOperation ==
  \/ \E p \in Proc : \E k : Enter(p, k) \/ LeaveEnter(p, k)
  \/ \E p \in Proc : Resume(p) \/ Leave(p)
  \/ UNCHANGED lockVars

\* Every action of the store calls one of the operations of TopicLocks, or none.
LEMMA StepIsLockOperation == [Next]_storeVars => LockOperation
<1> SUFFICES ASSUME [Next]_storeVars
             PROVE  LockOperation
  OBVIOUS
<1>1. CASE UNCHANGED storeVars
  BY <1>1 DEF storeVars, lockVars, LockOperation
<1>2. ASSUME NEW p \in Proc, NEW op \in Operation, NEW t \in Topic, Begin(p, op, t)
      PROVE  LockOperation
  BY <1>2 DEF Begin, LockOperation
<1>3. ASSUME NEW p \in Proc, End(p)
      PROVE  LockOperation
  BY <1>3 DEF End, LockOperation
<1>4. ASSUME NEW p \in Proc, NEW hits, NextHit(p, hits)
      PROVE  LockOperation
  BY <1>3, <1>4 DEF NextHit, LockOperation
<1>5. ASSUME NEW p \in Proc, AfterAccess(p)
      PROVE  LockOperation
  BY <1>3, <1>4, <1>5 DEF AfterAccess
<1>6. ASSUME NEW p \in Proc, NEW found, EndScan(p, found)
      PROVE  LockOperation
  BY <1>3, <1>4, <1>6 DEF EndScan, Ranked
<1>7. ASSUME NEW p \in Proc, Progress(p)
      PROVE  LockOperation
  <2>1. CASE Wake(p)
    BY <2>1 DEF Wake, LockOperation
  <2>2. CASE ReadTopic(p)
    BY <2>2, <1>5 DEF ReadTopic, LockOperation
  <2>3. CASE LoadFile(p)
    BY <2>3, <1>3 DEF LoadFile, LockOperation
  <2>4. CASE Put(p) \/ Upsert(p)
    BY <2>4, <1>3, <1>5 DEF Put, Upsert, AfterPut, LockOperation
  <2>5. CASE WriteRaises(p) \/ RemoteFails(p)
    BY <2>5, <1>3 DEF WriteRaises, RemoteFails
  <2>6. CASE Callback(p)
    BY <2>6, <1>5 DEF Callback, LockOperation
  <2>7. CASE ScanWhole(p) \/ FetchNamespace(p)
    BY <2>7, <1>6 DEF ScanWhole, FetchNamespace
  <2>8. CASE Glob(p)
    BY <2>8 DEF Glob, LockOperation, lockVars
  <2>9. CASE ScanFile(p)
    BY <2>9, <1>6 DEF ScanFile, LockOperation
  <2> QED BY <1>7, <2>1, <2>2, <2>3, <2>4, <2>5, <2>6, <2>7, <2>8, <2>9 DEF Progress
<1> QED BY <1>1, <1>2, <1>7 DEF Next

(***************************************************************************)
(* With room in the cache for every lock key of the agent, two calls are    *)
(* never inside the blocks guarded by the same key, in any interleaving of  *)
(* creates, reads, appends, deletes, searches and listings, with or without *)
(* I/O errors.                                                              *)
(***************************************************************************)
THEOREM StoreExcludes ==
  ASSUME AmpleCache
  PROVE  Spec => [](MutualExclusion /\ InUseIsCached)
<1>1. Init => OneLockPerKey
  BY MaxLocksAssumption
  DEF Init, LocksInit, OneLockPerKey, LocksTypeOK, CacheBounded, KeysDistinct, CachedIn,
      InUse, Locked
<1>2. OneLockPerKey /\ [Next]_storeVars => OneLockPerKey'
  <2> SUFFICES ASSUME OneLockPerKey, LockOperation
               PROVE  OneLockPerKey'
    BY StepIsLockOperation
  <2>1. CASE UNCHANGED lockVars
    BY <2>1 DEF lockVars, OneLockPerKey, LocksTypeOK, CacheBounded, KeysDistinct, CachedIn,
               InUse, Locked
  <2>2. ASSUME NEW p \in Proc, NEW k, Enter(p, k)
        PROVE  OneLockPerKey'
    BY <2>2, EnterKeepsOneLockPerKey DEF Enter, Holders, LocksTypeOK, OneLockPerKey
  <2>3. ASSUME NEW p \in Proc, NEW k, LeaveEnter(p, k)
        PROVE  OneLockPerKey'
    BY <2>3, LeaveEnterKeepsOneLockPerKey
  <2>4. ASSUME NEW p \in Proc, Resume(p) \/ Leave(p)
        PROVE  OneLockPerKey'
    BY <2>4, ResumeKeepsOneLockPerKey, LeaveKeepsOneLockPerKey
  <2> QED BY <2>1, <2>2, <2>3, <2>4 DEF LockOperation
<1> QED BY <1>1, <1>2, OneLockPerKeyExcludes, PTL DEF Spec

-------------------------------------------------------------------------------
(***************************************************************************)
(* What StoreTypeOK says of one task and of the files.                      *)
(***************************************************************************)
TaskOK(r) ==
  /\ r \in TaskRecord
  /\ r.pc \in {"read", "load", "put", "call"} => r.topic \in Topic
  /\ r.pc # "files" => r.todo \subseteq Topic

DataOK ==
  /\ disk \in [File -> Entry]
  /\ task \in [Proc -> TaskRecord]
  /\ \A p \in Proc : TaskOK(task[p])

(***************************************************************************)
(* Giving one task a well-formed local state keeps all of them well formed. *)
(***************************************************************************)
LEMMA OneTaskChanges ==
  ASSUME DataOK, NEW p \in Proc, NEW r, TaskOK(r), task' = [task EXCEPT ![p] = r],
         disk' \in [File -> Entry]
  PROVE  DataOK'
BY DEF DataOK, TaskOK

(***************************************************************************)
(* The initial local state, and the empty file, are well formed.            *)
(***************************************************************************)
LEMMA NoTaskOK == TaskOK(NoTask) /\ NoEntry \in Entry /\ EmptyDisk \in [File -> Entry]
BY DEF TaskOK, NoTask, TaskRecord, Operation, Step, Entry, NoEntry, EmptyDisk

(***************************************************************************)
(* Returning, and moving on to the next hit, keep the types.                *)
(***************************************************************************)
LEMMA EndTypes ==
  ASSUME DataOK, NEW p \in Proc, End(p), disk' \in [File -> Entry]
  PROVE  DataOK'
BY OneTaskChanges, NoTaskOK DEF End

\* Taking the lock of the next hit, or returning after the last one.
LEMMA NextHitTypes ==
  ASSUME DataOK, NEW p \in Proc, NEW hits \in SUBSET Topic, NextHit(p, hits),
         disk' \in [File -> Entry]
  PROVE  DataOK'
<1>1. CASE End(p)
  BY <1>1, EndTypes
<1>2. ASSUME NEW t \in hits,
             task' = [task EXCEPT ![p] =
               [NoTask EXCEPT !.op = "search", !.topic = t, !.pc = "read", !.todo = hits \ {t}]]
      PROVE  DataOK'
  <2> DEFINE r == [NoTask EXCEPT !.op = "search", !.topic = t, !.pc = "read",
                                 !.todo = hits \ {t}]
  <2>1. TaskOK(r)
    BY NoTaskOK DEF TaskOK, NoTask, TaskRecord, Operation, Step
  <2> QED BY <1>2, <2>1, OneTaskChanges
<1> QED BY <1>1, <1>2 DEF NextHit

\* What follows an access: the next hit, or the return.
LEMMA AfterAccessTypes ==
  ASSUME DataOK, NEW p \in Proc, task[p].pc # "files", AfterAccess(p),
         disk' \in [File -> Entry]
  PROVE  DataOK'
BY EndTypes, NextHitTypes DEF AfterAccess, DataOK, TaskOK

\* What follows a scan: a listing returns, a search rewrites its hits.
LEMMA EndScanTypes ==
  ASSUME DataOK, NEW p \in Proc, NEW found \in SUBSET Topic, EndScan(p, found),
         disk' \in [File -> Entry]
  PROVE  DataOK'
BY EndTypes, NextHitTypes DEF EndScan, Ranked

(***************************************************************************)
(* Each step of the store keeps the types of the files and of the tasks.    *)
(***************************************************************************)
LEMMA BeginTypes ==
  ASSUME DataOK, NEW p \in Proc, NEW op \in Operation, NEW t \in Topic, Begin(p, op, t)
  PROVE  DataOK'
<1> DEFINE r ==
      [NoTask EXCEPT !.op = op, !.topic = IF op \in {"search", "list"} THEN NoTopic ELSE t,
                     !.pc = FirstStep(op), !.entry = FirstEntry(p, op, t)]
<1>1. FirstStep(op) \in {"read", "load", "put", "scan"}
      /\ (op \in {"search", "list"} => FirstStep(op) = "scan")
  BY DEF Operation, FirstStep, WriteStep
<1>2. FirstEntry(p, op, t) \in Entry
  BY NoTaskOK DEF FirstEntry, Entry
<1>3. TaskOK(r)
  BY <1>1, <1>2, NoTaskOK DEF TaskOK, NoTask, TaskRecord, Step
<1> QED BY <1>3, OneTaskChanges DEF Begin, DataOK

\* The read at the start of a read, an append or a rewrite.
LEMMA ReadTopicTypes ==
  ASSUME DataOK, NEW p \in Proc, ReadTopic(p)
  PROVE  DataOK'
<1>1. task[p].pc = "read" /\ task[p] \in TaskRecord /\ task[p].topic \in Topic
  BY DEF ReadTopic, At, DataOK, TaskOK
<1>2. PICK e \in ReadResults(FileAt(p)) :
       \/ task' = [task EXCEPT ![p].entry = WithLine(p, e), ![p].pc = WriteStep]
       \/ AfterAccess(p)
       \/ task' = [task EXCEPT ![p].entry = [e EXCEPT !.topic = task[p].topic],
                               ![p].pc = "call"]
  BY DEF ReadTopic
<1>3. e \in Entry
  BY <1>1, <1>2, NoTaskOK, TopicStoreAssumption DEF ReadResults, FileAt, DataOK
<1>4. disk' \in [File -> Entry]
  BY DEF ReadTopic, DataOK
<1>5. WithLine(p, e) \in Entry /\ [e EXCEPT !.topic = task[p].topic] \in Entry
  BY <1>1, <1>3 DEF WithLine, Entry
<1>6. ASSUME NEW x \in Entry, NEW pc \in {"load", "put", "call"},
             task' = [task EXCEPT ![p].entry = x, ![p].pc = pc]
      PROVE  DataOK'
  <2>1. TaskOK([task[p] EXCEPT !.entry = x, !.pc = pc])
    BY <1>1 DEF DataOK, TaskOK, TaskRecord, Step
  <2>2. task' = [task EXCEPT ![p] = [task[p] EXCEPT !.entry = x, !.pc = pc]]
    BY <1>6 DEF DataOK, TaskRecord
  <2> QED BY <2>1, <2>2, <1>4, OneTaskChanges
<1> QED BY <1>1, <1>2, <1>4, <1>5, <1>6, AfterAccessTypes DEF WriteStep

\* The load of the JSON file before a write.
LEMMA LoadFileTypes ==
  ASSUME DataOK, NEW p \in Proc, LoadFile(p)
  PROVE  DataOK'
<1>1. task[p].pc = "load" /\ task[p] \in TaskRecord
  BY DEF LoadFile, At, DataOK, TaskOK
<1>2. disk' \in [File -> Entry]
  BY DEF LoadFile, DataOK
<1>3. ASSUME NEW whole \in [File -> Entry],
             task' = [task EXCEPT ![p].snap = whole, ![p].pc = "put"]
      PROVE  DataOK'
  <2>1. TaskOK([task[p] EXCEPT !.snap = whole, !.pc = "put"])
    BY <1>1 DEF DataOK, TaskOK, TaskRecord, Step
  <2>2. task' = [task EXCEPT ![p] = [task[p] EXCEPT !.snap = whole, !.pc = "put"]]
    BY <1>3 DEF DataOK, TaskRecord
  <2> QED BY <2>1, <2>2, <1>2, OneTaskChanges
<1>4. Loaded(p) \in [File -> Entry]
  BY NoTaskOK, TopicStoreAssumption DEF Loaded, DataOK, FileAt
<1>5. \A whole \in {Loaded(p)} \cup IF WholeFile /\ "read" \in Faults THEN {EmptyDisk} ELSE {} :
        whole \in [File -> Entry]
  BY <1>4, NoTaskOK
<1> QED BY <1>2, <1>3, <1>5, EndTypes DEF LoadFile

\* What a write leaves, in each layout.
LEMMA NewDiskType ==
  ASSUME DataOK, NEW p \in Proc, task[p].topic \in Topic
  PROVE  NewDisk(p) \in [File -> Entry]
<1>1. task[p].snap \in [File -> Entry] /\ task[p].entry \in Entry /\ FileAt(p) \in File
  BY TopicStoreAssumption DEF FileAt, DataOK, TaskRecord
<1> QED BY <1>1 DEF NewDisk, DataOK

\* The write itself, which may fail.
LEMMA PutTypes ==
  ASSUME DataOK, NEW p \in Proc, Put(p) \/ Upsert(p)
  PROVE  DataOK'
<1>1. task[p].pc = "put" /\ task[p] \in TaskRecord /\ task[p].topic \in Topic
  BY DEF Put, Upsert, At, DataOK, TaskOK
<1>2. NewDisk(p) \in [File -> Entry]
  BY <1>1, NewDiskType
<1>3. disk' \in [File -> Entry] /\ AfterPut(p)
  BY <1>2 DEF Put, Upsert, DataOK
<1>4. CASE task' = [task EXCEPT ![p].pc = "call", ![p].snap = EmptyDisk]
  <2>1. TaskOK([task[p] EXCEPT !.pc = "call", !.snap = EmptyDisk])
    BY <1>1, NoTaskOK DEF DataOK, TaskOK, TaskRecord, Step
  <2>2. task' = [task EXCEPT ![p] = [task[p] EXCEPT !.pc = "call", !.snap = EmptyDisk]]
    BY <1>4 DEF DataOK, TaskRecord
  <2> QED BY <2>1, <2>2, <1>3, OneTaskChanges
<1> QED BY <1>1, <1>3, <1>4, EndTypes, AfterAccessTypes DEF AfterPut

\* An error of the service, which may have carried out the write.
LEMMA RemoteFailsTypes ==
  ASSUME DataOK, NEW p \in Proc, RemoteFails(p)
  PROVE  DataOK'
<1>1. CASE At(p, "put") /\ disk' \in {disk, NewDisk(p)}
  BY <1>1, NewDiskType, EndTypes DEF RemoteFails, At, DataOK, TaskOK
<1>2. CASE UNCHANGED disk
  BY <1>2, EndTypes DEF RemoteFails, DataOK
<1> QED BY <1>1, <1>2 DEF RemoteFails

\* The summarizer fails, keeps the text or replaces it.
LEMMA CallbackTypes ==
  ASSUME DataOK, NEW p \in Proc, Callback(p)
  PROVE  DataOK'
<1>1. task[p].pc = "call" /\ task[p] \in TaskRecord
  BY DEF Callback, At, DataOK, TaskOK
<1>2. disk' \in [File -> Entry]
  BY DEF Callback, DataOK
<1>3. CASE task' = [task EXCEPT ![p].entry = Summary(@), ![p].rewriting = TRUE,
                                ![p].pc = WriteStep]
  <2> DEFINE r == [task[p] EXCEPT !.entry = Summary(@), !.rewriting = TRUE,
                                  !.pc = WriteStep]
  <2>1. TaskOK(r)
    BY <1>1 DEF DataOK, TaskOK, TaskRecord, Step, WriteStep, Entry, Summary
  <2>2. task' = [task EXCEPT ![p] = r]
    BY <1>3 DEF DataOK, TaskRecord
  <2> QED BY <2>1, <2>2, <1>2, OneTaskChanges
<1> QED BY <1>1, <1>2, <1>3, AfterAccessTypes DEF Callback

\* The three kinds of scanning step.
LEMMA ScanTypes ==
  ASSUME DataOK, NEW p \in Proc, ScanWhole(p) \/ FetchNamespace(p) \/ Glob(p) \/ ScanFile(p)
  PROVE  DataOK'
<1>1. task[p] \in TaskRecord /\ disk' \in [File -> Entry]
  BY DEF ScanWhole, FetchNamespace, Glob, ScanFile, DataOK
<1>2. CASE ScanWhole(p) \/ FetchNamespace(p)
  <2>1. Headings(disk) \in SUBSET Topic
    BY DEF Headings, Exists, DataOK, Entry
  <2> QED BY <1>1, <1>2, <2>1, EndScanTypes DEF ScanWhole, FetchNamespace
<1>3. ASSUME NEW todo \in SUBSET (Topic \cup File),
             task' = [task EXCEPT ![p].todo = todo, ![p].pc = "files"]
      PROVE  DataOK'
  <2>1. TaskOK([task[p] EXCEPT !.todo = todo, !.pc = "files"])
    BY <1>1 DEF DataOK, TaskOK, TaskRecord, Step
  <2>2. task' = [task EXCEPT ![p] = [task[p] EXCEPT !.todo = todo, !.pc = "files"]]
    BY <1>3 DEF DataOK, TaskRecord
  <2> QED BY <2>1, <2>2, <1>1, OneTaskChanges
<1>4. CASE Glob(p)
  BY <1>3, <1>4 DEF Glob
<1>5. CASE ScanFile(p)
  <2>1. task[p].pc = "files" /\ task[p].todo \subseteq Topic \cup File
    BY <1>1, <1>5 DEF ScanFile, At, TaskRecord
  <2>2. CASE task[p].todo \cap File = {} /\ EndScan(p, task[p].todo)
    BY <1>1, <2>1, <2>2, EndScanTypes
  <2>3. ASSUME NEW f \in task[p].todo \cap File, NEW e \in ReadResults(f),
               task' = [task EXCEPT ![p].todo =
                 (@ \ {f}) \cup IF Exists(e) THEN {e.topic} ELSE {}]
        PROVE  DataOK'
    <3> DEFINE found == (task[p].todo \ {f}) \cup IF Exists(e) THEN {e.topic} ELSE {}
    <3>1. e \in Entry
      BY NoTaskOK DEF ReadResults, DataOK
    <3>2. found \in SUBSET (Topic \cup File)
      BY <2>1, <3>1 DEF Exists, Entry
    <3>3. TaskOK([task[p] EXCEPT !.todo = found])
      BY <1>1, <2>1, <3>2 DEF DataOK, TaskOK, TaskRecord, Step
    <3>4. task' = [task EXCEPT ![p] = [task[p] EXCEPT !.todo = found]]
      BY <2>3 DEF DataOK, TaskRecord
    <3> QED BY <1>1, <3>3, <3>4, OneTaskChanges
  <2> QED BY <1>5, <2>2, <2>3 DEF ScanFile
<1> QED BY <1>2, <1>4, <1>5

(***************************************************************************)
(* The locks, the files and the local state of every task keep their types, *)
(* whatever the I/O errors and however small the lock cache; in particular  *)
(* a task that reads, writes or summarises always has a topic.              *)
(***************************************************************************)
THEOREM StoreTypes == Spec => []StoreTypeOK
<1> DEFINE Inv == layout \in Layouts /\ LocksTypeOK /\ CacheBounded /\ DataOK
<1>1. Init => Inv
  BY MaxLocksAssumption, NoTaskOK
  DEF Init, LocksInit, LocksTypeOK, CacheBounded, DataOK, TaskOK
<1>2. Inv /\ [Next]_storeVars => Inv'
  <2> SUFFICES ASSUME Inv, [Next]_storeVars
               PROVE  Inv'
    OBVIOUS
  <2>1. LocksTypeOK' /\ CacheBounded'
    <3>1. LockOperation
      BY StepIsLockOperation
    <3>2. ASSUME NEW p \in Proc, NEW k, Enter(p, k)
          PROVE  LocksTypeOK' /\ CacheBounded'
      BY <3>2, EnterTypes DEF Enter, Holders, LocksTypeOK
    <3>3. CASE UNCHANGED lockVars
      BY <3>3 DEF lockVars, LocksTypeOK, CacheBounded
    <3> QED BY <3>1, <3>2, <3>3, LeaveEnterTypes, ResumeTypes, LeaveTypes DEF LockOperation
  <2>2. DataOK'
    <3>1. CASE UNCHANGED storeVars
      BY <3>1 DEF storeVars, DataOK, TaskOK
    <3>2. ASSUME NEW p \in Proc, Wake(p)
          PROVE  DataOK'
      BY <3>2 DEF Wake, DataOK, TaskOK
    <3>3. ASSUME NEW p \in Proc, WriteRaises(p)
          PROVE  DataOK'
      BY <3>3, EndTypes DEF WriteRaises, DataOK
    <3> QED BY <3>1, <3>2, <3>3, BeginTypes, ReadTopicTypes, LoadFileTypes, PutTypes,
               RemoteFailsTypes, CallbackTypes, ScanTypes DEF Next, Progress
  <2>3. (layout \in Layouts)'
    BY DEF Next, Begin, Progress, storeVars
  <2> QED BY <2>1, <2>2, <2>3
<1>3. Inv => StoreTypeOK
  BY DEF StoreTypeOK, DataOK, TaskOK
<1> QED BY <1>1, <1>2, <1>3, PTL DEF Spec

-------------------------------------------------------------------------------
(***************************************************************************)
(* Where the tasks are: each holds one lock, or waits in one queue, or      *)
(* neither, and the lock is that of what it works on.                       *)
(***************************************************************************)
Distinct(s) == \A i, j \in DOMAIN s : s[i] = s[j] => i = j

Apart(h) ==
  /\ \A l, m \in Lock : h[l] = h[m] /\ h[l] # NoProc => l = m
  /\ \A l, m \in Lock : h[m] \notin ToSet(waiters[l])
  /\ \A l, m \in Lock : l # m => ToSet(waiters[l]) \cap ToSet(waiters[m]) = {}
  /\ \A l \in Lock : Distinct(waiters[l])

Free(h, p) == \A l \in Lock : h[l] # p /\ p \notin ToSet(waiters[l])

KeyOf(p, r) == IF r.pc \in {"scan", "files"} THEN ListLockKey(p) ELSE LockKey(p, r.topic)

(***************************************************************************)
(* The steps a task only gets to with its lock.                             *)
(***************************************************************************)
NeedsLock(r) ==
  \/ r.pc \in {"call", "files"}
  \/ r.pc = "put" /\ layout # "markdown"
  \/ r.pc \in {"load", "put"} /\ r.op = "append"
  \/ r.rewriting

InPlace(p) ==
  /\ task[p].pc = "idle" => Free(holder, p)
  /\ \A l \in Lock : holder[l] = p \/ p \in ToSet(waiters[l]) => l[1] = KeyOf(p, task[p])
  /\ NeedsLock(task[p]) => Holds(p)

Places == Apart(holder) /\ \A p \in Proc : InPlace(p)


-------------------------------------------------------------------------------
(***************************************************************************)
(* Queues: who joins one is in it, once; who is resumed has left it.        *)
(***************************************************************************)
LEMMA QueueGrows ==
  ASSUME NEW S, NEW s \in Seq(S), NEW x \in S
  PROVE  /\ ToSet(Append(s, x)) = ToSet(s) \cup {x}
         /\ Distinct(s) /\ x \notin ToSet(s) => Distinct(Append(s, x))
<1>1. /\ DOMAIN s = 1..Len(s) /\ Len(s) \in Nat
      /\ DOMAIN Append(s, x) = 1..(Len(s) + 1)
      /\ \A i \in 1..Len(s) : Append(s, x)[i] = s[i]
      /\ Append(s, x)[Len(s) + 1] = x
  BY LenProperties, AppendProperties
<1>2. ToSet(Append(s, x)) = ToSet(s) \cup {x}
  BY <1>1 DEF ToSet
<1>3. ASSUME Distinct(s), x \notin ToSet(s), NEW i \in 1..(Len(s) + 1), NEW j \in 1..(Len(s) + 1),
             Append(s, x)[i] = Append(s, x)[j]
      PROVE  i = j
  BY <1>1, <1>3 DEF Distinct, ToSet
<1>. QED  BY <1>1, <1>2, <1>3 DEF Distinct

\* Whoever is resumed was at the head of the queue, and is in it no longer.
LEMMA QueueShrinks ==
  ASSUME NEW S, NEW s \in Seq(S), s # <<>>
  PROVE  /\ ToSet(s) = {Head(s)} \cup ToSet(Tail(s)) /\ Head(s) \in S
         /\ Distinct(s) => Distinct(Tail(s)) /\ Head(s) \notin ToSet(Tail(s))
<1>. DEFINE t == Tail(s)
            n == Len(s)
<1>1. /\ n \in Nat \ {0} /\ DOMAIN s = 1..n /\ Head(s) = s[1]
      /\ t \in Seq(S) /\ DOMAIN t = 1..(n - 1)
      /\ \A i \in 1..(n - 1) : t[i] = s[i + 1]
  BY LenProperties, HeadTailProperties, EmptySeq
<1>2. Head(s) \in S
  BY <1>1, ElementOfSeq
<1>. HIDE DEF t, n
<1>3. /\ 1 \in 1..n
      /\ \A i \in 1..n : i = 1 \/ i - 1 \in 1..(n - 1)
      /\ \A i \in 1..n : (i - 1) + 1 = i
      /\ \A i \in 1..(n - 1) : i + 1 \in 1..n /\ i + 1 # 1
  BY <1>1
<1>4. ASSUME NEW x \in ToSet(s)
      PROVE  x = Head(s) \/ x \in ToSet(t)
  <2>1. PICK i \in 1..n : s[i] = x
    BY <1>1 DEF ToSet
  <2>2. CASE i = 1
    BY <1>1, <2>1, <2>2
  <2>3. CASE i # 1
    <3>1. PICK k \in 1..(n - 1) : k + 1 = i
      BY <1>3, <2>3
    <3>2. t[k] = x
      BY <1>1, <2>1, <3>1
    <3>. QED  BY <1>1, <3>2 DEF ToSet
  <2>. QED  BY <2>2, <2>3
<1>5. ASSUME NEW x \in ToSet(t)
      PROVE  x \in ToSet(s) /\ \E i \in 1..n : i # 1 /\ s[i] = x
  <2>1. PICK i \in 1..(n - 1) : t[i] = x
    BY <1>1 DEF ToSet
  <2>2. PICK k \in 1..n : k = i + 1 /\ k # 1
    BY <1>3
  <2>3. s[k] = x
    BY <1>1, <2>1, <2>2
  <2>. QED  BY <1>1, <2>2, <2>3 DEF ToSet
<1>6. Head(s) \in ToSet(s)
  BY <1>1, <1>3 DEF ToSet
<1>7. ASSUME Distinct(s)
      PROVE  Distinct(t) /\ Head(s) \notin ToSet(t)
  <2>1. ASSUME NEW i \in 1..(n - 1), NEW j \in 1..(n - 1), t[i] = t[j]
        PROVE  i = j
    <3>1. PICK k \in 1..n : k = i + 1
      BY <1>3
    <3>2. PICK m \in 1..n : m = j + 1
      BY <1>3
    <3>3. s[k] = s[m]
      BY <1>1, <2>1, <3>1, <3>2
    <3>4. k = m
      BY <1>1, <1>7, <3>3 DEF Distinct
    <3>. QED  BY <3>1, <3>2, <3>4
  <2>2. Head(s) \notin ToSet(t)
    BY <1>1, <1>3, <1>5, <1>7 DEF Distinct
  <2>. QED  BY <1>1, <2>1, <2>2 DEF Distinct
<1>. QED  BY <1>2, <1>4, <1>5, <1>6, <1>7 DEF t

-------------------------------------------------------------------------------
(***************************************************************************)
(* What a lock operation of p does to the places of p and of the others.    *)
(***************************************************************************)
OthersStay(p) ==
  \A q \in Proc \ {p}, l \in Lock :
    /\ holder'[l] = q <=> holder[l] = q
    /\ q \in ToSet(waiters'[l]) <=> q \in ToSet(waiters[l])

\* Who enters gets the lock of the key, or a place in its queue.
LEMMA EnterApart ==
  ASSUME waiters \in [Lock -> Seq(Proc)], NEW h \in Holders, NEW p \in Proc, NEW k,
         Apart(h), Free(h, p), EnterFrom(p, k, h)
  PROVE  /\ Apart(holder)'
         /\ \A l \in Lock : holder'[l] = p \/ p \in ToSet(waiters'[l]) => l[1] = k
         /\ \A q \in Proc \ {p}, l \in Lock :
              /\ holder'[l] = q <=> h[l] = q
              /\ q \in ToSet(waiters'[l]) <=> q \in ToSet(waiters[l])
<1>1. PICK l \in Lock :
        /\ LockFor(k, l, h)
        /\ IF InUse(h, l)
           THEN waiters' = [waiters EXCEPT ![l] = Append(@, p)] /\ holder' = h
           ELSE holder' = [h EXCEPT ![l] = p] /\ UNCHANGED waiters
  BY DEF EnterFrom
<1>2. l[1] = k
  BY <1>1 DEF LockFor, IsNewLock
<1>3. \A m \in Lock : ToSet(waiters[m]) \subseteq Proc
  BY ElementOfSeq, LenProperties DEF ToSet
<1>4. CASE InUse(h, l)
  <2>1. waiters' = [waiters EXCEPT ![l] = Append(waiters[l], p)] /\ holder' = h
    BY <1>1, <1>4
  <2>2. ToSet(waiters'[l]) = ToSet(waiters[l]) \cup {p} /\ Distinct(waiters'[l])
    BY <2>1, QueueGrows DEF Apart, Free
  <2>3. \A m \in Lock \ {l} : waiters'[m] = waiters[m]
    BY <2>1
  <2>. QED  BY <1>2, <2>1, <2>2, <2>3 DEF Apart, Free
<1>5. CASE ~InUse(h, l)
  <2>1. holder' = [h EXCEPT ![l] = p] /\ waiters' = waiters
    BY <1>1, <1>5
  <2>2. h[l] = NoProc /\ p # NoProc
    BY <1>5, NoProcAssumption DEF InUse, Locked
  <2>3. \A m \in Lock : holder'[m] = IF m = l THEN p ELSE h[m]
    BY <2>1 DEF Holders
  <2>4. NoProc \notin Proc
    BY NoProcAssumption
  <2>. QED  BY <1>2, <1>3, <2>1, <2>2, <2>3, <2>4 DEF Apart, Free
<1>. QED  BY <1>4, <1>5

\* Who is resumed has left the queue and holds the lock.
LEMMA ResumeApart ==
  ASSUME LocksTypeOK, NEW p \in Proc, Apart(holder), Resume(p)
  PROVE  /\ Apart(holder)' /\ OthersStay(p) /\ Holds(p)'
         /\ \A l \in Lock : holder'[l] = p \/ p \in ToSet(waiters'[l])
                              => holder[l] = p \/ p \in ToSet(waiters[l])
<1>1. PICK l \in Lock :
        /\ holder[l] = NoProc /\ waiters[l] # <<>> /\ Head(waiters[l]) = p
        /\ holder' = [holder EXCEPT ![l] = p]
        /\ waiters' = [waiters EXCEPT ![l] = Tail(@)]
  BY DEF Resume, Locked
<1>2. waiters[l] \in Seq(Proc) /\ p # NoProc
  BY NoProcAssumption DEF LocksTypeOK
<1>3. /\ ToSet(waiters[l]) = {p} \cup ToSet(Tail(waiters[l]))
      /\ Distinct(Tail(waiters[l])) /\ p \notin ToSet(Tail(waiters[l]))
  BY <1>1, <1>2, QueueShrinks DEF Apart
<1>4. /\ \A m \in Lock : holder'[m] = IF m = l THEN p ELSE holder[m]
      /\ \A m \in Lock : waiters'[m] = IF m = l THEN Tail(waiters[l]) ELSE waiters[m]
  BY <1>1 DEF LocksTypeOK
<1>5. Apart(holder)'
  <2>1. \A m \in Lock : ToSet(waiters'[m]) = ToSet(waiters[m]) \ {p}
    BY <1>1, <1>3, <1>4 DEF Apart
  <2>2. \A m \in Lock : Distinct(waiters'[m])
    BY <1>3, <1>4 DEF Apart
  <2>3. \A m \in Lock : holder[m] # p
    BY <1>3 DEF Apart
  <2>. QED  BY <1>2, <1>4, <2>1, <2>2, <2>3 DEF Apart
<1>6. OthersStay(p)
  <2>1. \A m \in Lock : ToSet(waiters[m]) \ {p} = ToSet(waiters'[m]) \ {p}
    BY <1>3, <1>4
  <2>2. \A q \in Proc, m \in Lock : q # p => (holder'[m] = q <=> holder[m] = q)
    BY <1>1, <1>4, NoProcAssumption
  <2>. QED  BY <2>1, <2>2 DEF OthersStay
<1>7. Holds(p)'
  BY <1>4 DEF Holds
<1>. QED  BY <1>1, <1>3, <1>4, <1>5, <1>6, <1>7

\* Who leaves is in no queue and holds nothing.
LEMMA Released ==
  ASSUME LocksTypeOK, NEW p \in Proc, Apart(holder), NEW l \in Lock, holder[l] = p,
         NEW h \in Holders, \A m \in Lock : h[m] = IF m = l THEN NoProc ELSE holder[m]
  PROVE  /\ Apart(h) /\ Free(h, p)
         /\ \A q \in Proc \ {p}, m \in Lock : h[m] = q <=> holder[m] = q
<1>1. \A m \in Lock : ToSet(waiters[m]) \subseteq Proc
  BY ElementOfSeq, LenProperties DEF ToSet, LocksTypeOK
<1>2. NoProc \notin Proc
  BY NoProcAssumption
<1>. QED  BY <1>1, <1>2 DEF Apart, Free

\* Who leaves its block gives back the one lock it holds.
LEMMA LeaveApart ==
  ASSUME LocksTypeOK, NEW p \in Proc, Apart(holder), Leave(p)
  PROVE  Apart(holder)' /\ OthersStay(p) /\ Free(holder, p)'
<1>1. PICK l \in Lock : holder[l] = p /\ holder' = [holder EXCEPT ![l] = NoProc]
                        /\ UNCHANGED waiters
  BY DEF Leave
<1>2. PICK h \in Holders : h = [holder EXCEPT ![l] = NoProc]
  BY DEF Holders, LocksTypeOK
<1>5. \A m \in Lock : h[m] = IF m = l THEN NoProc ELSE holder[m]
  BY <1>2 DEF LocksTypeOK
<1>3. /\ Apart(h) /\ Free(h, p)
      /\ \A q \in Proc \ {p}, m \in Lock : h[m] = q <=> holder[m] = q
  BY <1>1, <1>5, Released
<1>. QED  BY <1>1, <1>2, <1>3 DEF Apart, Free, OthersStay

\* From one block to the next.
LEMMA LeaveEnterApart ==
  ASSUME LocksTypeOK, NEW p \in Proc, NEW k, Apart(holder), LeaveEnter(p, k)
  PROVE  /\ Apart(holder)' /\ OthersStay(p)
         /\ \A l \in Lock : holder'[l] = p \/ p \in ToSet(waiters'[l]) => l[1] = k
<1>1. PICK l \in Lock : holder[l] = p /\ EnterFrom(p, k, [holder EXCEPT ![l] = NoProc])
  BY DEF LeaveEnter
<1>2. PICK h \in Holders : h = [holder EXCEPT ![l] = NoProc]
  BY DEF Holders, LocksTypeOK
<1>5. \A m \in Lock : h[m] = IF m = l THEN NoProc ELSE holder[m]
  BY <1>2 DEF LocksTypeOK
<1>3. /\ Apart(h) /\ Free(h, p)
      /\ \A q \in Proc \ {p}, m \in Lock : h[m] = q <=> holder[m] = q
  BY <1>1, <1>5, Released
<1>4. EnterFrom(p, k, h) /\ waiters \in [Lock -> Seq(Proc)]
  BY <1>1, <1>2 DEF LocksTypeOK
<1>. QED  BY <1>3, <1>4, EnterApart DEF OthersStay

-------------------------------------------------------------------------------
(***************************************************************************)
(* A step of a task either does nothing to its locks, or gets, asks for or  *)
(* gives back the one of what it works on.                                  *)
(***************************************************************************)
Moves(p, r) ==
  /\ task' = [task EXCEPT ![p] = r]
  /\ \/ task[p].pc = "idle" /\ r.pc # "idle" /\ ~NeedsLock(r) /\ Enter(p, KeyOf(p, r))
     \/ r = NoTask /\ Leave(p)
     \/ r.pc # "idle" /\ ~NeedsLock(r) /\ LeaveEnter(p, KeyOf(p, r))
     \/ /\ task[p].pc # "idle" /\ r.pc # "idle" /\ KeyOf(p, r) = KeyOf(p, task[p])
        /\ Holds(p) /\ UNCHANGED lockVars

Moved(p) == \E r \in TaskRecord : Moves(p, r)

\* The return of an operation.
LEMMA EndMoves ==
  ASSUME NEW p \in Proc, End(p)
  PROVE  Moved(p)
<1>1. NoTask \in TaskRecord
  BY NoTaskOK DEF TaskOK
<1>2. Moves(p, NoTask)
  BY DEF Moves, End
<1>. QED  BY <1>1, <1>2 DEF Moved

\* The next hit, or the return.
LEMMA NextHitMoves ==
  ASSUME NEW p \in Proc, NEW hits \in SUBSET Topic, NextHit(p, hits)
  PROVE  Moved(p)
<1>1. CASE End(p)
  BY <1>1, EndMoves
<1>2. ASSUME NEW t \in hits, LeaveEnter(p, LockKey(p, t)),
             task' = [task EXCEPT ![p] =
               [NoTask EXCEPT !.op = "search", !.topic = t, !.pc = "read", !.todo = hits \ {t}]]
      PROVE  Moved(p)
  <2>. DEFINE r == [NoTask EXCEPT !.op = "search", !.topic = t, !.pc = "read",
                                  !.todo = hits \ {t}]
  <2>1. r \in TaskRecord /\ r.pc = "read" /\ r.topic = t /\ r.rewriting = FALSE
    BY NoTaskOK DEF TaskOK, NoTask, TaskRecord, Operation, Step
  <2>. HIDE DEF r
  <2>2. r.pc # "idle" /\ ~NeedsLock(r) /\ KeyOf(p, r) = LockKey(p, t)
    BY <2>1 DEF NeedsLock, KeyOf
  <2>3. Moves(p, r)
    BY <1>2, <2>2 DEF Moves, r
  <2>. QED  BY <2>1, <2>3 DEF Moved
<1>. QED  BY <1>1, <1>2 DEF NextHit

\* What follows an access, or a scan.
LEMMA AfterAccessMoves ==
  ASSUME DataOK, NEW p \in Proc, task[p].pc # "files", AfterAccess(p)
  PROVE  Moved(p)
BY EndMoves, NextHitMoves DEF AfterAccess, DataOK, TaskOK

\* What follows a scan: a listing returns, a search takes the lock of a hit.
LEMMA EndScanMoves ==
  ASSUME NEW p \in Proc, NEW found \in SUBSET Topic, EndScan(p, found)
  PROVE  Moved(p)
BY EndMoves, NextHitMoves DEF EndScan, Ranked

\* A step inside the guarded block.
LEMMA InsideMoves ==
  ASSUME DataOK, NEW p \in Proc, NEW r \in TaskRecord, At(p, task[p].pc), task[p].pc # "idle",
         task' = [task EXCEPT ![p] = r], UNCHANGED lockVars, r.topic = task[p].topic,
         \/ r.pc \in {"load", "put", "call"} /\ task[p].pc \in {"read", "load", "put", "call"}
         \/ r.pc = "files" /\ task[p].pc \in {"scan", "files"}
  PROVE  Moved(p)
<1>1. r.pc # "idle" /\ KeyOf(p, r) = KeyOf(p, task[p]) /\ Holds(p)
  BY DEF KeyOf, At
<1>. QED  BY <1>1 DEF Moved, Moves

\* Each step gets, asks for or gives back the lock of one task, or leaves the locks alone.
LEMMA StepMoves ==
  ASSUME DataOK, [Next]_storeVars
  PROVE  /\ UNCHANGED layout
         /\ \/ UNCHANGED <<lockVars, task>>
            \/ \E p \in Proc : Moved(p) \/ (Resume(p) /\ UNCHANGED task)
<1>. DEFINE Goal == \/ UNCHANGED <<lockVars, task>>
                    \/ \E p \in Proc : Moved(p) \/ (Resume(p) /\ UNCHANGED task)
<1>1. UNCHANGED layout
  BY DEF Next, Begin, Progress, storeVars
<1>2. CASE UNCHANGED storeVars
  BY <1>1, <1>2 DEF storeVars, lockVars
<1>3. ASSUME NEW p \in Proc, NEW op \in Operation, NEW t \in Topic, Begin(p, op, t)
      PROVE  Moved(p)
  <2>. DEFINE scans == op \in {"search", "list"}
              r == [NoTask EXCEPT !.op = op, !.topic = IF scans THEN NoTopic ELSE t,
                                  !.pc = FirstStep(op), !.entry = FirstEntry(p, op, t)]
  <2>1. /\ FirstStep(op) \in {"read", "load", "put", "scan"}
        /\ scans => FirstStep(op) = "scan"
        /\ ~scans => FirstStep(op) # "scan"
        /\ FirstStep(op) = "put" => layout = "markdown"
        /\ op = "append" => FirstStep(op) = "read"
    BY DEF Operation, FirstStep, WriteStep
  <2>2. FirstEntry(p, op, t) \in Entry
    BY NoTaskOK DEF FirstEntry, Entry
  <2>3. /\ r \in TaskRecord /\ r.pc = FirstStep(op) /\ r.op = op /\ r.rewriting = FALSE
        /\ r.topic = IF scans THEN NoTopic ELSE t
    BY <2>1, <2>2, NoTaskOK DEF TaskOK, NoTask, TaskRecord, Step
  <2>4. task' = [task EXCEPT ![p] = r] /\ task[p].pc = "idle"
    BY <1>3 DEF Begin
  <2>5. Enter(p, IF scans THEN ListLockKey(p) ELSE LockKey(p, t))
    BY <1>3 DEF Begin
  <2>. HIDE DEF r
  <2>6. ~NeedsLock(r) /\ r.pc # "idle"
    BY <2>1, <2>3 DEF NeedsLock
  <2>7. KeyOf(p, r) = IF scans THEN ListLockKey(p) ELSE LockKey(p, t)
    BY <2>1, <2>3 DEF KeyOf
  <2>8. Enter(p, KeyOf(p, r))
    BY <2>5, <2>7
  <2>. QED  BY <2>3, <2>4, <2>6, <2>8 DEF Moved, Moves
<1>4. ASSUME NEW p \in Proc, ReadTopic(p) \/ LoadFile(p) \/ Callback(p)
      PROVE  Moved(p)
  <2>1. /\ task[p] \in TaskRecord /\ At(p, task[p].pc) /\ task[p].pc \in {"read", "load", "call"}
        /\ task[p].topic \in Topic
    BY <1>4 DEF ReadTopic, LoadFile, Callback, At, DataOK, TaskOK
  <2>2. CASE End(p) \/ AfterAccess(p)
    BY <2>1, <2>2, EndMoves, AfterAccessMoves
  <2>3. CASE /\ UNCHANGED lockVars
             /\ \E r \in TaskRecord : /\ task' = [task EXCEPT ![p] = r]
                                      /\ r.topic = task[p].topic /\ r.pc \in {"load", "put", "call"}
    BY <2>1, <2>3, InsideMoves
  <2>4. CASE ReadTopic(p)
    <3>1. PICK e \in ReadResults(FileAt(p)) :
           \/ /\ task' = [task EXCEPT ![p].entry = WithLine(p, e), ![p].pc = WriteStep]
              /\ UNCHANGED lockVars
           \/ AfterAccess(p)
           \/ /\ task' = [task EXCEPT ![p].entry = [e EXCEPT !.topic = task[p].topic],
                                      ![p].pc = "call"]
              /\ UNCHANGED lockVars
      BY <2>4 DEF ReadTopic
    <3>2. e \in Entry
      BY <2>1, <3>1, NoTaskOK, TopicStoreAssumption DEF ReadResults, FileAt, DataOK
    <3>3. WithLine(p, e) \in Entry /\ [e EXCEPT !.topic = task[p].topic] \in Entry
      BY <2>1, <3>2 DEF WithLine, Entry
    <3>4. ASSUME NEW x \in Entry, NEW pc \in {"load", "put", "call"}, UNCHANGED lockVars,
                 task' = [task EXCEPT ![p].entry = x, ![p].pc = pc]
          PROVE  Moved(p)
      <4>. DEFINE r == [task[p] EXCEPT !.entry = x, !.pc = pc]
      <4>1. r \in TaskRecord /\ r.topic = task[p].topic /\ r.pc = pc
        BY <2>1 DEF TaskRecord, Step
      <4>2. task' = [task EXCEPT ![p] = r]
        BY <3>4 DEF DataOK, TaskRecord
      <4>. HIDE DEF r
      <4>. QED  BY <2>3, <3>4, <4>1, <4>2
    <3>. QED  BY <2>2, <3>1, <3>3, <3>4 DEF WriteStep
  <2>5. CASE LoadFile(p)
    <3>1. ASSUME NEW whole \in [File -> Entry], UNCHANGED lockVars,
                 task' = [task EXCEPT ![p].snap = whole, ![p].pc = "put"]
          PROVE  Moved(p)
      <4>. DEFINE r == [task[p] EXCEPT !.snap = whole, !.pc = "put"]
      <4>1. r \in TaskRecord /\ r.topic = task[p].topic /\ r.pc = "put"
        BY <2>1 DEF TaskRecord, Step
      <4>2. task' = [task EXCEPT ![p] = r]
        BY <3>1 DEF DataOK, TaskRecord
      <4>. HIDE DEF r
      <4>. QED  BY <2>3, <3>1, <4>1, <4>2
    <3>2. Loaded(p) \in [File -> Entry]
      BY NoTaskOK, TopicStoreAssumption DEF Loaded, DataOK, FileAt
    <3>3. \A whole \in {Loaded(p)} \cup IF WholeFile /\ "read" \in Faults THEN {EmptyDisk} ELSE {} :
            whole \in [File -> Entry]
      BY <3>2, NoTaskOK
    <3>. QED  BY <2>2, <2>5, <3>1, <3>3 DEF LoadFile
  <2>6. CASE Callback(p)
    <3>1. CASE /\ task' = [task EXCEPT ![p].entry = Summary(@), ![p].rewriting = TRUE,
                                      ![p].pc = WriteStep]
               /\ UNCHANGED lockVars
      <4>. DEFINE r == [task[p] EXCEPT !.entry = Summary(@), !.rewriting = TRUE, !.pc = WriteStep]
      <4>1. r \in TaskRecord /\ r.topic = task[p].topic /\ r.pc \in {"load", "put"}
        BY <2>1 DEF TaskRecord, Step, WriteStep, Entry, Summary
      <4>2. task' = [task EXCEPT ![p] = r]
        BY <3>1 DEF DataOK, TaskRecord
      <4>. HIDE DEF r
      <4>. QED  BY <2>3, <3>1, <4>1, <4>2
    <3>. QED  BY <2>2, <2>6, <3>1 DEF Callback
  <2>. QED  BY <1>4, <2>4, <2>5, <2>6
<1>5. ASSUME NEW p \in Proc, Put(p) \/ Upsert(p)
      PROVE  Moved(p)
  <2>1. /\ task[p] \in TaskRecord /\ At(p, task[p].pc) /\ task[p].pc = "put" /\ AfterPut(p)
    BY <1>5 DEF Put, Upsert, At, DataOK, TaskOK
  <2>2. CASE /\ task' = [task EXCEPT ![p].pc = "call", ![p].snap = EmptyDisk]
             /\ UNCHANGED lockVars
    <3>. DEFINE r == [task[p] EXCEPT !.pc = "call", !.snap = EmptyDisk]
    <3>1. r \in TaskRecord /\ r.topic = task[p].topic /\ r.pc = "call"
      BY <2>1, NoTaskOK DEF TaskRecord, Step
    <3>2. task' = [task EXCEPT ![p] = r]
      BY <2>2 DEF DataOK, TaskRecord
    <3>. HIDE DEF r
    <3>. QED  BY <2>1, <2>2, <3>1, <3>2, InsideMoves
  <2>. QED  BY <2>1, <2>2, EndMoves, AfterAccessMoves DEF AfterPut
<1>6. ASSUME NEW p \in Proc, ScanWhole(p) \/ FetchNamespace(p) \/ Glob(p) \/ ScanFile(p)
      PROVE  Moved(p)
  <2>1. /\ task[p] \in TaskRecord /\ At(p, task[p].pc) /\ task[p].pc \in {"scan", "files"}
        /\ Headings(disk) \in SUBSET Topic
    BY <1>6 DEF ScanWhole, FetchNamespace, Glob, ScanFile, At, DataOK, Headings, Exists, Entry
  <2>2. CASE ScanWhole(p) \/ FetchNamespace(p)
    BY <2>1, <2>2, EndScanMoves DEF ScanWhole, FetchNamespace
  <2>3. ASSUME NEW todo \in SUBSET (Topic \cup File), UNCHANGED lockVars,
               task' = [task EXCEPT ![p] = [task[p] EXCEPT !.todo = todo, !.pc = "files"]]
        PROVE  Moved(p)
    <3>. DEFINE r == [task[p] EXCEPT !.todo = todo, !.pc = "files"]
    <3>1. r \in TaskRecord /\ r.topic = task[p].topic /\ r.pc = "files"
      BY <2>1 DEF TaskRecord, Step
    <3>. HIDE DEF r
    <3>2. task' = [task EXCEPT ![p] = r]
      BY <2>3 DEF r
    <3>. QED  BY <2>1, <2>3, <3>1, <3>2, InsideMoves
  <2>4. CASE Glob(p)
    <3>1. {f \in File : Exists(disk[f])} \in SUBSET (Topic \cup File) /\ UNCHANGED lockVars
      BY <2>4 DEF Glob
    <3>2. task' = [task EXCEPT ![p] = [task[p] EXCEPT !.todo = {f \in File : Exists(disk[f])},
                                                      !.pc = "files"]]
      BY <2>4 DEF Glob, DataOK, TaskRecord
    <3>. QED  BY <2>3, <3>1, <3>2
  <2>5. CASE ScanFile(p)
    <3>1. task[p].pc = "files" /\ task[p].todo \subseteq Topic \cup File
      BY <2>1, <2>5 DEF ScanFile, At, TaskRecord
    <3>2. CASE task[p].todo \cap File = {} /\ EndScan(p, task[p].todo)
      BY <3>1, <3>2, EndScanMoves
    <3>3. ASSUME NEW f \in task[p].todo \cap File, NEW e \in ReadResults(f), UNCHANGED lockVars,
                 task' = [task EXCEPT ![p].todo =
                   (@ \ {f}) \cup IF Exists(e) THEN {e.topic} ELSE {}]
          PROVE  Moved(p)
      <4>. DEFINE found == (task[p].todo \ {f}) \cup IF Exists(e) THEN {e.topic} ELSE {}
      <4>1. e \in Entry
        BY NoTaskOK DEF ReadResults, DataOK
      <4>2. found \in SUBSET (Topic \cup File)
        BY <3>1, <4>1 DEF Exists, Entry
      <4>3. task' = [task EXCEPT ![p] = [task[p] EXCEPT !.todo = found, !.pc = "files"]]
        BY <3>1, <3>3 DEF DataOK, TaskRecord
      <4>. HIDE DEF found
      <4>. QED  BY <2>3, <3>3, <4>2, <4>3
    <3>. QED  BY <2>5, <3>2, <3>3 DEF ScanFile
  <2>. QED  BY <1>6, <2>2, <2>4, <2>5
<1>7. ASSUME NEW p \in Proc, WriteRaises(p) \/ RemoteFails(p)
      PROVE  Moved(p)
  BY <1>7, EndMoves DEF WriteRaises, RemoteFails
<1>8. Goal
  BY <1>2, <1>3, <1>4, <1>5, <1>6, <1>7 DEF Next, Progress, Wake, storeVars, lockVars
<1>. QED  BY <1>1, <1>8

\* Whoever does not step stays in its place.
LEMMA OthersInPlace ==
  ASSUME NEW p \in Proc, NEW q \in Proc \ {p}, InPlace(q), OthersStay(p), UNCHANGED layout,
         task'[q] = task[q]
  PROVE  InPlace(q)'
<1>1. /\ KeyOf(q, task[q])' = KeyOf(q, task[q]) /\ NeedsLock(task[q])' = NeedsLock(task[q])
      /\ Holds(q)' = Holds(q)
  BY DEF KeyOf, ListLockKey, LockKey, TopicKey, WholeFile, NeedsLock, Holds, OthersStay
<1>. QED  BY <1>1 DEF InPlace, OthersStay, Free

\* Every step of the store keeps all tasks in their places.
LEMMA StepPlaces ==
  ASSUME LocksTypeOK, DataOK, Places, [Next]_storeVars
  PROVE  Places'
<1>. DEFINE Elsewhere(p) == /\ Apart(holder)' /\ OthersStay(p) /\ InPlace(p)'
                            /\ \A q \in Proc \ {p} : task'[q] = task[q]
<1>1. UNCHANGED layout
  BY StepMoves
<1>2. ASSUME NEW p \in Proc, Elsewhere(p)
      PROVE  Places'
  BY <1>1, <1>2, OthersInPlace DEF Places
<1>3. CASE UNCHANGED <<lockVars, task>>
  BY <1>1, <1>3 DEF lockVars, Places, Apart, InPlace, Free, KeyOf, ListLockKey, LockKey, TopicKey,
                    WholeFile, NeedsLock, Holds
<1>4. ASSUME NEW p \in Proc, Resume(p), UNCHANGED task
      PROVE  Places'
  <2>1. /\ Apart(holder)' /\ OthersStay(p) /\ Holds(p)'
        /\ \A l \in Lock : holder'[l] = p \/ p \in ToSet(waiters'[l])
                             => holder[l] = p \/ p \in ToSet(waiters[l])
    BY <1>4, ResumeApart DEF Places
  <2>2. task[p].pc # "idle"
    <3>1. \E l \in Lock : p \in ToSet(waiters[l])
      BY <1>4, QueueShrinks DEF Resume, LocksTypeOK
    <3>. QED  BY <3>1 DEF Places, InPlace, Free
  <2>3. KeyOf(p, task[p])' = KeyOf(p, task[p])
    BY <1>1, <1>4 DEF KeyOf, ListLockKey, LockKey, TopicKey, WholeFile
  <2>4. InPlace(p)'
    BY <1>4, <2>1, <2>2, <2>3 DEF Places, InPlace
  <2>. QED  BY <1>2, <1>4, <2>1, <2>4
<1>5. ASSUME NEW p \in Proc, NEW r \in TaskRecord, Moves(p, r)
      PROVE  Places'
  <2>1. /\ task'[p] = r /\ \A q \in Proc \ {p} : task'[q] = task[q]
    BY <1>5 DEF Moves, DataOK
  <2>2. KeyOf(p, task[p])' = KeyOf(p, r) /\ NeedsLock(task[p])' = NeedsLock(r)
    BY <1>1, <2>1 DEF KeyOf, ListLockKey, LockKey, TopicKey, WholeFile, NeedsLock
  <2>3. CASE task[p].pc = "idle" /\ r.pc # "idle" /\ ~NeedsLock(r) /\ Enter(p, KeyOf(p, r))
    <3>1. Free(holder, p) /\ holder \in Holders /\ waiters \in [Lock -> Seq(Proc)]
      BY <2>3 DEF Places, InPlace, LocksTypeOK, Holders
    <3>2. /\ Apart(holder)' /\ OthersStay(p)
          /\ \A l \in Lock : holder'[l] = p \/ p \in ToSet(waiters'[l]) => l[1] = KeyOf(p, r)
      BY <2>3, <3>1, EnterApart DEF Enter, Places, OthersStay
    <3>3. InPlace(p)'
      BY <2>1, <2>2, <2>3, <3>2 DEF InPlace
    <3>. QED  BY <1>2, <2>1, <3>2, <3>3
  <2>4. CASE r = NoTask /\ Leave(p)
    <3>1. Apart(holder)' /\ OthersStay(p) /\ Free(holder, p)'
      BY <2>4, LeaveApart DEF Places
    <3>2. ~NeedsLock(r)
      BY <2>4 DEF NeedsLock, NoTask
    <3>3. InPlace(p)'
      BY <2>1, <2>2, <3>1, <3>2 DEF InPlace, Free
    <3>. QED  BY <1>2, <2>1, <3>1, <3>3
  <2>5. CASE r.pc # "idle" /\ ~NeedsLock(r) /\ LeaveEnter(p, KeyOf(p, r))
    <3>1. /\ Apart(holder)' /\ OthersStay(p)
          /\ \A l \in Lock : holder'[l] = p \/ p \in ToSet(waiters'[l]) => l[1] = KeyOf(p, r)
      BY <2>5, LeaveEnterApart DEF Places
    <3>2. InPlace(p)'
      BY <2>1, <2>2, <2>5, <3>1 DEF InPlace
    <3>. QED  BY <1>2, <2>1, <3>1, <3>2
  <2>6. CASE /\ task[p].pc # "idle" /\ r.pc # "idle" /\ KeyOf(p, r) = KeyOf(p, task[p])
             /\ Holds(p) /\ UNCHANGED lockVars
    <3>1. Apart(holder)' /\ OthersStay(p) /\ Holds(p)'
      BY <2>6 DEF lockVars, Places, Apart, OthersStay, Holds
    <3>2. InPlace(p)'
      BY <2>1, <2>2, <2>6, <3>1 DEF lockVars, Places, InPlace
    <3>. QED  BY <1>2, <2>1, <3>1, <3>2
  <2>. QED  BY <1>5, <2>3, <2>4, <2>5, <2>6 DEF Moves
<1>. QED  BY <1>3, <1>4, <1>5, StepMoves DEF Moved

\* The types of the locks and of the tasks.
LEMMA StoreTyped == Spec => [](LocksTypeOK /\ DataOK)
<1>1. StoreTypeOK => LocksTypeOK /\ DataOK
  BY DEF StoreTypeOK, DataOK, TaskOK
<1>. QED  BY <1>1, StoreTypes, PTL

\* From the start every task is in its place.
LEMMA StorePlaces == Spec => []Places
<1>1. Init => Places
  <2>. SUFFICES ASSUME Init
                PROVE  Places
    OBVIOUS
  <2>1. /\ \A l \in Lock : holder[l] = NoProc /\ ToSet(waiters[l]) = {} /\ Distinct(waiters[l])
        /\ \A p \in Proc : task[p] = NoTask
    BY DEF Init, LocksInit, ToSet, Distinct
  <2>2. ~NeedsLock(NoTask)
    BY DEF NeedsLock, NoTask
  <2>. QED  BY <2>1, <2>2, NoProcAssumption DEF Places, Apart, InPlace, Free
<1>2. LocksTypeOK /\ DataOK /\ Places /\ [Next]_storeVars => Places'
  BY StepPlaces
<1>. QED  BY <1>1, <1>2, StoreTyped, PTL DEF Spec

\* A task holds at most one lock and does not queue while it holds one,
\* whatever reads, writes or requests fail and however small the lock cache.
THEOREM LocksAreNotNested == Spec => []NoNestedLocks
<1>1. Places => NoNestedLocks
  BY NoProcAssumption DEF Places, Apart, NoNestedLocks, Holds, Queued
<1>. QED  BY <1>1, StorePlaces, PTL

-------------------------------------------------------------------------------
(***************************************************************************)
(* What EveryCallReturns rests on, apart from fairness: a task that is in   *)
(* an operation is inside its block, at an await whose end the code         *)
(* handles, or in the queue of a lock.                                      *)
(***************************************************************************)
Handled(r) ==
  /\ r.pc = "read" => r.op \in {"read", "append", "search"}
  /\ r.pc \in {"load", "put"} => r.rewriting \/ r.op \in {"create", "append", "delete"}

AllHandled == \A p \in Proc : Handled(task[p])

EachHasAPlace == \A p \in Proc : task[p].pc # "idle" => Holds(p) \/ Queued(p)

(***************************************************************************)
(* No task is forgotten, whichever locks are evicted and whatever fails: a  *)
(* held lock belongs to a task that is at work in its block and waits for   *)
(* nobody; a released one with a queue is taken by its head, which is in an *)
(* operation and holds nothing.                                             *)
(***************************************************************************)
NobodyIsForgotten ==
  /\ EachHasAPlace
  /\ \A l \in Lock, p \in Proc :
       holder[l] = p => task[p].pc # "idle" /\ Handled(task[p]) /\ ~Queued(p)
  /\ \A l \in Lock, p \in Proc :
       p \in ToSet(waiters[l]) =>
         /\ task[p].pc # "idle" /\ ~Holds(p)
         /\ \/ \E q \in Proc : q # p /\ holder[l] = q
            \/ ~Locked(holder, l) /\ \E q \in Proc : Head(waiters[l]) = q /\ ~Holds(q)

\* Whoever looks a lock up holds it or queues on it.
LEMMA EnterPlaces ==
  ASSUME waiters \in [Lock -> Seq(Proc)], NEW h \in Holders, NEW p \in Proc, NEW k,
         EnterFrom(p, k, h)
  PROVE  Holds(p)' \/ Queued(p)'
<1>1. PICK l \in Lock :
        IF InUse(h, l)
        THEN waiters' = [waiters EXCEPT ![l] = Append(@, p)] /\ holder' = h
        ELSE holder' = [h EXCEPT ![l] = p] /\ UNCHANGED waiters
  BY DEF EnterFrom
<1>2. CASE InUse(h, l)
  <2>1. waiters'[l] = Append(waiters[l], p) /\ waiters[l] \in Seq(Proc)
    BY <1>1, <1>2
  <2>2. Len(waiters'[l]) \in DOMAIN waiters'[l] /\ waiters'[l][Len(waiters'[l])] = p
    BY <2>1, AppendProperties, LenProperties
  <2>. QED  BY <2>2 DEF Queued, ToSet
<1>3. CASE ~InUse(h, l)
  BY <1>1, <1>3 DEF Holders, Holds
<1>. QED  BY <1>2, <1>3

\* A step keeps every task in its block or in a queue.
LEMMA StepKeepsPlaces ==
  ASSUME LocksTypeOK, DataOK, Places, EachHasAPlace, [Next]_storeVars
  PROVE  EachHasAPlace'
<1>1. ASSUME NEW p \in Proc, OthersStay(p), \A q \in Proc \ {p} : task'[q] = task[q],
             task'[p].pc # "idle" => (Holds(p) \/ Queued(p))'
      PROVE  EachHasAPlace'
  <2>1. \A q \in Proc \ {p} : (Holds(q) <=> Holds(q)') /\ (Queued(q) <=> Queued(q)')
    BY <1>1 DEF OthersStay, Holds, Queued
  <2>. QED  BY <1>1, <2>1 DEF EachHasAPlace
<1>2. CASE UNCHANGED <<lockVars, task>>
  BY <1>2 DEF lockVars, EachHasAPlace, Holds, Queued
<1>3. ASSUME NEW p \in Proc, Resume(p), UNCHANGED task
      PROVE  EachHasAPlace'
  BY <1>1, <1>3, ResumeApart DEF Places
<1>4. ASSUME NEW p \in Proc, NEW r \in TaskRecord, Moves(p, r)
      PROVE  EachHasAPlace'
  <2>1. /\ task'[p] = r /\ \A q \in Proc \ {p} : task'[q] = task[q]
    BY <1>4 DEF Moves, DataOK
  <2>2. CASE task[p].pc = "idle" /\ Enter(p, KeyOf(p, r))
    <3>1. Free(holder, p) /\ holder \in Holders /\ waiters \in [Lock -> Seq(Proc)] /\ Apart(holder)
      BY <2>2 DEF Places, InPlace, LocksTypeOK, Holders
    <3>2. OthersStay(p) /\ (Holds(p) \/ Queued(p))'
      BY <2>2, <3>1, EnterApart, EnterPlaces DEF Enter, OthersStay
    <3>. QED  BY <1>1, <2>1, <3>2
  <2>3. CASE r = NoTask /\ Leave(p)
    <3>1. OthersStay(p) /\ r.pc = "idle"
      BY <2>3, LeaveApart DEF Places, NoTask
    <3>. QED  BY <1>1, <2>1, <3>1
  <2>4. CASE LeaveEnter(p, KeyOf(p, r))
    <3>1. OthersStay(p)
      BY <2>4, LeaveEnterApart DEF Places
    <3>2. PICK l \in Lock : EnterFrom(p, KeyOf(p, r), [holder EXCEPT ![l] = NoProc])
      BY <2>4 DEF LeaveEnter
    <3>3. [holder EXCEPT ![l] = NoProc] \in Holders /\ waiters \in [Lock -> Seq(Proc)]
      BY DEF LocksTypeOK, Holders
    <3>4. (Holds(p) \/ Queued(p))'
      BY <3>2, <3>3, EnterPlaces
    <3>. QED  BY <1>1, <2>1, <3>1, <3>4
  <2>5. CASE Holds(p) /\ UNCHANGED lockVars
    <3>1. OthersStay(p) /\ Holds(p)'
      BY <2>5 DEF lockVars, OthersStay, Holds
    <3>. QED  BY <1>1, <2>1, <3>1
  <2>. QED  BY <1>4, <2>2, <2>3, <2>4, <2>5 DEF Moves
<1>. QED  BY <1>2, <1>3, <1>4, StepMoves DEF Moved

\* One task goes on to a step that handles its operation.
GoesOn(p) == \E r : Handled(r) /\ task' = [task EXCEPT ![p] = r]

\* The return of an operation.
LEMMA EndGoesOn ==
  ASSUME NEW p \in Proc, End(p)
  PROVE  GoesOn(p)
<1>1. Handled(NoTask)
  BY DEF Handled, NoTask
<1>. QED  BY <1>1 DEF End, GoesOn

\* The next hit is read as a search does.
LEMMA NextHitGoesOn ==
  ASSUME NEW p \in Proc, NEW hits, NextHit(p, hits)
  PROVE  GoesOn(p)
<1>1. ASSUME NEW t \in hits,
             task' = [task EXCEPT ![p] =
               [NoTask EXCEPT !.op = "search", !.topic = t, !.pc = "read", !.todo = hits \ {t}]]
      PROVE  GoesOn(p)
  <2>1. Handled([NoTask EXCEPT !.op = "search", !.topic = t, !.pc = "read", !.todo = hits \ {t}])
    BY DEF Handled, NoTask
  <2>. QED  BY <1>1, <2>1 DEF GoesOn
<1>. QED  BY <1>1, EndGoesOn DEF NextHit

\* What follows an access or a scan.
LEMMA AfterGoesOn ==
  ASSUME NEW p \in Proc, AfterAccess(p) \/ (\E found : EndScan(p, found))
  PROVE  GoesOn(p)
BY EndGoesOn, NextHitGoesOn DEF AfterAccess, EndScan

\* Whatever a task does next, its operation is one that is handled there.
LEMMA StepKeepsHandled ==
  ASSUME DataOK, AllHandled, [Next]_storeVars
  PROVE  AllHandled'
<1>1. ASSUME NEW p \in Proc, GoesOn(p)
      PROVE  AllHandled'
  <2>1. PICK r : Handled(r) /\ task' = [task EXCEPT ![p] = r]
    BY <1>1 DEF GoesOn
  <2>2. \A q \in Proc : task'[q] = IF q = p THEN r ELSE task[q]
    BY <2>1 DEF DataOK
  <2>. QED  BY <2>1, <2>2 DEF AllHandled, Handled
<1>2. CASE UNCHANGED task
  BY <1>2 DEF AllHandled, Handled
<1>3. ASSUME NEW p \in Proc, NEW op \in Operation, NEW t \in Topic, Begin(p, op, t)
      PROVE  GoesOn(p)
  <2>. DEFINE r == [NoTask EXCEPT !.op = op,
                                  !.topic = IF op \in {"search", "list"} THEN NoTopic ELSE t,
                                  !.pc = FirstStep(op), !.entry = FirstEntry(p, op, t)]
  <2>1. r.op = op /\ r.pc = FirstStep(op)
    BY DEF NoTask
  <2>2. task' = [task EXCEPT ![p] = r]
    BY <1>3 DEF Begin
  <2>. HIDE DEF r
  <2>3. Handled(r)
    BY <2>1 DEF Handled, FirstStep, WriteStep, Operation
  <2>. QED  BY <2>2, <2>3 DEF GoesOn
<1>4. ASSUME NEW p \in Proc, NEW r, task' = [task EXCEPT ![p] = r], task[p] \in TaskRecord,
             r.op = task[p].op, r.rewriting = task[p].rewriting, r.pc # "read",
             r.pc \in {"load", "put"} => task[p].op = "append" \/ task[p].pc = "load"
      PROVE  GoesOn(p)
  BY <1>4 DEF AllHandled, Handled, GoesOn
<1>5. ASSUME NEW p \in Proc, ReadTopic(p) \/ LoadFile(p) \/ Callback(p)
      PROVE  GoesOn(p)
  <2>1. task[p] \in TaskRecord
    BY DEF DataOK
  <2>2. CASE End(p) \/ AfterAccess(p)
    BY <2>2, EndGoesOn, AfterGoesOn
  <2>3. ASSUME task[p].op = "append", NEW x,
               task' = [task EXCEPT ![p].entry = x, ![p].pc = WriteStep]
        PROVE  GoesOn(p)
    <3>. DEFINE r == [task[p] EXCEPT !.entry = x, !.pc = WriteStep]
    <3>1. task' = [task EXCEPT ![p] = r]
      BY <2>3 DEF DataOK, TaskRecord
    <3>2. r.op = task[p].op /\ r.rewriting = task[p].rewriting /\ r.pc \in {"load", "put"}
      BY <2>1 DEF TaskRecord, WriteStep
    <3>. HIDE DEF r
    <3>. QED  BY <1>4, <2>1, <2>3, <3>1, <3>2
  <2>4. ASSUME NEW x, task' = [task EXCEPT ![p].entry = x, ![p].pc = "call"]
        PROVE  GoesOn(p)
    <3>. DEFINE r == [task[p] EXCEPT !.entry = x, !.pc = "call"]
    <3>1. task' = [task EXCEPT ![p] = r]
      BY <2>4 DEF DataOK, TaskRecord
    <3>2. r.op = task[p].op /\ r.rewriting = task[p].rewriting /\ r.pc = "call"
      BY <2>1 DEF TaskRecord
    <3>. HIDE DEF r
    <3>. QED  BY <1>4, <2>1, <3>1, <3>2
  <2>5. ASSUME task[p].pc = "load", NEW x, task' = [task EXCEPT ![p].snap = x, ![p].pc = "put"]
        PROVE  GoesOn(p)
    <3>. DEFINE r == [task[p] EXCEPT !.snap = x, !.pc = "put"]
    <3>1. task' = [task EXCEPT ![p] = r]
      BY <2>5 DEF DataOK, TaskRecord
    <3>2. r.op = task[p].op /\ r.rewriting = task[p].rewriting /\ r.pc = "put"
      BY <2>1 DEF TaskRecord
    <3>. HIDE DEF r
    <3>. QED  BY <1>4, <2>1, <2>5, <3>1, <3>2
  <2>6. ASSUME task' = [task EXCEPT ![p].entry = Summary(@), ![p].rewriting = TRUE,
                                    ![p].pc = WriteStep]
        PROVE  GoesOn(p)
    <3>. DEFINE r == [task[p] EXCEPT !.entry = Summary(@), !.rewriting = TRUE, !.pc = WriteStep]
    <3>1. task' = [task EXCEPT ![p] = r]
      BY <2>6 DEF DataOK, TaskRecord
    <3>2. r.rewriting = TRUE /\ r.pc \in {"load", "put"}
      BY <2>1 DEF TaskRecord, WriteStep
    <3>. HIDE DEF r
    <3>. QED  BY <3>1, <3>2 DEF GoesOn, Handled
  <2>7. CASE ReadTopic(p)
    BY <2>2, <2>3, <2>4, <2>7 DEF ReadTopic
  <2>8. CASE LoadFile(p)
    BY <2>2, <2>5, <2>8 DEF LoadFile, At
  <2>9. CASE Callback(p)
    BY <2>2, <2>6, <2>9 DEF Callback
  <2>. QED  BY <1>5, <2>7, <2>8, <2>9
<1>6. ASSUME NEW p \in Proc, AfterPut(p)
      PROVE  GoesOn(p)
  <2>1. ASSUME task' = [task EXCEPT ![p].pc = "call", ![p].snap = EmptyDisk]
        PROVE  GoesOn(p)
    <3>. DEFINE r == [task[p] EXCEPT !.pc = "call", !.snap = EmptyDisk]
    <3>1. task' = [task EXCEPT ![p] = r]
      BY <2>1 DEF DataOK, TaskRecord
    <3>2. /\ task[p] \in TaskRecord
          /\ r.op = task[p].op /\ r.rewriting = task[p].rewriting /\ r.pc = "call"
      BY DEF DataOK, TaskRecord
    <3>. HIDE DEF r
    <3>. QED  BY <1>4, <3>1, <3>2
  <2>. QED  BY <1>6, <2>1, EndGoesOn, AfterGoesOn DEF AfterPut
<1>7. ASSUME NEW p \in Proc, NEW x,
             task' = [task EXCEPT ![p] = [task[p] EXCEPT !.todo = x, !.pc = "files"]]
      PROVE  GoesOn(p)
  <2>. DEFINE r == [task[p] EXCEPT !.todo = x, !.pc = "files"]
  <2>1. /\ task[p] \in TaskRecord
        /\ r.op = task[p].op /\ r.rewriting = task[p].rewriting /\ r.pc = "files"
    BY DEF DataOK, TaskRecord
  <2>2. task' = [task EXCEPT ![p] = r]
    BY <1>7 DEF r
  <2>. HIDE DEF r
  <2>. QED  BY <1>4, <2>1, <2>2
<1>8. ASSUME NEW p \in Proc, ScanWhole(p) \/ FetchNamespace(p) \/ Glob(p) \/ ScanFile(p)
      PROVE  GoesOn(p)
  <2>1. CASE ScanWhole(p) \/ FetchNamespace(p)
    BY <2>1, AfterGoesOn DEF ScanWhole, FetchNamespace
  <2>2. CASE Glob(p)
    <3>1. task' = [task EXCEPT ![p] = [task[p] EXCEPT !.todo = {f \in File : Exists(disk[f])},
                                                      !.pc = "files"]]
      BY <2>2 DEF Glob, DataOK, TaskRecord
    <3>. QED  BY <1>7, <3>1
  <2>3. CASE ScanFile(p)
    <3>1. task[p].pc = "files" /\ task[p] \in TaskRecord
      BY <2>3 DEF ScanFile, At, DataOK
    <3>2. ASSUME NEW f, NEW e,
                 task' = [task EXCEPT ![p].todo =
                   (@ \ {f}) \cup IF Exists(e) THEN {e.topic} ELSE {}]
          PROVE  GoesOn(p)
      <4>. DEFINE found == (task[p].todo \ {f}) \cup IF Exists(e) THEN {e.topic} ELSE {}
      <4>1. task' = [task EXCEPT ![p] = [task[p] EXCEPT !.todo = found, !.pc = "files"]]
        BY <3>1, <3>2 DEF DataOK, TaskRecord
      <4>. HIDE DEF found
      <4>. QED  BY <1>7, <4>1
    <3>. QED  BY <2>3, <3>2, AfterGoesOn DEF ScanFile
  <2>. QED  BY <1>8, <2>1, <2>2, <2>3
<1>9. ASSUME NEW p \in Proc, Progress(p)
      PROVE  GoesOn(p) \/ UNCHANGED task
  BY <1>5, <1>6, <1>8, <1>9, EndGoesOn
  DEF Progress, Wake, Put, Upsert, WriteRaises, RemoteFails
<1>. QED  BY <1>1, <1>2, <1>3, <1>9 DEF Next, storeVars

\* No task of the store is forgotten: with fairness, that is why every call returns.
THEOREM NoTaskIsForgotten == Spec => []NobodyIsForgotten
<1>. DEFINE Inv == EachHasAPlace /\ AllHandled
<1>1. Init => Inv
  BY DEF Init, NoTask, EachHasAPlace, AllHandled, Handled
<1>2. LocksTypeOK /\ DataOK /\ Places /\ Inv /\ [Next]_storeVars => Inv'
  BY StepKeepsPlaces, StepKeepsHandled
<1>3. LocksTypeOK /\ Places /\ Inv => NobodyIsForgotten
  <2>. SUFFICES ASSUME LocksTypeOK, Places, Inv
                PROVE  NobodyIsForgotten
    OBVIOUS
  <2>1. \A l \in Lock, p \in Proc : holder[l] = p => task[p].pc # "idle" /\ ~Queued(p)
    BY DEF Places, Apart, InPlace, Free, Queued
  <2>2. \A l \in Lock, p \in Proc : p \in ToSet(waiters[l]) => task[p].pc # "idle" /\ ~Holds(p)
    BY DEF Places, Apart, InPlace, Free, Holds
  <2>3. ASSUME NEW l \in Lock, NEW p \in Proc, p \in ToSet(waiters[l])
        PROVE  /\ Head(waiters[l]) \in Proc /\ Head(waiters[l]) \in ToSet(waiters[l])
               /\ holder[l] # p
    <3>1. waiters[l] \in Seq(Proc) /\ waiters[l] # <<>>
      BY <2>3, EmptySeq DEF LocksTypeOK, ToSet
    <3>2. Head(waiters[l]) \in Proc /\ Head(waiters[l]) \in ToSet(waiters[l])
      BY <3>1, QueueShrinks
    <3>. QED  BY <2>3, <3>2 DEF Places, Apart
  <2>4. ASSUME NEW l \in Lock, NEW p \in Proc, p \in ToSet(waiters[l])
        PROVE  \/ \E q \in Proc : q # p /\ holder[l] = q
               \/ ~Locked(holder, l) /\ \E q \in Proc : Head(waiters[l]) = q /\ ~Holds(q)
    BY <2>2, <2>3, <2>4 DEF LocksTypeOK, Locked
  <2>. QED  BY <2>1, <2>2, <2>4 DEF NobodyIsForgotten, AllHandled
<1>. QED  BY <1>1, <1>2, <1>3, StoreTyped, StorePlaces, PTL DEF Spec

-------------------------------------------------------------------------------
(***************************************************************************)
(* The store implements TopicMap when one instance with a lock for every    *)
(* key works on the files, no two topics share one, and no read, write or   *)
(* request fails.                                                           *)
(***************************************************************************)
OwnFiles == \A t, u \in Topic : FileOf[t] = FileOf[u] => t = u

OneReliableStore ==
  /\ AmpleCache
  /\ OwnFiles
  /\ Faults = {}
  /\ \A p, q \in Proc : StoreOf[p] = StoreOf[q]

(***************************************************************************)
(* Which operation may be at which step, and what a task has in hand: what  *)
(* it has read or shown to the summarizer is still what its file says.      *)
(***************************************************************************)
Shaped(r) ==
  /\ r.pc = "read" => r.op \in {"read", "append", "search"}
  /\ r.pc \in {"scan", "files"} => r.op \in {"search", "list"} /\ r.topic = NoTopic
  /\ r.pc = "call" => r.op \in {"read", "create", "append", "search"}
  /\ r.pc \in {"load", "put"} /\ ~r.rewriting => r.op \in {"create", "append", "delete"}
  /\ r.rewriting => r.pc \in {"load", "put"} /\ r.op \in {"read", "create", "append", "search"}

Writes(p, r, e) ==
  /\ r.op = "create" => r.entry.facts = {p} /\ ~r.entry.summarised
  /\ r.op = "append" => r.entry.facts = e.facts \cup {p} /\ ~r.entry.summarised
  /\ r.op = "delete" => r.entry = NoEntry

InHand(p, r, d) ==
  /\ WholeFile /\ r.pc = "put" => r.snap = d
  /\ r.pc \in {"load", "put"} /\ ~r.rewriting => Writes(p, r, d[FileOf[r.topic]])
  /\ r.pc = "call" \/ r.rewriting =>
       /\ Exists(d[FileOf[r.topic]]) /\ r.entry.facts = d[FileOf[r.topic]].facts
       /\ r.rewriting => r.entry.summarised
       /\ r.pc = "call" => r.entry.summarised = d[FileOf[r.topic]].summarised
  /\ r.pc \in {"load", "put", "call"} /\ r.op # "delete" => r.entry.topic = r.topic

WholeEntry(e) == IF Exists(e) THEN e.facts # {} ELSE e = NoEntry

Current ==
  /\ \A f \in File : WholeEntry(disk[f])
  /\ \A p \in Proc : Shaped(task[p]) /\ InHand(p, task[p], disk)

\* Two tasks that hold a lock for a topic do not work on the same file.
LEMMA FilesAreGuarded ==
  ASSUME OneReliableStore, MutualExclusion, Places, NEW p \in Proc, NEW q \in Proc,
         Holds(p), Holds(q),
         task[p].pc \notin {"scan", "files"}, task[q].pc \notin {"scan", "files"},
         WholeFile \/ FileAt(p) = FileAt(q)
  PROVE  p = q
<1>1. PICK l \in Lock, m \in Lock : holder[l] = p /\ holder[m] = q
  BY DEF Holds
<1>2. l[1] = KeyOf(p, task[p]) /\ m[1] = KeyOf(q, task[q])
  BY <1>1 DEF Places, InPlace
<1>3. KeyOf(p, task[p]) = KeyOf(q, task[q])
  BY DEF OneReliableStore, KeyOf, LockKey, ListLockKey, TopicKey, FileAt
<1>4. l = m
  BY <1>1, <1>2, <1>3, NoProcAssumption DEF MutualExclusion, Locked
<1>. QED  BY <1>1, <1>4

\* A write of p leaves what any other task has in hand.
LEMMA OthersKeepHold ==
  ASSUME OneReliableStore, MutualExclusion, Places, DataOK, NEW p \in Proc, NEW q \in Proc \ {p},
         At(p, "put"), NEW d, \A f \in File \ {FileAt(p)} : d[f] = disk[f],
         Shaped(task[q]), InHand(q, task[q], disk)
  PROVE  InHand(q, task[q], d)
<1>. DEFINE r == task[q]
            depends == \/ WholeFile /\ r.pc = "put"
                       \/ r.pc \in {"load", "put"} /\ r.op = "append"
                       \/ r.pc = "call" \/ r.rewriting
<1>1. CASE ~depends
  BY <1>1 DEF InHand, Writes
<1>2. CASE depends
  <2>1. r.pc \in {"load", "put", "call"} /\ r.topic \in Topic
    BY <1>2 DEF Shaped, DataOK, TaskOK
  <2>2. Holds(q) /\ Holds(p) /\ task[p].pc = "put"
    BY <1>2, <2>1 DEF WholeFile, NeedsLock, Places, InPlace, At
  <2>3. ~WholeFile /\ FileAt(q) # FileAt(p)
    BY <2>1, <2>2, FilesAreGuarded
  <2>4. d[FileOf[r.topic]] = disk[FileOf[r.topic]]
    BY <2>1, <2>3, TopicStoreAssumption DEF FileAt
  <2>. QED  BY <2>3, <2>4 DEF InHand, Writes
<1>. QED  BY <1>1, <1>2

-------------------------------------------------------------------------------
(***************************************************************************)
(* The state of TopicMap, task by task and topic by topic.                  *)
(***************************************************************************)
Calls == [p \in Proc |-> Call(p)]

Done(r) == r.op \in {"create", "append"} /\ (r.pc = "call" \/ r.rewriting)

Said(r) ==
  IF r.pc = "idle" THEN [op |-> "none", topic |-> NoTopic, done |-> FALSE]
  ELSE [op |-> r.op, topic |-> IF r.op = "search" THEN NoTopic ELSE r.topic, done |-> Done(r)]

Becomes(p, r) == r \in TaskRecord /\ task' = [task EXCEPT ![p] = r]

\* A step of one task changes the call of its caller only.
LEMMA CallsMove ==
  ASSUME DataOK, NEW p \in Proc, NEW r, Becomes(p, r)
  PROVE  Calls[p] = Said(task[p]) /\ Calls' = [Calls EXCEPT ![p] = Said(r)]
<1>1. task'[p] = r /\ \A q \in Proc \ {p} : task'[q] = task[q]
  BY DEF Becomes, DataOK
<1>2. Call(p) = Said(task[p]) /\ Call(p)' = Said(r)
  BY <1>1 DEF Call, Said, Done
<1>3. \A q \in Proc \ {p} : Call(q)' = Call(q)
  BY <1>1 DEF Call
<1>. QED  BY <1>2, <1>3 DEF Calls

\* A task whose local state changes, inside its block, without a write.
LEMMA ThinkingKeepsCurrent ==
  ASSUME Current, DataOK, NEW p \in Proc, NEW r, Becomes(p, r), UNCHANGED <<layout, disk>>,
         Shaped(r), InHand(p, r, disk)
  PROVE  Current'
<1>1. task'[p] = r /\ \A q \in Proc \ {p} : task'[q] = task[q]
  BY DEF Becomes, DataOK
<1>2. ASSUME NEW q \in Proc
      PROVE  (Shaped(task[q]) /\ InHand(q, task[q], disk))'
  <2>1. PICK x : x = task'[q]
    OBVIOUS
  <2>2. Shaped(x) /\ InHand(q, x, disk)
    BY <1>1, <2>1 DEF Current
  <2>. QED  BY <2>1, <2>2 DEF Shaped, InHand, Writes, WholeFile, Exists
<1>. QED  BY <1>2 DEF Current, WholeEntry, Exists

\* A write puts the entry in hand in its place and leaves the other files.
LEMMA WritingKeepsCurrent ==
  ASSUME OneReliableStore, MutualExclusion, Places, Current, DataOK, NEW p \in Proc, At(p, "put"),
         NEW r, Becomes(p, r), UNCHANGED layout, disk' = NewDisk(p), Shaped(r),
         \A d : d[FileAt(p)] = task[p].entry => InHand(p, r, d)
  PROVE  /\ Current'
         /\ \A f \in File : disk'[f] = IF f = FileAt(p) THEN task[p].entry ELSE disk[f]
<1>1. task'[p] = r /\ \A q \in Proc \ {p} : task'[q] = task[q]
  BY DEF Becomes, DataOK
<1>2. /\ task[p] \in TaskRecord /\ task[p].pc = "put" /\ task[p].topic \in Topic
      /\ FileAt(p) \in File /\ Shaped(task[p]) /\ InHand(p, task[p], disk)
  BY TopicStoreAssumption DEF At, DataOK, TaskOK, Current, FileAt
<1>3. \A f \in File : disk'[f] = IF f = FileAt(p) THEN task[p].entry ELSE disk[f]
  <2>1. WholeFile => task[p].snap = disk
    BY <1>2 DEF InHand
  <2>. QED  BY <1>2, <2>1 DEF NewDisk, DataOK
<1>4. WholeEntry(task[p].entry)
  <2>1. WholeEntry(disk[FileAt(p)])
    BY <1>2 DEF Current
  <2>2. CASE task[p].rewriting
    <3>1. /\ task[p].entry.topic = task[p].topic
          /\ task[p].entry.facts = disk[FileAt(p)].facts /\ Exists(disk[FileAt(p)])
      BY <1>2, <2>2 DEF InHand, Shaped, FileAt
    <3>. QED  BY <1>2, <2>1, <3>1, TopicStoreAssumption DEF WholeEntry, Exists
  <2>3. CASE ~task[p].rewriting
    <3>1. /\ task[p].op \in {"create", "append", "delete"}
          /\ Writes(p, task[p], disk[FileAt(p)])
          /\ task[p].op # "delete" => task[p].entry.topic = task[p].topic
      BY <1>2, <2>3 DEF InHand, Shaped, FileAt
    <3>2. CASE task[p].op = "delete"
      BY <3>1, <3>2 DEF Writes, WholeEntry, Exists, NoEntry
    <3>3. CASE task[p].op # "delete"
      <4>1. p \in task[p].entry.facts
        BY <3>1, <3>3 DEF Writes
      <4>. QED  BY <1>2, <3>1, <3>3, <4>1, TopicStoreAssumption DEF WholeEntry, Exists
    <3>. QED  BY <3>2, <3>3
  <2>. QED  BY <2>2, <2>3
<1>5. ASSUME NEW q \in Proc
      PROVE  (Shaped(task[q]) /\ InHand(q, task[q], disk))'
  <2>1. PICK x : x = task'[q]
    OBVIOUS
  <2>2. PICK d : d = disk'
    OBVIOUS
  <2>3. d[FileAt(p)] = task[p].entry /\ \A f \in File \ {FileAt(p)} : d[f] = disk[f]
    BY <1>2, <1>3, <2>2
  <2>4. Shaped(x) /\ InHand(q, x, d)
    <3>1. CASE q = p
      BY <1>1, <2>1, <2>3, <3>1
    <3>2. CASE q # p
      <4>1. q \in Proc \ {p} /\ x = task[q] /\ Shaped(task[q]) /\ InHand(q, task[q], disk)
        BY <1>1, <2>1, <3>2 DEF Current
      <4>2. InHand(q, task[q], d)
        BY <2>3, <4>1, OthersKeepHold
      <4>. QED  BY <4>1, <4>2
    <3>. QED  BY <3>1, <3>2
  <2>. QED  BY <2>1, <2>2, <2>4 DEF Shaped, InHand, Writes, WholeFile, Exists
<1>6. ASSUME NEW f \in File
      PROVE  WholeEntry(disk[f])'
  <2>1. PICK x : x = disk'[f]
    OBVIOUS
  <2>2. WholeEntry(x)
    BY <1>3, <1>4, <2>1 DEF Current
  <2>. QED  BY <2>1, <2>2 DEF WholeEntry, Exists
<1>. QED  BY <1>3, <1>5, <1>6 DEF Current

-------------------------------------------------------------------------------
(***************************************************************************)
(* Each step of the store is one step of TopicMap, or none.                 *)
(***************************************************************************)
Simulated == Promise!Next \/ UNCHANGED <<Memory, Calls>>

(***************************************************************************)
(* A task that returns, or a search that goes to its next hit.              *)
(***************************************************************************)
Rests(p, r) ==
  /\ Becomes(p, r)
  /\ r.pc \in {"idle", "read"} /\ ~r.rewriting
  /\ r.pc = "read" => r.op = "search" /\ task[p].op = "search"

RestsNow(p) == \E r : Rests(p, r)

\* The end of an operation.
LEMMA EndRests ==
  ASSUME NEW p \in Proc, End(p)
  PROVE  RestsNow(p)
<1>1. Rests(p, NoTask)
  BY NoTaskOK DEF End, Rests, Becomes, TaskOK, NoTask
<1>. QED  BY <1>1 DEF RestsNow

\* The next hit of a search, or its end.
LEMMA NextHitRests ==
  ASSUME NEW p \in Proc, NEW hits \in SUBSET Topic, task[p].op = "search", NextHit(p, hits)
  PROVE  RestsNow(p)
<1>1. ASSUME NEW t \in hits,
             task' = [task EXCEPT ![p] =
               [NoTask EXCEPT !.op = "search", !.topic = t, !.pc = "read", !.todo = hits \ {t}]]
      PROVE  RestsNow(p)
  <2>. DEFINE r == [NoTask EXCEPT !.op = "search", !.topic = t, !.pc = "read",
                                  !.todo = hits \ {t}]
  <2>1. r \in TaskRecord /\ r.pc = "read" /\ r.op = "search" /\ r.rewriting = FALSE
    BY NoTaskOK DEF TaskOK, NoTask, TaskRecord, Operation, Step
  <2>2. task' = [task EXCEPT ![p] = r]
    BY <1>1
  <2>. HIDE DEF r
  <2>3. Rests(p, r)
    BY <2>1, <2>2 DEF Rests, Becomes
  <2>. QED  BY <2>3 DEF RestsNow
<1>. QED  BY <1>1, EndRests DEF NextHit

\* What follows an access.
LEMMA AfterAccessRests ==
  ASSUME DataOK, NEW p \in Proc, task[p].pc # "files", AfterAccess(p)
  PROVE  RestsNow(p)
BY EndRests, NextHitRests DEF AfterAccess, DataOK, TaskOK

\* What follows a scan.
LEMMA EndScanRests ==
  ASSUME NEW p \in Proc, NEW found \in SUBSET Topic, task[p].op \in {"search", "list"},
         EndScan(p, found)
  PROVE  RestsNow(p)
BY EndRests, NextHitRests DEF EndScan, Ranked

(***************************************************************************)
(* The caller of an operation that ends without a write has the answer: a   *)
(* create or append is done, a delete found nothing.                        *)
(***************************************************************************)
LEMMA RestReturns ==
  ASSUME DataOK, Current, NEW p \in Proc, task[p].pc # "idle", RestsNow(p),
         UNCHANGED <<layout, disk>>,
         task[p].op \in {"create", "append"} => Done(task[p]),
         task[p].op = "delete" => task[p].topic \in Topic /\ disk[FileAt(p)] = NoEntry
  PROVE  Current' /\ Simulated
<1>1. PICK r : Rests(p, r)
  BY DEF RestsNow
<1>2. Becomes(p, r) /\ Shaped(r) /\ InHand(p, r, disk)
  BY <1>1 DEF Rests, Shaped, InHand
<1>3. Current'
  BY <1>2, ThinkingKeepsCurrent
<1>4. /\ Calls[p] = Said(task[p]) /\ Calls' = [Calls EXCEPT ![p] = Said(r)]
      /\ Memory' = Memory
  BY <1>2, CallsMove DEF Memory
<1>5. CASE r.pc = "idle"
  <2>1. Said(r) = Promise!NoCall
    BY <1>5 DEF Said, Promise!NoCall
  <2>2. /\ Calls[p] # Promise!NoCall /\ Calls[p].op = task[p].op
        /\ Calls[p].op \in {"create", "append"} => Calls[p].done
        /\ Calls[p].op = "delete" => Memory[Calls[p].topic] = Promise!Nothing
    <3>1. task[p].op # "none" /\ task[p].op \in Operation
      BY DEF DataOK, TaskRecord, Operation
    <3>2. PICK b \in BOOLEAN : b = Done(task[p])
      BY DEF Done
    <3>3. Calls[p] = [op |-> task[p].op, done |-> b,
                      topic |-> IF task[p].op = "search" THEN NoTopic ELSE task[p].topic]
      BY <1>4, <3>2 DEF Said
    <3>4. task[p].op = "delete" => Memory[task[p].topic] = Promise!Nothing
      <4>1. NoEntry.facts = {} /\ NoEntry.summarised = FALSE
        BY DEF NoEntry
      <4>. QED  BY <4>1 DEF Memory, Promise!Nothing, FileAt
    <3>5. /\ Calls[p].op = task[p].op
          /\ Calls[p].done = b
          /\ task[p].op = "delete" => Calls[p].topic = task[p].topic
      BY <3>3
    <3>6. Calls[p] # Promise!NoCall
      BY <3>1, <3>5 DEF Promise!NoCall
    <3>. QED  BY <3>2, <3>4, <3>5, <3>6
  <2>3. Promise!Return(p)
    BY <1>4, <2>1, <2>2 DEF Promise!Return, Calls
  <2>. QED  BY <1>3, <2>3 DEF Simulated, Promise!Next
<1>6. CASE r.pc = "read"
  <2>1. Said(r) = Said(task[p])
    BY <1>1, <1>6 DEF Rests, Said, Done
  <2>2. Calls' = Calls
    BY <1>4, <2>1 DEF Calls
  <2>. QED  BY <1>3, <1>4, <2>2 DEF Simulated
<1>. QED  BY <1>1, <1>5, <1>6 DEF Rests

\* A step inside an operation that the caller does not see.
LEMMA ThinkingIsSilent ==
  ASSUME DataOK, Current, NEW p \in Proc, NEW r, Becomes(p, r), UNCHANGED <<layout, disk>>,
         Shaped(r), InHand(p, r, disk), task[p].pc # "idle", r.pc # "idle",
         r.op = task[p].op, r.topic = task[p].topic, Done(r) <=> Done(task[p])
  PROVE  Current' /\ Simulated
<1>1. Calls[p] = Said(task[p]) /\ Calls' = [Calls EXCEPT ![p] = Said(r)]
  BY CallsMove
<1>2. Said(r) = Said(task[p])
  <2>1. Done(r) = Done(task[p])
    BY DEF Done
  <2>. QED  BY <2>1 DEF Said
<1>3. UNCHANGED <<Memory, Calls>>
  BY <1>1, <1>2 DEF Memory, Calls
<1>. QED  BY <1>3, ThinkingKeepsCurrent DEF Simulated

\* The call: an operation waits for its lock, and nothing is in hand but what is to be created.
LEMMA BeginSimulated ==
  ASSUME DataOK, Current, NEW p \in Proc, NEW op \in Operation, NEW t \in Topic, Begin(p, op, t)
  PROVE  Current' /\ Simulated
<1>. DEFINE scans == op \in {"search", "list"}
            r == [NoTask EXCEPT !.op = op, !.topic = IF scans THEN NoTopic ELSE t,
                                !.pc = FirstStep(op), !.entry = FirstEntry(p, op, t)]
<1>1. /\ FirstStep(op) \in {"read", "load", "put", "scan"}
      /\ scans <=> FirstStep(op) = "scan"
      /\ op \in {"read", "append"} <=> FirstStep(op) = "read"
      /\ FirstStep(op) = "put" => ~WholeFile
  BY DEF Operation, FirstStep, WriteStep, WholeFile
<1>2. /\ FirstEntry(p, op, t) \in Entry
      /\ op = "create" => /\ FirstEntry(p, op, t).topic = t /\ FirstEntry(p, op, t).facts = {p}
                          /\ FirstEntry(p, op, t).summarised = FALSE
      /\ op = "delete" => FirstEntry(p, op, t) = NoEntry
  BY NoTaskOK DEF FirstEntry, Entry
<1>3. /\ r \in TaskRecord /\ r.pc = FirstStep(op) /\ r.op = op /\ r.rewriting = FALSE
      /\ r.topic = (IF scans THEN NoTopic ELSE t) /\ r.entry = FirstEntry(p, op, t)
  BY <1>1, <1>2, NoTaskOK DEF TaskOK, NoTask, TaskRecord, Step
<1>4. Becomes(p, r) /\ task[p].pc = "idle" /\ UNCHANGED <<layout, disk>>
  BY <1>3 DEF Begin, Becomes
<1>. HIDE DEF r
<1>5. Shaped(r)
  BY <1>1, <1>3 DEF Shaped, Operation
<1>6. InHand(p, r, disk)
  BY <1>1, <1>2, <1>3 DEF InHand, Writes, Operation
<1>7. Current'
  BY <1>4, <1>5, <1>6, ThinkingKeepsCurrent
<1>8. /\ Calls[p] = Said(task[p]) /\ Calls' = [Calls EXCEPT ![p] = Said(r)]
      /\ Memory' = Memory
  BY <1>4, CallsMove DEF Memory
<1>9. Calls[p] = Promise!NoCall
  BY <1>4, <1>8 DEF Said, Promise!NoCall
<1>10. Said(r) = [op |-> op, topic |-> IF scans THEN NoTopic ELSE t, done |-> FALSE]
  BY <1>1, <1>3 DEF Said, Done
<1>11. Promise!Invoke(p)
  <2>1. CASE scans
    BY <1>8, <1>9, <1>10, <2>1 DEF Promise!Invoke, Calls
  <2>2. CASE ~scans
    <3>1. op \in {"create", "read", "append", "delete"}
      BY <2>2 DEF Operation
    <3>. QED  BY <1>8, <1>9, <1>10, <2>2, <3>1 DEF Promise!Invoke, Calls
  <2>. QED  BY <2>1, <2>2
<1>. QED  BY <1>7, <1>11 DEF Simulated, Promise!Next

\* The read at the start: an append has the text in hand, an access the text it found.
LEMMA ReadSimulated ==
  ASSUME OneReliableStore, DataOK, Current, NEW p \in Proc, ReadTopic(p), UNCHANGED layout
  PROVE  Current' /\ Simulated
<1>1. /\ task[p].pc = "read" /\ task[p] \in TaskRecord /\ task[p].topic \in Topic
      /\ ~task[p].rewriting /\ UNCHANGED <<layout, disk>>
  BY DEF ReadTopic, At, DataOK, TaskOK, Current, Shaped
<1>. DEFINE e == disk[FileAt(p)]
<1>2. e \in Entry
  BY <1>1, TopicStoreAssumption DEF DataOK, FileAt
<1>3. \/ /\ task[p].op = "append"
         /\ task' = [task EXCEPT ![p].entry = WithLine(p, e), ![p].pc = WriteStep]
      \/ task[p].op \in {"read", "search"} /\ AfterAccess(p)
      \/ /\ task[p].op \in {"read", "search"} /\ Exists(e)
         /\ task' = [task EXCEPT ![p].entry = [e EXCEPT !.topic = task[p].topic], ![p].pc = "call"]
  BY DEF ReadTopic, ReadResults, OneReliableStore
<1>4. ASSUME NEW x \in Entry, NEW pc \in {"load", "put", "call"}, 
             task' = [task EXCEPT ![p].entry = x, ![p].pc = pc],
             x.topic = task[p].topic, pc = "put" => ~WholeFile,
             \/ /\ task[p].op = "append" /\ pc # "call"
                /\ x.facts = e.facts \cup {p} /\ x.summarised = FALSE
             \/ /\ task[p].op \in {"read", "search"} /\ pc = "call" /\ Exists(e)
                /\ x.facts = e.facts /\ x.summarised = e.summarised
      PROVE  Current' /\ Simulated
  <2>. DEFINE r == [task[p] EXCEPT !.entry = x, !.pc = pc]
  <2>1. /\ r \in TaskRecord /\ r.entry = x /\ r.pc = pc /\ r.op = task[p].op
        /\ r.topic = task[p].topic /\ r.rewriting = task[p].rewriting
    BY <1>1 DEF TaskRecord, Step
  <2>2. Becomes(p, r)
    BY <1>4, <2>1 DEF Becomes, DataOK, TaskRecord
  <2>. HIDE DEF r
  <2>3. Shaped(r) /\ InHand(p, r, disk)
    BY <1>1, <1>4, <2>1 DEF Shaped, InHand, Writes, FileAt
  <2>4. Done(r) <=> Done(task[p])
    BY <1>1, <1>4, <2>1 DEF Done
  <2>. QED  BY <1>1, <1>4, <2>1, <2>2, <2>3, <2>4, ThinkingIsSilent
<1>5. CASE task[p].op \in {"read", "search"} /\ AfterAccess(p)
  BY <1>1, <1>5, AfterAccessRests, RestReturns
<1>6. CASE /\ task[p].op = "append"
           /\ task' = [task EXCEPT ![p].entry = WithLine(p, e), ![p].pc = WriteStep]
  <2>1. /\ WithLine(p, e) \in Entry /\ WithLine(p, e).topic = task[p].topic
        /\ WithLine(p, e).facts = e.facts \cup {p} /\ WithLine(p, e).summarised = FALSE
        /\ WriteStep \in {"load", "put", "call"} /\ WriteStep # "call"
        /\ WriteStep = "put" => ~WholeFile
    BY <1>1, <1>2 DEF WithLine, Entry, WriteStep, WholeFile
  <2>. QED  BY <1>4, <1>6, <2>1
<1>7. CASE /\ task[p].op \in {"read", "search"} /\ Exists(e)
           /\ task' = [task EXCEPT ![p].entry = [e EXCEPT !.topic = task[p].topic],
                                   ![p].pc = "call"]
  <2>. DEFINE x == [e EXCEPT !.topic = task[p].topic]
  <2>1. /\ x \in Entry /\ x.topic = task[p].topic
        /\ x.facts = e.facts /\ x.summarised = e.summarised
    BY <1>1, <1>2 DEF Entry
  <2>. HIDE DEF x
  <2>2. task' = [task EXCEPT ![p].entry = x, ![p].pc = "call"]
    BY <1>7 DEF x
  <2>. QED  BY <1>4, <1>7, <2>1, <2>2
<1>. QED  BY <1>3, <1>5, <1>6, <1>7

\* The load before a write: a delete that finds nothing returns, JSON has the whole file in hand.
LEMMA LoadSimulated ==
  ASSUME OneReliableStore, DataOK, Current, NEW p \in Proc, LoadFile(p), UNCHANGED layout
  PROVE  Current' /\ Simulated
<1>1. /\ task[p].pc = "load" /\ task[p] \in TaskRecord /\ task[p].topic \in Topic
      /\ UNCHANGED <<layout, disk>> /\ FileAt(p) \in File
      /\ Shaped(task[p]) /\ InHand(p, task[p], disk)
  BY TopicStoreAssumption DEF LoadFile, At, DataOK, TaskOK, Current, FileAt
<1>2. /\ Loaded(p) \in [File -> Entry] /\ Loaded(p)[FileAt(p)] = disk[FileAt(p)]
      /\ WholeFile => Loaded(p) = disk
  BY <1>1, NoTaskOK DEF Loaded, DataOK
<1>3. \/ task[p].op = "delete" /\ ~Exists(disk[FileAt(p)]) /\ End(p)
      \/ task' = [task EXCEPT ![p].snap = Loaded(p), ![p].pc = "put"]
  BY <1>2 DEF LoadFile, OneReliableStore
<1>4. CASE task[p].op = "delete" /\ ~Exists(disk[FileAt(p)]) /\ End(p)
  <2>1. disk[FileAt(p)] = NoEntry
    BY <1>1, <1>4 DEF Current, WholeEntry
  <2>. QED  BY <1>1, <1>4, <2>1, EndRests, RestReturns
<1>5. CASE task' = [task EXCEPT ![p].snap = Loaded(p), ![p].pc = "put"]
  <2>. DEFINE r == [task[p] EXCEPT !.snap = Loaded(p), !.pc = "put"]
  <2>1. /\ r \in TaskRecord /\ r.entry = task[p].entry /\ r.pc = "put" /\ r.op = task[p].op
        /\ r.topic = task[p].topic /\ r.rewriting = task[p].rewriting /\ r.snap = Loaded(p)
    BY <1>1, <1>2 DEF TaskRecord, Step
  <2>2. Becomes(p, r)
    BY <1>5, <2>1 DEF Becomes, DataOK, TaskRecord
  <2>. HIDE DEF r
  <2>3. Shaped(r) /\ InHand(p, r, disk)
    BY <1>1, <1>2, <2>1 DEF Shaped, InHand, Writes
  <2>4. Done(r) <=> Done(task[p])
    BY <1>1, <2>1 DEF Done
  <2>. QED  BY <1>1, <2>1, <2>2, <2>3, <2>4, ThinkingIsSilent
<1>. QED  BY <1>3, <1>4, <1>5

\* The summarizer's answer: the operation returns, or has the summary in hand.
LEMMA CallbackSimulated ==
  ASSUME DataOK, Current, NEW p \in Proc, Callback(p), UNCHANGED layout
  PROVE  Current' /\ Simulated
<1>1. /\ task[p].pc = "call" /\ task[p] \in TaskRecord /\ task[p].topic \in Topic
      /\ UNCHANGED <<layout, disk>> /\ Shaped(task[p]) /\ InHand(p, task[p], disk)
  BY DEF Callback, At, DataOK, TaskOK, Current
<1>2. CASE AfterAccess(p)
  <2>1. /\ task[p].op \in {"create", "append"} => Done(task[p])
        /\ task[p].op # "delete"
    BY <1>1 DEF Done, Shaped
  <2>. QED  BY <1>1, <1>2, <2>1, AfterAccessRests, RestReturns
<1>3. CASE task' = [task EXCEPT ![p].entry = Summary(@), ![p].rewriting = TRUE, ![p].pc = WriteStep]
  <2>. DEFINE r == [task[p] EXCEPT !.entry = Summary(@), !.rewriting = TRUE, !.pc = WriteStep]
              x == Summary(task[p].entry)
  <2>1. /\ x \in Entry /\ x.topic = task[p].entry.topic /\ x.facts = task[p].entry.facts
        /\ x.summarised = TRUE
        /\ WriteStep \in {"load", "put"} /\ (WriteStep = "put" => ~WholeFile)
    BY <1>1 DEF TaskRecord, Entry, Summary, WriteStep, WholeFile
  <2>2. r = [task[p] EXCEPT !.entry = x, !.rewriting = TRUE, !.pc = WriteStep]
    BY <1>1 DEF TaskRecord
  <2>. HIDE DEF x
  <2>3. /\ r \in TaskRecord /\ r.entry = x /\ r.pc = WriteStep /\ r.op = task[p].op
        /\ r.topic = task[p].topic /\ r.rewriting = TRUE
    BY <1>1, <2>1, <2>2 DEF TaskRecord, Step
  <2>4. Becomes(p, r)
    BY <1>3, <2>3 DEF Becomes, DataOK, TaskRecord
  <2>. HIDE DEF r
  <2>5. Shaped(r) /\ InHand(p, r, disk)
    BY <1>1, <2>1, <2>3 DEF Shaped, InHand, Writes
  <2>6. Done(r) <=> Done(task[p])
    BY <1>1, <2>3 DEF Done
  <2>. QED  BY <1>1, <2>1, <2>3, <2>4, <2>5, <2>6, ThinkingIsSilent
<1>. QED  BY <1>2, <1>3 DEF Callback

\* The steps of a scan: a listing returns, a search returns or goes to its first hit.
LEMMA ScanSimulated ==
  ASSUME DataOK, Current, NEW p \in Proc, UNCHANGED layout,
         ScanWhole(p) \/ FetchNamespace(p) \/ Glob(p) \/ ScanFile(p)
  PROVE  Current' /\ Simulated
<1>1. /\ task[p].pc \in {"scan", "files"} /\ task[p] \in TaskRecord
      /\ UNCHANGED <<layout, disk>> /\ Shaped(task[p]) /\ task[p].op \in {"search", "list"}
      /\ Headings(disk) \in SUBSET Topic
  BY DEF ScanWhole, FetchNamespace, Glob, ScanFile, At, DataOK, Current, Shaped, Headings,
         Exists, Entry
<1>2. ASSUME NEW found \in SUBSET Topic, EndScan(p, found)
      PROVE  Current' /\ Simulated
  BY <1>1, <1>2, EndScanRests, RestReturns
<1>3. ASSUME NEW todo \in SUBSET (Topic \cup File),
             task' = [task EXCEPT ![p] = [task[p] EXCEPT !.todo = todo, !.pc = "files"]]
      PROVE  Current' /\ Simulated
  <2>. DEFINE r == [task[p] EXCEPT !.todo = todo, !.pc = "files"]
  <2>1. /\ r \in TaskRecord /\ r.pc = "files" /\ r.op = task[p].op
        /\ r.topic = task[p].topic /\ r.rewriting = task[p].rewriting
    BY <1>1 DEF TaskRecord, Step
  <2>2. Becomes(p, r)
    BY <1>3, <2>1 DEF Becomes
  <2>. HIDE DEF r
  <2>3. Shaped(r) /\ InHand(p, r, disk)
    BY <1>1, <2>1 DEF Shaped, InHand
  <2>4. Done(r) <=> Done(task[p])
    BY <1>1, <2>1 DEF Done
  <2>. QED  BY <1>1, <2>1, <2>2, <2>3, <2>4, ThinkingIsSilent
<1>4. CASE ScanWhole(p) \/ FetchNamespace(p)
  BY <1>1, <1>2, <1>4 DEF ScanWhole, FetchNamespace
<1>5. CASE Glob(p)
  <2>1. {f \in File : Exists(disk[f])} \in SUBSET (Topic \cup File)
    OBVIOUS
  <2>2. task' = [task EXCEPT ![p] = [task[p] EXCEPT !.todo = {f \in File : Exists(disk[f])},
                                                    !.pc = "files"]]
    BY <1>5 DEF Glob, DataOK, TaskRecord
  <2>. QED  BY <1>3, <2>1, <2>2
<1>6. CASE ScanFile(p)
  <2>1. task[p].pc = "files" /\ task[p].todo \subseteq Topic \cup File
    BY <1>1, <1>6 DEF ScanFile, At, TaskRecord
  <2>2. CASE task[p].todo \cap File = {} /\ EndScan(p, task[p].todo)
    BY <1>2, <2>1, <2>2
  <2>3. ASSUME NEW f \in task[p].todo \cap File, NEW e \in ReadResults(f),
               task' = [task EXCEPT ![p].todo =
                 (@ \ {f}) \cup IF Exists(e) THEN {e.topic} ELSE {}]
        PROVE  Current' /\ Simulated
    <3>. DEFINE found == (task[p].todo \ {f}) \cup IF Exists(e) THEN {e.topic} ELSE {}
    <3>1. e \in Entry
      BY NoTaskOK DEF ReadResults, DataOK
    <3>2. found \in SUBSET (Topic \cup File)
      BY <2>1, <3>1 DEF Exists, Entry
    <3>3. task' = [task EXCEPT ![p] = [task[p] EXCEPT !.todo = found, !.pc = "files"]]
      BY <2>1, <2>3 DEF DataOK, TaskRecord
    <3>. HIDE DEF found
    <3>. QED  BY <1>3, <3>2, <3>3
  <2>. QED  BY <1>6, <2>2, <2>3 DEF ScanFile
<1>. QED  BY <1>4, <1>5, <1>6

\* The record of a call that is done.
LEMMA DoneRecord ==
  ASSUME NEW o, NEW t, NEW c, c = [op |-> o, topic |-> t, done |-> FALSE]
  PROVE  [c EXCEPT !.done = TRUE] = [op |-> o, topic |-> t, done |-> TRUE]
<1>1. PICK d : d = TRUE
  OBVIOUS
<1>2. PICK b : b = FALSE
  OBVIOUS
<1>3. c = [op |-> o, topic |-> t, done |-> b]
  BY <1>2
<1>4. [c EXCEPT !.done = d] = [op |-> o, topic |-> t, done |-> d]
  BY <1>3
<1>. QED  BY <1>1, <1>4, Zenon

(***************************************************************************)
(* A write: a create, append or delete takes effect on the current content  *)
(* of its topic; a rewrite replaces a text by its summary.                  *)
(***************************************************************************)
LEMMA PutSimulated ==
  ASSUME OneReliableStore, MutualExclusion, Places, DataOK, Current, NEW p \in Proc,
         Put(p) \/ Upsert(p), UNCHANGED layout
  PROVE  Current' /\ Simulated
<1>. DEFINE t == task[p].topic
            x == task[p].entry
            old == disk[FileAt(p)]
<1>1. /\ task[p].pc = "put" /\ task[p] \in TaskRecord /\ t \in Topic /\ FileAt(p) \in File
      /\ Shaped(task[p]) /\ InHand(p, task[p], disk) /\ x \in Entry /\ old \in Entry
      /\ At(p, "put") /\ disk' = NewDisk(p) /\ AfterPut(p)
  BY TopicStoreAssumption
  DEF Put, Upsert, At, DataOK, TaskOK, Current, FileAt, OneReliableStore, TaskRecord
<1>2. ASSUME NEW r, Becomes(p, r), Shaped(r),
             \A d : d[FileAt(p)] = x => InHand(p, r, d)
      PROVE  /\ Current'
             /\ Memory' = [Memory EXCEPT ![t] = [facts |-> x.facts, summarised |-> x.summarised]]
             /\ Calls[p] = Said(task[p]) /\ Calls' = [Calls EXCEPT ![p] = Said(r)]
  <2>1. Current' /\ \A f \in File : disk'[f] = IF f = FileAt(p) THEN x ELSE disk[f]
    BY <1>1, <1>2, WritingKeepsCurrent
  <2>2. \A u \in Topic : FileOf[u] \in File /\ (FileOf[u] = FileAt(p) <=> u = t)
    BY <1>1, TopicStoreAssumption DEF OneReliableStore, OwnFiles, FileAt
  <2>3. \A u \in Topic : disk'[FileOf[u]] = IF u = t THEN x ELSE disk[FileOf[u]]
    BY <2>1, <2>2
  <2>4. Memory' = [Memory EXCEPT ![t] = [facts |-> x.facts, summarised |-> x.summarised]]
    BY <1>1, <2>3 DEF Memory
  <2>. QED  BY <1>2, <2>1, <2>4, CallsMove
<1>3. CASE task[p].rewriting /\ AfterAccess(p)
  <2>1. PICK r : Rests(p, r)
    BY <1>1, <1>3, AfterAccessRests DEF RestsNow
  <2>2. Becomes(p, r) /\ Shaped(r) /\ \A d : InHand(p, r, d)
    BY <2>1 DEF Rests, Shaped, InHand
  <2>3. /\ task[p].op \in {"read", "create", "append", "search"}
        /\ Exists(old) /\ x.facts = old.facts /\ x.summarised = TRUE
    BY <1>1, <1>3 DEF Shaped, InHand, FileAt, Entry
  <2>4. /\ Current'
        /\ Memory' = [Memory EXCEPT ![t] = [facts |-> x.facts, summarised |-> x.summarised]]
        /\ Calls[p] = Said(task[p]) /\ Calls' = [Calls EXCEPT ![p] = Said(r)]
    BY <1>2, <2>2
  <2>5. /\ Memory[t] = [facts |-> old.facts, summarised |-> old.summarised]
        /\ Memory[t] # Promise!Nothing
    <3>1. Memory[t] = [facts |-> old.facts, summarised |-> old.summarised]
      BY <1>1 DEF Memory, FileAt
    <3>2. old.facts # {}
      BY <1>1, <2>3 DEF Current, WholeEntry
    <3>. QED  BY <3>1, <3>2 DEF Promise!Nothing
  <2>6. Memory' = [Memory EXCEPT ![t].summarised = TRUE]
    BY <1>1, <2>3, <2>4, <2>5 DEF Memory
  <2>7. /\ Calls[p].op \in {"create", "append"} => Calls[p].done
        /\ Calls[p].op = "search" \/ (Calls[p].topic = t /\ Calls[p].op # "delete")
    <3>1. task[p].op \in {"create", "append"} => Done(task[p]) = TRUE
      BY <1>3 DEF Done
    <3>2. PICK b : b = Done(task[p])
      OBVIOUS
    <3>3. Calls[p] = [op |-> task[p].op, done |-> b,
                      topic |-> IF task[p].op = "search" THEN NoTopic ELSE t]
      BY <1>1, <2>4, <3>2 DEF Said
    <3>4. /\ Calls[p].op = task[p].op /\ Calls[p].done = b
          /\ Calls[p].topic = IF task[p].op = "search" THEN NoTopic ELSE t
      BY <3>3
    <3>. QED  BY <2>3, <3>1, <3>2, <3>4
  <2>8. UNCHANGED Calls \/ Calls' = [Calls EXCEPT ![p] = Promise!NoCall]
    <3>1. CASE r.pc = "idle"
      <4>1. Said(r) = Promise!NoCall
        BY <3>1 DEF Said, Promise!NoCall
      <4>. QED  BY <2>4, <4>1
    <3>2. CASE r.pc = "read"
      <4>1. Said(r) = Said(task[p])
        BY <1>1, <2>1, <3>2 DEF Rests, Said, Done
      <4>2. Calls' = [Calls EXCEPT ![p] = Calls[p]]
        BY <2>4, <4>1
      <4>. QED  BY <4>2 DEF Calls
    <3>. QED  BY <2>1, <3>1, <3>2 DEF Rests
  <2>9. Promise!Summarise(p)
    BY <1>1, <2>5, <2>6, <2>7, <2>8 DEF Promise!Summarise, Calls
  <2>. QED  BY <2>4, <2>9 DEF Simulated, Promise!Next
<1>4. CASE ~task[p].rewriting
  <2>1. /\ task[p].op \in {"create", "append", "delete"}
        /\ Writes(p, task[p], old)
        /\ task[p].op # "delete" => x.topic = t
    BY <1>1, <1>4 DEF InHand, Shaped, FileAt
  <2>2. PICK r : /\ Becomes(p, r)
                 /\ \/ task[p].op = "delete" /\ r.pc = "idle" /\ ~r.rewriting
                    \/ /\ task[p].op \in {"create", "append"} /\ r.pc = "call" /\ ~r.rewriting
                       /\ r.op = task[p].op /\ r.topic = t /\ r.entry = x
    <3>1. CASE task[p].op = "delete" /\ End(p)
      <4>1. Becomes(p, NoTask) /\ NoTask.pc = "idle" /\ ~NoTask.rewriting
        BY <3>1, NoTaskOK DEF End, Becomes, TaskOK, NoTask
      <4>. QED  BY <3>1, <4>1
    <3>2. CASE /\ task[p].op \in {"create", "append"}
               /\ task' = [task EXCEPT ![p].pc = "call", ![p].snap = EmptyDisk]
      <4>. DEFINE r == [task[p] EXCEPT !.pc = "call", !.snap = EmptyDisk]
      <4>1. /\ r \in TaskRecord /\ r.topic = t /\ r.pc = "call" /\ r.op = task[p].op
            /\ r.entry = x /\ r.rewriting = task[p].rewriting
        BY <1>1, NoTaskOK DEF TaskRecord, Step
      <4>2. Becomes(p, r)
        BY <3>2, <4>1 DEF Becomes, DataOK, TaskRecord
      <4>. HIDE DEF r
      <4>. QED  BY <1>4, <3>2, <4>1, <4>2
    <3>. QED  BY <1>1, <1>4, <3>1, <3>2 DEF AfterPut
  <2>3. Shaped(r)
    BY <2>2 DEF Shaped
  <2>4. ASSUME NEW d, d[FileAt(p)] = x
        PROVE  InHand(p, r, d)
    <3>1. CASE r.pc = "idle"
      BY <2>2, <3>1 DEF InHand
    <3>2. CASE r.pc = "call"
      <4>1. x.topic = t /\ Exists(x)
        BY <1>1, <2>1, <2>2, <3>2, TopicStoreAssumption DEF Exists
      <4>. QED  BY <2>2, <2>4, <3>2, <4>1 DEF InHand, FileAt
    <3>. QED  BY <2>2, <3>1, <3>2
  <2>5. /\ Current'
        /\ Memory' = [Memory EXCEPT ![t] = [facts |-> x.facts, summarised |-> x.summarised]]
        /\ Calls[p] = Said(task[p]) /\ Calls' = [Calls EXCEPT ![p] = Said(r)]
    BY <1>2, <2>2, <2>3, <2>4
  <2>6. Calls[p] = [op |-> task[p].op, topic |-> t, done |-> FALSE]
    <3>1. Done(task[p]) = FALSE
      BY <1>1, <1>4 DEF Done
    <3>. QED  BY <1>1, <2>1, <2>5, <3>1 DEF Said
  <2>7. Memory[t].facts = old.facts
    BY <1>1 DEF Memory, FileAt
  <2>8. [facts |-> x.facts, summarised |-> x.summarised] = Promise!Changed(p)
    <3>1. CASE task[p].op = "create"
      <4>1. x.facts = {p} /\ x.summarised = FALSE
        BY <1>1, <2>1, <3>1 DEF Writes, Entry
      <4>2. Calls[p].op = "create" /\ Calls[p].topic = t
        BY <2>6, <3>1
      <4>3. Promise!Changed(p) = [facts |-> {p}, summarised |-> FALSE]
        BY <4>2, Zenon DEF Promise!Changed, Calls
      <4>. QED  BY <4>1, <4>3
    <3>2. CASE task[p].op = "append"
      <4>1. x.facts = Memory[t].facts \cup {p} /\ x.summarised = FALSE
        BY <1>1, <2>1, <2>7, <3>2 DEF Writes, Entry
      <4>2. Calls[p].op = "append" /\ Calls[p].topic = t
        BY <2>6, <3>2
      <4>3. Promise!Changed(p) = [facts |-> Memory[t].facts \cup {p}, summarised |-> FALSE]
        BY <4>2, Zenon DEF Promise!Changed, Calls
      <4>. QED  BY <4>1, <4>3
    <3>3. CASE task[p].op = "delete"
      <4>1. x.facts = {} /\ x.summarised = FALSE
        BY <2>1, <3>3 DEF Writes, NoEntry
      <4>2. Calls[p].op = "delete" /\ Calls[p].topic = t
        BY <2>6, <3>3
      <4>3. Promise!Changed(p) = Promise!Nothing
        BY <4>2, Zenon DEF Promise!Changed, Calls
      <4>. QED  BY <4>1, <4>3 DEF Promise!Nothing
    <3>. QED  BY <2>1, <3>1, <3>2, <3>3
  <2>9. Calls' = [Calls EXCEPT ![p] = IF Calls[p].op = "delete" THEN Promise!NoCall
                                      ELSE [Calls[p] EXCEPT !.done = TRUE]]
    <3>1. CASE task[p].op = "delete"
      <4>1. Said(r) = Promise!NoCall
        BY <2>2, <3>1 DEF Said, Promise!NoCall
      <4>. QED  BY <2>5, <2>6, <3>1, <4>1
    <3>2. CASE task[p].op \in {"create", "append"}
      <4>1. Done(r) = TRUE
        BY <2>2, <3>2 DEF Done
      <4>2. Said(r) = [op |-> task[p].op, topic |-> t, done |-> TRUE]
        BY <2>2, <3>2, <4>1 DEF Said
      <4>3. [Calls[p] EXCEPT !.done = TRUE] = Said(r)
        <5>1. [Calls[p] EXCEPT !.done = TRUE] = [op |-> task[p].op, topic |-> t, done |-> TRUE]
          <6>1. PICK c : c = Calls[p]
            OBVIOUS
          <6>2. PICK o, u : o = task[p].op /\ u = t
            OBVIOUS
          <6>3. c = [op |-> o, topic |-> u, done |-> FALSE]
            BY <2>6, <6>1, <6>2
          <6>4. [c EXCEPT !.done = TRUE] = [op |-> o, topic |-> u, done |-> TRUE]
            BY <6>3, DoneRecord, Zenon
          <6>. QED  BY <6>1, <6>2, <6>4, Zenon
        <5>. QED  BY <4>2, <5>1, Zenon
      <4>4. Calls[p].op # "delete"
        BY <2>6, <3>2
      <4>. QED  BY <2>5, <4>3, <4>4, Zenon
    <3>. QED  BY <2>1, <3>1, <3>2
  <2>10. Promise!TakeEffect(p)
    <3>1. /\ Calls[p].op \in {"create", "append", "delete"} /\ ~Calls[p].done
          /\ Calls[p].topic = t
      BY <2>1, <2>6
    <3>. QED  BY <2>5, <2>8, <2>9, <3>1 DEF Promise!TakeEffect, Calls
  <2>. QED  BY <2>5, <2>10 DEF Simulated, Promise!Next
<1>. QED  BY <1>1, <1>3, <1>4 DEF AfterPut, Shaped

\* Every step, that of any task and that of none, is one of TopicMap or does nothing to it.
LEMMA StepSimulated ==
  ASSUME OneReliableStore, MutualExclusion, Places, DataOK, Current, [Next]_storeVars
  PROVE  Current' /\ Simulated
<1>1. ASSUME UNCHANGED <<layout, disk, task>>
      PROVE  Current' /\ Simulated
  BY <1>1 DEF Current, Shaped, InHand, Writes, WholeEntry, WholeFile, Exists, Simulated, Memory,
             Calls, Call
<1>2. CASE UNCHANGED storeVars
  BY <1>1, <1>2 DEF storeVars
<1>3. ASSUME NEW p \in Proc, NEW op \in Operation, NEW t \in Topic, Begin(p, op, t)
      PROVE  Current' /\ Simulated
  BY <1>3, BeginSimulated
<1>4. ASSUME NEW p \in Proc, Progress(p)
      PROVE  Current' /\ Simulated
  <2>1. UNCHANGED layout
    BY <1>4 DEF Progress
  <2>2. ~WriteRaises(p) /\ ~RemoteFails(p)
    BY DEF OneReliableStore, WriteRaises, RemoteFails
  <2>3. CASE Wake(p)
    BY <1>1, <2>1, <2>3 DEF Wake
  <2>. QED  BY <1>4, <2>1, <2>2, <2>3, ReadSimulated, LoadSimulated, CallbackSimulated,
             ScanSimulated, PutSimulated DEF Progress
<1>. QED  BY <1>2, <1>3, <1>4 DEF Next

\* What a task has in hand stays what its file says.
LEMMA StaysCurrent ==
  ASSUME OneReliableStore
  PROVE  Spec => []Current
<1>1. Init => Current
  <2>. SUFFICES ASSUME Init
                PROVE  Current
    OBVIOUS
  <2>. QED  BY NoTaskOK DEF Init, Current, Shaped, InHand, WholeEntry, Exists, EmptyDisk,
                           NoEntry, NoTask
<1>2. MutualExclusion /\ Places /\ DataOK /\ Current /\ [Next]_storeVars => Current'
  BY StepSimulated
<1>3. Spec => [](MutualExclusion /\ InUseIsCached)
  BY StoreExcludes DEF OneReliableStore
<1>. QED  BY <1>1, <1>2, <1>3, StorePlaces, StoreTyped, PTL DEF Spec

(***************************************************************************)
(* Linearizability, for any number of tasks and topics and every layout:    *)
(* each create, append and delete takes effect once and as a whole on the   *)
(* current content of its topic before it returns, and a summary replaces   *)
(* the text it was made from.  It is stated for one instance of the store   *)
(* whose cache has room for every key and whose I/O does not fail.          *)
(***************************************************************************)
THEOREM StoreImplementsTopicMap ==
  ASSUME OneReliableStore
  PROVE  Spec => OperationsAreAtomic
<1>1. Init => Promise!Init
  <2>. SUFFICES ASSUME Init
                PROVE  Promise!Init
    OBVIOUS
  <2>1. Memory = [t \in Topic |-> Promise!Nothing]
    <3>1. \A t \in Topic : disk[FileOf[t]] = NoEntry
      BY TopicStoreAssumption DEF Init, EmptyDisk
    <3>2. NoEntry.facts = {} /\ NoEntry.summarised = FALSE
      BY DEF NoEntry
    <3>. QED  BY <3>1, <3>2 DEF Memory, Promise!Nothing
  <2>2. \A p \in Proc : Call(p) = Promise!NoCall
    BY DEF Init, NoTask, Call, Promise!NoCall
  <2>. QED  BY <2>1, <2>2 DEF Promise!Init
<1>2. MutualExclusion /\ Places /\ DataOK /\ Current /\ [Next]_storeVars
      => [Promise!Next]_<<Memory, [p \in Proc |-> Call(p)]>>
  BY StepSimulated DEF Simulated, Calls
<1>3. Spec => [](MutualExclusion /\ InUseIsCached)
  BY StoreExcludes DEF OneReliableStore
<1>. QED  BY <1>1, <1>2, <1>3, StorePlaces, StoreTyped, StaysCurrent, PTL
       DEF Spec, OperationsAreAtomic, Promise!Spec

-------------------------------------------------------------------------------
(***************************************************************************)
(* What the JSON store is about to write: the file as it is, or nothing of  *)
(* it, if it could not be read.                                             *)
(***************************************************************************)
OneStore == AmpleCache /\ \A p, q \in Proc : StoreOf[p] = StoreOf[q]

Fresh(r, d) == r.snap = d \/ ("read" \in Faults /\ r.snap = EmptyDisk)

LoadsAreFresh == \A p \in Proc : WholeFile /\ task[p].pc = "put" => Fresh(task[p], disk)

\* A task gets to a JSON write with what it has just loaded only.
GoesFresh(p) ==
  \E r : /\ task' = [task EXCEPT ![p] = r]
         /\ r.pc = "put" => UNCHANGED disk /\ Fresh(r, disk)

\* A task that goes to another step than the write.
LEMMA GoesElsewhere ==
  ASSUME NEW p \in Proc, NEW r, task' = [task EXCEPT ![p] = r], r.pc # "put"
  PROVE  GoesFresh(p)
BY DEF GoesFresh

\* The return of an operation, and the next hit.
LEMMA RestGoesFresh ==
  ASSUME NEW p \in Proc,
         End(p) \/ (\E hits : NextHit(p, hits)) \/ AfterAccess(p) \/ (\E found : EndScan(p, found))
  PROVE  GoesFresh(p)
<1>1. CASE End(p)
  <2>1. NoTask.pc # "put" /\ task' = [task EXCEPT ![p] = NoTask]
    BY <1>1 DEF End, NoTask
  <2>. QED  BY <2>1, GoesElsewhere
<1>2. ASSUME NEW hits, NextHit(p, hits)
      PROVE  GoesFresh(p)
  <2>1. ASSUME NEW t \in hits,
               task' = [task EXCEPT ![p] =
                 [NoTask EXCEPT !.op = "search", !.topic = t, !.pc = "read", !.todo = hits \ {t}]]
        PROVE  GoesFresh(p)
    <3>. DEFINE r == [NoTask EXCEPT !.op = "search", !.topic = t, !.pc = "read",
                                    !.todo = hits \ {t}]
    <3>1. r.pc # "put"
      BY DEF NoTask
    <3>. HIDE DEF r
    <3>2. task' = [task EXCEPT ![p] = r]
      BY <2>1 DEF r
    <3>. QED  BY <3>1, <3>2, GoesElsewhere
  <2>. QED  BY <1>1, <1>2, <2>1 DEF NextHit
<1>. QED  BY <1>1, <1>2 DEF AfterAccess, EndScan

\* Whatever a task of the JSON store does next, it writes only what it has just
\* loaded, and is not about to write once it has written.
LEMMA JsonStep ==
  ASSUME DataOK, WholeFile, [Next]_storeVars
  PROVE  /\ WholeFile'
         /\ UNCHANGED <<disk, task>> \/ \E p \in Proc : GoesFresh(p)
         /\ UNCHANGED disk \/ \E p \in Proc : At(p, "put") /\ disk' = NewDisk(p) /\ GoesFresh(p)
<1>. DEFINE Goal == /\ UNCHANGED <<disk, task>> \/ \E p \in Proc : GoesFresh(p)
                    /\ \/ UNCHANGED disk
                       \/ \E p \in Proc : At(p, "put") /\ disk' = NewDisk(p) /\ GoesFresh(p)
<1>1. layout = "json" /\ UNCHANGED layout
  BY DEF WholeFile, Next, Begin, Progress, storeVars
<1>2. CASE UNCHANGED storeVars
  BY <1>2 DEF storeVars, WholeFile
<1>3. ASSUME NEW p \in Proc, NEW op \in Operation, NEW t \in Topic, Begin(p, op, t)
      PROVE  GoesFresh(p) /\ UNCHANGED disk
  <2>. DEFINE r == [NoTask EXCEPT !.op = op,
                                  !.topic = IF op \in {"search", "list"} THEN NoTopic ELSE t,
                                  !.pc = FirstStep(op), !.entry = FirstEntry(p, op, t)]
  <2>1. r.pc = FirstStep(op) /\ FirstStep(op) # "put"
    BY <1>1 DEF NoTask, FirstStep, WriteStep, Operation
  <2>2. task' = [task EXCEPT ![p] = r] /\ UNCHANGED disk
    BY <1>3 DEF Begin
  <2>. HIDE DEF r
  <2>. QED  BY <2>1, <2>2, GoesElsewhere
<1>4. ASSUME NEW p \in Proc, ReadTopic(p) \/ Callback(p) \/ AfterPut(p)
      PROVE  GoesFresh(p)
  <2>1. task[p] \in TaskRecord /\ WriteStep = "load"
    BY <1>1 DEF DataOK, WriteStep
  <2>2. CASE End(p) \/ AfterAccess(p)
    BY <2>2, RestGoesFresh
  <2>3. ASSUME NEW x, NEW pc \in {"load", "call"},
               task' = [task EXCEPT ![p].entry = x, ![p].pc = pc]
        PROVE  GoesFresh(p)
    <3>. DEFINE r == [task[p] EXCEPT !.entry = x, !.pc = pc]
    <3>1. task' = [task EXCEPT ![p] = r] /\ r.pc = pc
      BY <2>1, <2>3 DEF DataOK, TaskRecord
    <3>. HIDE DEF r
    <3>. QED  BY <3>1, GoesElsewhere
  <2>4. ASSUME task' = [task EXCEPT ![p].entry = Summary(@), ![p].rewriting = TRUE,
                                    ![p].pc = WriteStep]
        PROVE  GoesFresh(p)
    <3>. DEFINE r == [task[p] EXCEPT !.entry = Summary(@), !.rewriting = TRUE, !.pc = WriteStep]
    <3>1. task' = [task EXCEPT ![p] = r] /\ r.pc = "load"
      BY <2>1, <2>4 DEF DataOK, TaskRecord
    <3>. HIDE DEF r
    <3>. QED  BY <3>1, GoesElsewhere
  <2>5. ASSUME task' = [task EXCEPT ![p].pc = "call", ![p].snap = EmptyDisk]
        PROVE  GoesFresh(p)
    <3>. DEFINE r == [task[p] EXCEPT !.pc = "call", !.snap = EmptyDisk]
    <3>1. task' = [task EXCEPT ![p] = r] /\ r.pc = "call"
      BY <2>1, <2>5 DEF DataOK, TaskRecord
    <3>. HIDE DEF r
    <3>. QED  BY <3>1, GoesElsewhere
  <2>6. CASE ReadTopic(p)
    BY <2>1, <2>2, <2>3, <2>6 DEF ReadTopic
  <2>7. CASE Callback(p)
    BY <2>2, <2>4, <2>7 DEF Callback
  <2>8. CASE AfterPut(p)
    BY <2>2, <2>5, <2>8 DEF AfterPut
  <2>. QED  BY <1>4, <2>6, <2>7, <2>8
<1>5. ASSUME NEW p \in Proc, LoadFile(p)
      PROVE  GoesFresh(p) /\ UNCHANGED disk
  <2>1. UNCHANGED disk
    BY <1>5 DEF LoadFile
  <2>2. ASSUME NEW x \in {disk} \cup IF "read" \in Faults THEN {EmptyDisk} ELSE {},
               task' = [task EXCEPT ![p].snap = x, ![p].pc = "put"]
        PROVE  GoesFresh(p)
    <3>. DEFINE r == [task[p] EXCEPT !.snap = x, !.pc = "put"]
    <3>1. task' = [task EXCEPT ![p] = r] /\ r.snap = x
      BY <2>2 DEF DataOK, TaskRecord
    <3>. HIDE DEF r
    <3>2. Fresh(r, disk)
      BY <2>2, <3>1 DEF Fresh
    <3>. QED  BY <2>1, <3>1, <3>2 DEF GoesFresh
  <2>. QED  BY <1>5, <2>1, <2>2, RestGoesFresh DEF LoadFile, Loaded
<1>6. ASSUME NEW p \in Proc, ScanWhole(p) \/ FetchNamespace(p) \/ Glob(p)
      PROVE  GoesFresh(p) /\ UNCHANGED disk
  BY <1>1, <1>6, RestGoesFresh DEF ScanWhole, FetchNamespace, Glob
<1>7. ASSUME NEW p \in Proc, ScanFile(p)
      PROVE  GoesFresh(p) /\ UNCHANGED disk
  <2>1. task[p].pc = "files" /\ task[p] \in TaskRecord /\ UNCHANGED disk
    BY <1>7 DEF ScanFile, At, DataOK
  <2>2. ASSUME NEW f, NEW e,
               task' = [task EXCEPT ![p].todo =
                 (@ \ {f}) \cup IF Exists(e) THEN {e.topic} ELSE {}]
        PROVE  GoesFresh(p)
    <3>. DEFINE found == (task[p].todo \ {f}) \cup IF Exists(e) THEN {e.topic} ELSE {}
                r == [task[p] EXCEPT !.todo = found]
    <3>1. task' = [task EXCEPT ![p] = r]
      BY <2>2 DEF DataOK
    <3>2. r.pc = "files"
      BY <2>1 DEF TaskRecord
    <3>. HIDE DEF r
    <3>. QED  BY <3>1, <3>2, GoesElsewhere
  <2>. QED  BY <1>7, <2>1, <2>2, RestGoesFresh DEF ScanFile
<1>8. ASSUME NEW p \in Proc, Put(p)
      PROVE  /\ GoesFresh(p)
             /\ UNCHANGED disk \/ (At(p, "put") /\ disk' = NewDisk(p))
  BY <1>4, <1>8 DEF Put
<1>9. ASSUME NEW p \in Proc, WriteRaises(p)
      PROVE  GoesFresh(p) /\ UNCHANGED disk
  BY <1>9, RestGoesFresh DEF WriteRaises
<1>10. ASSUME NEW p \in Proc, Progress(p)
       PROVE  Goal
  <2>1. ~Upsert(p) /\ ~RemoteFails(p)
    BY <1>1 DEF Upsert, RemoteFails
  <2>2. Wake(p) => UNCHANGED <<disk, task>>
    BY DEF Wake
  <2>3. ReadTopic(p) \/ Callback(p) => UNCHANGED disk
    BY DEF ReadTopic, Callback
  <2>. QED  BY <1>4, <1>5, <1>6, <1>7, <1>8, <1>9, <1>10, <2>1, <2>2, <2>3 DEF Progress
<1>11. Goal
  BY <1>2, <1>3, <1>10 DEF Next
<1>. QED  BY <1>1, <1>11 DEF WholeFile

\* Only the task that has the file's lock is about to write it.
LEMMA StepKeepsFresh ==
  ASSUME OneStore, MutualExclusion, Places, DataOK, LoadsAreFresh, [Next]_storeVars
  PROVE  LoadsAreFresh'
<1>1. UNCHANGED layout
  BY DEF Next, Begin, Progress, storeVars
<1>2. CASE ~WholeFile
  BY <1>1, <1>2 DEF LoadsAreFresh, WholeFile
<1>3. CASE WholeFile
  <2>1. ASSUME NEW p \in Proc, NEW q \in Proc, At(p, "put"), task[q].pc = "put"
        PROVE  p = q
    <3>1. Holds(p) /\ Holds(q) /\ task[p].pc = "put"
      BY <1>3, <2>1 DEF At, Places, InPlace, NeedsLock, WholeFile
    <3>2. PICK l \in Lock, m \in Lock : holder[l] = p /\ holder[m] = q
      BY <3>1 DEF Holds
    <3>3. l[1] = KeyOf(p, task[p]) /\ m[1] = KeyOf(q, task[q])
      BY <3>2 DEF Places, InPlace
    <3>4. l[1] = m[1]
      BY <1>3, <2>1, <3>1, <3>3 DEF OneStore, KeyOf, LockKey, ListLockKey
    <3>. QED  BY <3>2, <3>4, NoProcAssumption DEF MutualExclusion, Locked
  <2>2. ASSUME NEW q \in Proc, task'[q].pc = "put"
        PROVE  Fresh(task'[q], disk')
    <3>1. CASE UNCHANGED <<disk, task>>
      BY <1>3, <2>2, <3>1 DEF LoadsAreFresh, Fresh
    <3>2. ASSUME NEW p \in Proc, GoesFresh(p), UNCHANGED disk
          PROVE  Fresh(task'[q], disk')
      <4>1. PICK r : /\ task' = [task EXCEPT ![p] = r]
                     /\ r.pc = "put" => Fresh(r, disk)
        BY <3>2 DEF GoesFresh
      <4>2. CASE q # p
        BY <1>3, <2>2, <3>2, <4>1, <4>2 DEF LoadsAreFresh, Fresh, DataOK
      <4>3. CASE q = p
        BY <1>3, <2>2, <3>2, <4>1, <4>3 DEF LoadsAreFresh, Fresh, DataOK
      <4>. QED  BY <4>2, <4>3
    <3>3. ASSUME NEW p \in Proc, At(p, "put"), GoesFresh(p), disk' # disk
          PROVE  Fresh(task'[q], disk')
      <4>1. PICK r : task' = [task EXCEPT ![p] = r] /\ r.pc # "put"
        BY <3>3 DEF GoesFresh
      <4>2. q # p /\ task[q].pc = "put"
        BY <2>2, <4>1 DEF DataOK
      <4>. QED  BY <2>1, <3>3, <4>2
    <3>. QED  BY <1>3, <3>1, <3>2, <3>3, JsonStep
  <2>. QED  BY <2>2 DEF LoadsAreFresh, Fresh
<1>. QED  BY <1>2, <1>3

(***************************************************************************)
(* A step changes what is remembered about the topic of a task that writes. *)
(* The layouts with a file or an entry per topic never change any other,    *)
(* whatever fails, for any number of instances and however small the lock   *)
(* cache.  JSON, with one instance whose cache has room for every key, does *)
(* so only when the load before the write failed, and whatever else fails.  *)
(***************************************************************************)
THEOREM WritesAreConfined ==
  ASSUME OwnFiles, "json" \notin Layouts \/ OneStore
  PROVE  Spec => OthersGoByReadErrorOnly
<1>. DEFINE Ready == StoreTypeOK /\ DataOK /\ LoadsAreFresh
            Confined == \A t \in Topic :
                          Memory'[t] # Memory[t] =>
                            \E p \in Proc :
                              At(p, "put") /\ (task[p].topic = t \/ LoadedNothing(p))
<1>1. ASSUME Ready, [Next]_storeVars
      PROVE  Confined
  <2>1. CASE UNCHANGED disk
    BY <2>1 DEF Memory
  <2>2. ASSUME NEW p \in Proc, At(p, "put"), disk' = NewDisk(p)
        PROVE  Confined
    <3>1. /\ task[p] \in TaskRecord /\ task[p].pc = "put" /\ task[p].topic \in Topic
          /\ FileAt(p) \in File
      BY <1>1, <2>2, TopicStoreAssumption DEF At, DataOK, TaskOK, FileAt
    <3>2. CASE LoadedNothing(p)
      BY <2>2, <3>2
    <3>3. CASE ~LoadedNothing(p)
      <4>1. WholeFile => task[p].snap = disk
        BY <1>1, <3>1, <3>3 DEF LoadsAreFresh, Fresh, LoadedNothing
      <4>2. \A f \in File : f # FileAt(p) => disk'[f] = disk[f]
        BY <1>1, <2>2, <3>1, <4>1 DEF NewDisk, DataOK
      <4>3. \A t \in Topic : t # task[p].topic => disk'[FileOf[t]] = disk[FileOf[t]]
        BY <3>1, <4>2, TopicStoreAssumption DEF OwnFiles, FileAt
      <4>. QED  BY <2>2, <4>3 DEF Memory
    <3>. QED  BY <3>2, <3>3
  <2>3. UNCHANGED disk \/ \E p \in Proc : At(p, "put") /\ disk' = NewDisk(p)
    BY <1>1 DEF Next, Progress, Begin, Wake, ReadTopic, LoadFile, Put, WriteRaises, Upsert,
               RemoteFails, Callback, ScanWhole, FetchNamespace, Glob, ScanFile, storeVars
  <2>. QED  BY <2>1, <2>2, <2>3
<1>2. Ready /\ [Next]_storeVars
      => [\A t \in Topic :
            Memory'[t] # Memory[t] =>
              \E p \in Proc : At(p, "put") /\ (task[p].topic = t \/ LoadedNothing(p))]_storeVars
  BY <1>1
<1>3. Spec => []LoadsAreFresh
  <2>1. Init => LoadsAreFresh
    BY DEF Init, LoadsAreFresh, NoTask
  <2>2. CASE OneStore
    <3>1. MutualExclusion /\ Places /\ DataOK /\ LoadsAreFresh /\ [Next]_storeVars
          => LoadsAreFresh'
      BY <2>2, StepKeepsFresh
    <3>2. Spec => [](MutualExclusion /\ InUseIsCached)
      BY <2>2, StoreExcludes DEF OneStore
    <3>. QED  BY <2>1, <3>1, <3>2, StorePlaces, StoreTyped, PTL DEF Spec
  <2>3. CASE "json" \notin Layouts
    <3>1. StoreTypeOK => LoadsAreFresh
      BY <2>3 DEF StoreTypeOK, LoadsAreFresh, WholeFile
    <3>. QED  BY <3>1, StoreTypes, PTL
  <2>. QED  BY <2>2, <2>3
<1>4. StoreTypeOK /\ DataOK /\ LoadsAreFresh => Ready
  OBVIOUS
<1>. HIDE DEF Ready
<1>. QED  BY <1>2, <1>3, <1>4, StoreTypes, StoreTyped, PTL DEF Spec, OthersGoByReadErrorOnly
=============================================================================
