------------------------------ MODULE TopicLocks ------------------------------
(***************************************************************************)
(* The per-key lock cache of TopicStore (topic_store.py): an LRU dictionary *)
(* of asyncio.Lock objects, at most MaxLocks of them, from which a cold     *)
(* lock is evicted when a new key comes in.                                 *)
(*                                                                         *)
(* Everything _lock_for does happens between two awaits, and acquiring an   *)
(* uncontended asyncio.Lock does not suspend, so "look the lock up and      *)
(* acquire it or join its queue" is one step.  A contended acquire suspends *)
(* the task until the lock is released and the event loop resumes it: that  *)
(* is the step Resume.                                                      *)
(***************************************************************************)
EXTENDS Naturals, FiniteSets, SequencesExt

CONSTANTS
  Key,         \* the lock keys, what _lock_key and _list_lock_key return
  Proc,        \* the tasks that call the store
  MaxLocks,    \* TopicStore._MAX_LOCKS
  Generation,  \* tells apart the lock objects created over time for one key
  NoProc       \* "nobody holds it"

ASSUME MaxLocksAssumption == MaxLocks \in Nat \ {0}
ASSUME NoProcAssumption == NoProc \notin Proc

(***************************************************************************)
(* A lock object is a key and a generation.  An object nobody references    *)
(* any more is garbage and its generation is used again.                    *)
(***************************************************************************)
Lock == Key \X Generation

VARIABLES
  cache,    \* TopicStore._locks: a sequence of locks, least recently used first
  holder,   \* the task that holds each lock, or NoProc
  waiters   \* the tasks queued on each lock, oldest first

lockVars == <<cache, holder, waiters>>

LocksTypeOK ==
  /\ cache \in Seq(Lock)
  /\ holder \in [Lock -> Proc \cup {NoProc}]
  /\ waiters \in [Lock -> Seq(Proc)]

(***************************************************************************)
(* asyncio.Lock.locked() is FALSE from the moment a lock is released, even  *)
(* when a task is queued on it and has yet to be resumed.                   *)
(***************************************************************************)
Locked(h, l) == h[l] # NoProc

InUse(h, l) == Locked(h, l) \/ waiters[l] # <<>>

Holds(p) == \E l \in Lock : holder[l] = p

Queued(p) == \E l \in Lock : p \in ToSet(waiters[l])

(***************************************************************************)
(* _evict_cold_locks: drop the coldest unlocked entries until the cache is  *)
(* back at MaxLocks.  A new key takes it at most one over.                  *)
(***************************************************************************)
Coldest(c, h, i) ==
  /\ i \in 1..Len(c)
  /\ ~Locked(h, c[i])
  /\ \A j \in 1..(i - 1) : Locked(h, c[j])

(***************************************************************************)
(* Mutants: the cache is trimmed one lock early; the lock that was just     *)
(* created is never the one evicted.                                        *)
(***************************************************************************)
EvictColdEarly(c, h) ==
  IF Len(c) < MaxLocks \/ \A i \in 1..Len(c) : Locked(h, c[i]) THEN c
  ELSE RemoveAt(c, CHOOSE i \in 1..Len(c) : Coldest(c, h, i))

EvictOthersOnly(c, h) ==
  IF Len(c) <= MaxLocks \/ \A i \in 1..(Len(c) - 1) : Locked(h, c[i]) THEN c
  ELSE RemoveAt(c, CHOOSE i \in 1..Len(c) : Coldest(c, h, i))

EvictCold(c, h) ==
  IF Len(c) <= MaxLocks THEN c
  ELSE RemoveAt(c, CHOOSE i \in 1..Len(c) : Coldest(c, h, i))

(***************************************************************************)
(* The lock object _lock_for creates for k when the cache has none.         *)
(***************************************************************************)
IsNewLock(k, l, h) ==
  /\ ~InUse(h, l)
  /\ l = <<k, CHOOSE g \in Generation : ~InUse(h, <<k, g>>)>>

(***************************************************************************)
(* _lock_for(k) returns l: a hit becomes the most recently used, a miss     *)
(* inserts a new lock and trims the cache.                                  *)
(***************************************************************************)
LockFor(k, l, h) ==
  \/ \E i \in 1..Len(cache) :
       /\ cache[i] = l
       /\ l[1] = k
       /\ cache' = Append(RemoveAt(cache, i), l)
  \/ /\ \A i \in 1..Len(cache) : cache[i][1] # k
     /\ IsNewLock(k, l, h)
     /\ cache' = EvictCold(Append(cache, l), h)

(***************************************************************************)
(* async with await self._lock_for(k), up to the first suspension.  h is    *)
(* the state of the locks once the caller has released what it held.        *)
(***************************************************************************)
EnterFrom(p, k, h) ==
  \E l \in Lock :
    /\ LockFor(k, l, h)
    /\ IF InUse(h, l)
       THEN /\ waiters' = [waiters EXCEPT ![l] = Append(@, p)]
            /\ holder' = h
       ELSE /\ holder' = [h EXCEPT ![l] = p]
            /\ UNCHANGED waiters

Enter(p, k) == EnterFrom(p, k, holder)

(***************************************************************************)
(* The lock was released and the task at the head of its queue runs again:  *)
(* it leaves the queue and takes the lock.                                  *)
(***************************************************************************)
Resume(p) ==
  \E l \in Lock :
    /\ ~Locked(holder, l)
    /\ waiters[l] # <<>>
    /\ Head(waiters[l]) = p
    /\ holder' = [holder EXCEPT ![l] = p]
    /\ waiters' = [waiters EXCEPT ![l] = Tail(@)]
    /\ UNCHANGED cache

(***************************************************************************)
(* Leaving the async with block.                                            *)
(***************************************************************************)
Leave(p) ==
  \E l \in Lock :
    /\ holder[l] = p
    /\ holder' = [holder EXCEPT ![l] = NoProc]
    /\ UNCHANGED <<cache, waiters>>

(***************************************************************************)
(* Mutant: the next block is entered inside the current one.                *)
(***************************************************************************)
EnterInside(p, k) == Holds(p) /\ Enter(p, k)

(***************************************************************************)
(* Leaving one block and entering the next with no await in between, as     *)
(* search_topics does from one topic to the next.                           *)
(***************************************************************************)
LeaveEnter(p, k) ==
  \E l \in Lock :
    /\ holder[l] = p
    /\ EnterFrom(p, k, [holder EXCEPT ![l] = NoProc])

LocksInit ==
  /\ cache = <<>>
  /\ holder = [l \in Lock |-> NoProc]
  /\ waiters = [l \in Lock |-> <<>>]

LocksStep(p) ==
  \/ \E k \in Key : ~Holds(p) /\ ~Queued(p) /\ Enter(p, k)
  \/ Resume(p)
  \/ Leave(p)
  \/ \E k \in Key : LeaveEnter(p, k)

LocksNext == \E p \in Proc : LocksStep(p)

LocksSpec == LocksInit /\ [][LocksNext]_lockVars

-------------------------------------------------------------------------------
(***************************************************************************)
(* Two tasks are never inside the blocks guarded by the same key: the       *)
(* module's "guarded by a per-key lock", which every read-modify-write of   *)
(* the store relies on.                                                     *)
(***************************************************************************)
MutualExclusion ==
  \A l, m \in Lock :
    Locked(holder, l) /\ Locked(holder, m) /\ l[1] = m[1] => l = m

(***************************************************************************)
(* A lock some task holds or waits for is still the one _lock_for returns   *)
(* for its key.                                                             *)
(***************************************************************************)
InUseIsCached ==
  \A l \in Lock : InUse(holder, l) => \E i \in 1..Len(cache) : cache[i] = l

(***************************************************************************)
(* The cache never outgrows MaxLocks, even when every cached lock is held   *)
(* at the time a new key arrives (_evict_cold_locks skips the held ones).   *)
(***************************************************************************)
CacheBounded == Len(cache) <= MaxLocks
===============================================================================
