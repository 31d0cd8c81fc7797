------------------------ MODULE StorageLimitProofs -------------------------
(***************************************************************************)
(* However insertions, evictions and sweeps overlap, the store is back     *)
(* within --max-keys once every call has returned.                         *)
(*                                                                         *)
(* While there are too many keys some thread is watching: it has inserted  *)
(* and is yet to enter enforce_max_keys (Obliged), or is inside it         *)
(* (Enforcing).  The delicate case is a search that finds no victim and    *)
(* gives up: whatever is in the shards it has passed was inserted behind   *)
(* its back, by a thread that still has to take eviction_mutex_.           *)
(***************************************************************************)
EXTENDS StorageCountProofs, StorageLruProofs

USE DEF engine, world, aside, vars

Obliged(f) ==
    \/ f.pc \in {"check", "lock_eviction"}
    \/ f.pc = "work" /\ f.req.op = "mset" /\ f.at > 1

Enforcing(f) == f.pc \in {"loop", "scan", "evict", "report"}

Crowded == drift = 0 /\ MaxKeys # 0 /\ Cardinality(Present) > MaxKeys

\* A search without a victim so far, that has passed a shard with a key in it.
Overtaken(f) ==
    /\ f.pc \in {"scan", "evict"} /\ f.victim = NoKey
    /\ \E k \in Present : shard_index[k] < f.at

EvictionMutexOK == \A t \in Threads : Enforcing(th[t]) => eviction_mutex_ = t

Watched ==
    /\ Crowded => \E t \in Threads : Obliged(th[t]) \/ Enforcing(th[t])
    /\ \A t \in Threads : Crowded /\ Overtaken(th[t]) => \E u \in Threads : Obliged(th[u])

LimitInv == CountInv /\ LruInv /\ EvictionMutexOK /\ Watched

\* What a step of thread t does about a crowded store.
Minds(t) ==
    /\ Crowded' => Obliged(th[t])' \/ (Crowded /\ Present' \subseteq Present)
    /\ Crowded' /\ Obliged(th[t]) => Obliged(th[t])' \/ LockEviction(t)
    /\ Crowded' /\ Enforcing(th[t]) => \/ Enforcing(th[t])'
                                       \/ th[t].pc = "evict" /\ th[t].victim = NoKey
    /\ Overtaken(th[t])' => Overtaken(th[t])

\* Fewer keys and the same drift do not crowd the store.
LEMMA FewerKeys ==
    ASSUME Inv, Present' \subseteq Present, drift' = drift
    PROVE  Crowded' => Crowded
<1>1. IsFiniteSet(Present) /\ Cardinality(Present) \in Nat
  BY DebtFinite
<1>2. IsFiniteSet(Present') /\ Cardinality(Present') <= Cardinality(Present)
  BY <1>1, FS_Subset
<1>3. Cardinality(Present') \in Nat
  BY <1>2, FS_CardinalityType
<1> QED
  BY <1>1, <1>2, <1>3, SizeAssumption DEF Crowded

\* The count read without a lock is high enough: if it is within the limit,
\* so is the store.
LEMMA CountSuffices == ASSUME CountInv, ~OverLimit PROVE ~Crowded
<1> SUFFICES ASSUME drift = 0, MaxKeys # 0 PROVE ~(Cardinality(Present) > MaxKeys)
  BY DEF Crowded
<1>1. Cardinality(Present) \in Nat /\ Cardinality(Debt) \in Nat
  BY DebtFinite DEF CountInv
<1>2. total_keys_ = Cardinality(Present) + Cardinality(Debt)
  BY <1>1 DEF CountInv, KeyCount, FetchSub
<1> QED
  BY <1>1, <1>2, SizeAssumption DEF OverLimit

\* erase leaves fewer keys; store adds at most the one it is given.
LEMMA StoredKeys ==
    ASSUME Inv, NEW k \in Keys
    PROVE  /\ Erase(k) => Present' \subseteq Present
           /\ \A v, e : Store(k, v, e) /\ k \in Present => Present' \subseteq Present
<1>1. Erase(k) => Present' \subseteq Present
  BY DEF Erase, Present, Inv, TypeOK
<1>2. ASSUME NEW v, NEW e, Store(k, v, e), k \in Present PROVE Present' \subseteq Present
  BY <1>2 DEF Store, Present, Inv, TypeOK
<1> QED
  BY <1>1, <1>2

\* An insertion leaves its thread obliged to enforce the limit.
LEMMA KeyedInserts ==
    ASSUME Inv, NEW t \in Threads, Keyed(t)
    PROVE  /\ Present' \subseteq Present \/ Obliged(th[t])'
           /\ Obliged(th[t]) => Obliged(th[t])'
<1>t. th[t] \in Frame /\ CallOK(th[t]) /\ th \in [Threads -> Frame]
  BY DEF Inv, TypeOK, CallsOK
<1>w. th[t].pc = "work" /\ Op(t) \in KeyOps
  BY DEF Keyed, PurgeExpired, Set, Mset, Get, Ttl, Mget, Del, ExpireAt, Persist,
         Increment, AppendTo, Working, KeyOps, SingleKeyOps
<1>k. Key(t) \in Keys
  BY <1>w, KeyTyped
<1>q. UNCHANGED engine => Present' \subseteq Present
  BY DEF Present
<1>u. UnlockAndEnforce(t) => Obliged(th[t])'
  <2> DEFINE f == [th[t] EXCEPT !.pc = "check", !.held = {}]
  <2>1. f.pc = "check"
    BY <1>t DEF Frame
  <2>2. UnlockAndEnforce(t) => th'[t] = f
    BY Moves DEF UnlockAndEnforce
  <2> QED
    BY <2>1, <2>2, Zenon DEF Obliged
<1>o. Obliged(th[t]) => Op(t) = "mset"
  BY <1>w DEF Obliged, Op
<1>1. CASE PurgeExpired(t)
  BY <1>1, <1>k, StoredKeys DEF PurgeExpired, Obliged
<1>2. CASE Set(t)
  BY <1>2, <1>u DEF Set
<1>3. CASE Mset(t)
  <2>1. CASE OnLastKey(t)
    BY <1>3, <1>u, <2>1 DEF Mset
  <2>2. CASE ~OnLastKey(t)
    <3> DEFINE f == [th[t] EXCEPT !.at = @ + 1]
    <3>1. f.pc = "work" /\ f.req = th[t].req /\ f.at = th[t].at + 1
      BY <1>t, <1>w DEF Frame
    <3>2. th'[t] = f
      BY <1>3, <2>2, Moves DEF Mset
    <3>3. th[t].req.op = "mset"
      BY <1>3 DEF Mset, Working, Op
    <3>4. th[t].at \in Nat /\ th[t].at >= 1
      BY <1>t, <1>w DEF CallOK, Frame, Op
    <3> QED
      BY <3>1, <3>2, <3>3, <3>4 DEF Obliged
  <2> QED
    BY <2>1, <2>2
<1>4. CASE Get(t) \/ Ttl(t) \/ Mget(t)
  <2>1. Lookup(t) /\ Op(t) # "mset"
    BY <1>4 DEF Get, Ttl, Mget, Working
  <2>2. Present' \subseteq Present
    BY <1>k, <1>q, <2>1, StoredKeys DEF Lookup, Miss, Lapse, Hit, Live
  <2> QED
    BY <1>o, <2>1, <2>2
<1>5. CASE Del(t) \/ ExpireAt(t) \/ Persist(t)
  <2>1. Op(t) # "mset"
    BY <1>5 DEF Del, ExpireAt, Persist, Working
  <2>2. Present' \subseteq Present
    BY <1>5, <1>k, <1>q, StoredKeys DEF Del, ExpireAt, Persist, Miss, Lapse, Live
  <2> QED
    BY <1>o, <2>1, <2>2
<1>6. CASE Increment(t) \/ AppendTo(t)
  <2>1. Op(t) # "mset"
    BY <1>6 DEF Increment, AppendTo, Working
  <2>2. Present' \subseteq Present \/ UnlockAndEnforce(t)
    BY <1>6, <1>k, <1>q, StoredKeys DEF Increment, AppendTo, LeaveUpdate
  <2> QED
    BY <1>o, <1>u, <2>1, <2>2
<1> QED
  BY <1>1, <1>2, <1>3, <1>4, <1>5, <1>6 DEF Keyed

\* So a keyed call minds the limit.
LEMMA KeyedMinds == ASSUME LimitInv, NEW t \in Threads, Keyed(t) PROVE Minds(t)
<1>1. Inv /\ th[t].pc = "work"
  BY DEF LimitInv, CountInv, Keyed, PurgeExpired, Set, Mset, Get, Ttl, Mget, Del, ExpireAt,
         Persist, Increment, AppendTo, Working
<1>2. /\ Present' \subseteq Present \/ Obliged(th[t])'
      /\ Obliged(th[t]) => Obliged(th[t])'
      /\ drift' = drift /\ Leaves(t)
  BY <1>1, KeyedInserts, KeyedStep
<1>3. th'[t].pc \in {"idle", "acquire", "work", "check"}
  BY <1>1, <1>2, Moves DEF Leaves
<1>4. ~Overtaken(th[t])'
  BY <1>3 DEF Overtaken
<1> QED
  BY <1>1, <1>2, <1>4, FewerKeys DEF Minds, Enforcing

\* Only enforce_max_keys leads into its loop or touches eviction_mutex_.
LEMMA OutsideLoop ==
    ASSUME Inv, NEW t \in Threads,
           \/ \E r \in Requests : Call(t, r)
           \/ Acquire(t) \/ SnapshotShard(t) \/ SnapshotThrows(t) \/ Flush(t)
           \/ SweepShard(t) \/ SweepSettle(t) \/ TakeEvictedKeys(t) \/ Keyed(t)
    PROVE  ~Enforcing(th[t])' /\ eviction_mutex_' = eviction_mutex_
<1>1. th[t] \in Frame /\ th \in [Threads -> Frame]
  BY DEF Inv, TypeOK
<1>2. Return(t) => th'[t].pc = "idle"
  BY <1>1 DEF Return, Become, Idle
<1>3. ASSUME NEW r \in Requests, Call(t, r)
      PROVE  th'[t].pc = FirstPc(r.op) /\ eviction_mutex_' = eviction_mutex_
  BY <1>1, <1>3, Zenon DEF Call, Become, Frame
<1>4. CASE Acquire(t)
  <2>1. PICK s : Become(t, [th[t] EXCEPT !.held = @ \cup {s},
                       !.pc = IF LockSet(t) \subseteq th[t].held \cup {s} THEN "work" ELSE "acquire"])
    BY <1>4, Zenon DEF Acquire
  <2>2. th'[t].pc = IF LockSet(t) \subseteq th[t].held \cup {s} THEN "work" ELSE "acquire"
    BY <1>1, <2>1 DEF Become, Frame
  <2>3. eviction_mutex_' = eviction_mutex_
    BY <1>4, Zenon DEF Acquire
  <2> QED
    BY <2>2, <2>3 DEF Enforcing
<1>5. CASE SnapshotShard(t) \/ SnapshotThrows(t)
  BY <1>1, <1>2, <1>5 DEF SnapshotShard, SnapshotThrows, Become, Frame, Working, Enforcing
<1>6. CASE SweepShard(t)
  BY <1>1, <1>6 DEF SweepShard, Become, Frame, Enforcing
<1>7. CASE SweepSettle(t) \/ TakeEvictedKeys(t) \/ Flush(t)
  BY <1>2, <1>7 DEF SweepSettle, TakeEvictedKeys, Flush, Enforcing
<1>8. CASE Keyed(t)
  <2>1. Leaves(t) /\ UNCHANGED aside
    BY <1>8, KeyedStep
  <2>2. th'[t].pc \in {"idle", "acquire", "work", "check"}
    BY <2>1, Moves DEF Leaves
  <2> QED
    BY <2>1, <2>2 DEF Enforcing
<1> QED
  BY <1>3, <1>4, <1>5, <1>6, <1>7, <1>8 DEF FirstPc, Enforcing

\* A step that adds no key, taken by a thread that minds nothing before or
\* after.
LEMMA BystanderMinds ==
    ASSUME Inv, NEW t \in Threads, Present' \subseteq Present, drift' = drift,
           ~Obliged(th[t]), ~Enforcing(th[t]), th'[t].pc \notin {"scan", "evict"}
    PROVE  Minds(t)
<1>1. ~Overtaken(th[t])'
  BY DEF Overtaken
<1> QED
  BY <1>1, FewerKeys DEF Minds

\* Calls, locks, snapshots and sweeps add no key and come before or instead
\* of an insertion.
LEMMA OthersMind ==
    ASSUME LimitInv, NEW t \in Threads,
           \/ \E r \in Requests : Call(t, r)
           \/ Acquire(t) \/ SnapshotShard(t) \/ SnapshotThrows(t)
           \/ SweepShard(t) \/ SweepSettle(t) \/ TakeEvictedKeys(t)
    PROVE  Minds(t)
<1>1. Inv /\ th[t] \in Frame /\ th \in [Threads -> Frame]
  BY DEF LimitInv, CountInv, Inv, TypeOK
<1>2. Present' \subseteq Present /\ drift' = drift
  <2>1. CASE SweepShard(t)
    BY <1>1, <2>1 DEF SweepShard, Present, Inv, TypeOK
  <2>2. CASE ~SweepShard(t)
    BY <2>2, Zenon DEF Call, Acquire, SnapshotShard, SnapshotThrows, SweepSettle, TakeEvictedKeys, Present
  <2> QED
    BY <2>1, <2>2
<1>3. ~Enforcing(th[t]) /\ ~Obliged(th[t])
  BY Zenon DEF Enforcing, Obliged, Call, Acquire, SnapshotShard, SnapshotThrows, SweepShard, SweepSettle,
         TakeEvictedKeys, Working, Op
<1>4. th'[t].pc \notin {"scan", "evict"}
  BY <1>1, OutsideLoop DEF Enforcing
<1> QED
  BY <1>1, <1>2, <1>3, <1>4, BystanderMinds

\* FLUSH leaves nothing to mind.
LEMMA FlushMinds == ASSUME LimitInv, NEW t \in Threads, Flush(t) PROVE Minds(t)
<1>1. Inv /\ th \in [Threads -> Frame]
  BY DEF LimitInv, CountInv, Inv, TypeOK
<1>2. Present' = {} /\ th'[t].pc = "idle"
  BY <1>1 DEF Flush, Present, Empty, Return, Become, Idle
<1>3. Cardinality(Present') = 0
  BY <1>2, FS_EmptySet
<1>4. ~Crowded'
  BY <1>3, SizeAssumption DEF Crowded
<1> QED
  BY <1>2, <1>4 DEF Minds, Overtaken

\* enforce_max_keys is left only with the count within the limit, or after a
\* search that met no key.
LEMMA EnforceMinds == ASSUME LimitInv, NEW t \in Threads, Enforce(t) PROVE Minds(t)
<1>1. /\ Inv /\ CountInv /\ th[t] \in Frame /\ th \in [Threads -> Frame]
      /\ CallOK(th[t]) /\ ScanOK(th[t])
  BY DEF LimitInv, CountInv, LruInv, Inv, TypeOK, CallsOK
<1>2. drift' = drift
  BY Zenon DEF Enforce, EnforceCheck, LockEviction, StartScan, Scan, Evict, Report, LeaveEnforce
<1>3. Present' \subseteq Present
  <2>1. CASE Evict(t)
    BY <1>1, <2>1, StoredKeys DEF Evict, Present
  <2>2. CASE ~Evict(t)
    BY <2>2, Zenon DEF Enforce, EnforceCheck, LockEviction, StartScan, Scan, Report, LeaveEnforce, Present
  <2> QED
    BY <2>1, <2>2
<1>4. Crowded' => Crowded
  BY <1>1, <1>2, <1>3, FewerKeys
<1>5. Crowded => OverLimit
  BY <1>1, CountSuffices
<1>6. CASE EnforceCheck(t)
  <2>1. CASE ~OverLimit
    <3>1. th'[t].pc = "idle" /\ th[t].pc = "check"
      BY <1>1, <1>6, <2>1 DEF EnforceCheck, Return, Become, Idle
    <3> QED
      BY <1>3, <1>4, <1>5, <2>1, <3>1 DEF Minds, Overtaken
  <2>2. CASE OverLimit
    <3>1. th'[t].pc = "lock_eviction" /\ th[t].pc = "check"
      BY <1>1, <1>6, <2>2 DEF EnforceCheck, Become, Frame
    <3> QED
      BY <1>3, <1>4, <3>1 DEF Minds, Obliged, Enforcing, Overtaken
  <2> QED
    BY <2>1, <2>2
<1>7. CASE LockEviction(t)
  <2>1. th'[t].pc = "loop" /\ th[t].pc = "lock_eviction"
    BY <1>1, <1>7 DEF LockEviction, Become, Frame
  <2> QED
    BY <1>3, <1>4, <1>7, <2>1 DEF Minds, Enforcing, Overtaken
<1>8. CASE StartScan(t)
  <2>1. th'[t].pc = "scan" /\ th'[t].at = 0 /\ th[t].pc = "loop"
    BY <1>1, <1>8 DEF StartScan, Become, Frame
  <2>2. ~Overtaken(th[t])'
    BY <2>1, ShardAssumption DEF Overtaken, Shards, Present
  <2> QED
    BY <1>3, <1>4, <2>1, <2>2 DEF Minds, Enforcing, Obliged
<1>9. CASE Scan(t)
  <2> DEFINE next == IF th[t].at = ShardCount - 1 THEN "evict" ELSE "scan"
             f == [th[t] EXCEPT !.pc = next, !.at = @ + 1]
             g(k) == [th[t] EXCEPT !.pc = next, !.at = @ + 1, !.victim = k,
                                   !.oldest = entries[k].last_access_sequence]
             older == {k \in Present : /\ shard_index[k] = th[t].at
                                       /\ \/ th[t].victim = NoKey
                                          \/ entries[k].last_access_sequence < th[t].oldest}
  <2>a. (older = {} /\ Become(t, f)) \/ \E k \in older : Become(t, g(k))
    BY <1>9, Zenon DEF Scan
  <2>b. /\ f.pc = next /\ f.at = th[t].at + 1 /\ f.victim = th[t].victim
        /\ \A k \in older : g(k).pc = next /\ g(k).victim = k
    BY <1>1 DEF Frame
  <2>c. \A k \in older : k # NoKey
    BY ValueAssumption DEF Present
  <2>d. next \in {"scan", "evict"}
    OBVIOUS
  <2> HIDE DEF next, f, g
  <2>e. (older = {} /\ th'[t] = f) \/ \E k \in older : th'[t] = g(k)
    BY <1>1, <2>a, Moves
  <2>1. th'[t].pc \in {"scan", "evict"} /\ th[t].pc = "scan" /\ th[t].at \in Shards
    BY <1>1, <1>9, <2>b, <2>d, <2>e, Zenon DEF Scan, ScanOK
  <2>2. ASSUME Overtaken(th[t])' PROVE Overtaken(th[t])
    <3>0. th'[t].victim = NoKey
      BY <2>2 DEF Overtaken
    <3>1. /\ th[t].victim = NoKey /\ th'[t].at = th[t].at + 1
          /\ ~ \E k \in Present : shard_index[k] = th[t].at
      BY <2>b, <2>c, <2>e, <3>0
    <3>2. PICK k \in Present : shard_index[k] < th[t].at + 1
      BY <1>3, <2>2, <3>1 DEF Overtaken
    <3>3. shard_index[k] \in Shards
      BY ShardAssumption DEF Present
    <3> QED
      BY <2>1, <3>1, <3>2, <3>3, ShardAssumption DEF Overtaken, Shards
  <2> QED
    BY <1>3, <1>4, <2>1, <2>2 DEF Minds, Enforcing, Obliged
<1>10. CASE Evict(t) \/ Report(t)
  <2>1. th'[t].pc \in {"report", "loop"} /\ th[t].pc \in {"evict", "report"}
    BY <1>1, <1>10, Zenon DEF Evict, Report, Become, Frame
  <2> QED
    BY <1>3, <1>4, <2>1 DEF Minds, Enforcing, Obliged, Overtaken
<1>11. CASE LeaveEnforce(t)
  <2>1. th'[t].pc = "idle"
    BY <1>1, <1>11 DEF LeaveEnforce, Return, Become, Idle
  <2> QED
    BY <1>3, <1>4, <1>5, <1>11, <2>1 DEF Minds, Enforcing, Obliged, Overtaken, LeaveEnforce
<1> QED
  BY <1>6, <1>7, <1>8, <1>9, <1>10, <1>11 DEF Enforce

\* If the moving thread minds the limit, somebody keeps watching.
LEMMA MindsKeepsWatch ==
    ASSUME LimitInv, NEW t \in Threads, Minds(t), \A u \in Threads \ {t} : th'[u] = th[u]
    PROVE  Watched'
<1>1. ASSUME Crowded', ~Obliged(th[t])'
      PROVE  Crowded /\ Present' \subseteq Present /\ (Obliged(th[t]) => LockEviction(t))
  BY <1>1 DEF Minds
<1>2. ASSUME NEW u \in Threads, Obliged(th[u]), u # t
      PROVE  \E v \in Threads : Obliged(th[v])'
  <2>1. th'[u] = th[u]
    BY <1>2
  <2> QED
    BY <1>2, <2>1 DEF Obliged
<1>3. ASSUME Crowded' PROVE \E v \in Threads : Obliged(th[v])' \/ Enforcing(th[v])'
  <2> SUFFICES ASSUME ~Obliged(th[t])' PROVE \E v \in Threads : Obliged(th[v])' \/ Enforcing(th[v])'
    OBVIOUS
  <2>1. PICK u \in Threads : Obliged(th[u]) \/ Enforcing(th[u])
    BY <1>1, <1>3 DEF LimitInv, Watched
  <2>2. CASE u # t
    <3>1. th'[u] = th[u]
      BY <2>2
    <3> QED
      BY <2>1, <3>1 DEF Obliged, Enforcing
  <2>3. CASE u = t /\ Obliged(th[t])
    <3>1. LockEviction(t) /\ th \in [Threads -> Frame]
      BY <1>1, <1>3, <2>3 DEF LimitInv, CountInv, Inv, TypeOK
    <3>2. th'[t].pc = "loop"
      BY <3>1 DEF LockEviction, Become, Frame
    <3> QED
      BY <3>2 DEF Enforcing
  <2>4. CASE u = t /\ Enforcing(th[t]) /\ ~Enforcing(th[t])'
    <3>1. th[t].pc = "evict" /\ th[t].victim = NoKey
      BY <1>3, <2>4 DEF Minds
    <3>2. th[t].at = ShardCount
      BY <3>1 DEF LimitInv, LruInv, ScanOK
    <3>3. Cardinality(Present) > MaxKeys /\ MaxKeys \in Nat
      BY <1>1, <1>3, SizeAssumption DEF Crowded
    <3>4. PICK k \in Present : TRUE
      BY <3>3, FS_EmptySet, SizeAssumption
    <3>5. shard_index[k] < ShardCount
      BY <3>4, ShardAssumption DEF Present, Shards
    <3>6. Overtaken(th[t])
      BY <3>1, <3>2, <3>4, <3>5 DEF Overtaken
    <3>7. PICK v \in Threads : Obliged(th[v])
      BY <1>1, <1>3, <3>6 DEF LimitInv, Watched
    <3>8. v # t
      BY <3>1, <3>7 DEF Obliged
    <3> QED
      BY <1>2, <3>7, <3>8
  <2> QED
    BY <2>1, <2>2, <2>3, <2>4
<1>4. ASSUME NEW v \in Threads, Crowded', Overtaken(th[v])'
      PROVE  \E u \in Threads : Obliged(th[u])'
  <2> SUFFICES ASSUME ~Obliged(th[t])' PROVE \E u \in Threads : Obliged(th[u])'
    OBVIOUS
  <2>1. Overtaken(th[v])
    <3>1. CASE v = t
      BY <1>4, <3>1 DEF Minds
    <3>2. CASE v # t
      <4>1. th'[v] = th[v]
        BY <3>2
      <4> QED
        BY <1>1, <1>4, <4>1 DEF Overtaken
    <3> QED
      BY <3>1, <3>2
  <2>2. PICK u \in Threads : Obliged(th[u])
    BY <1>1, <1>4, <2>1 DEF LimitInv, Watched
  <2>3. CASE u # t
    BY <1>2, <2>2, <2>3
  <2>4. CASE u = t
    <3>1. eviction_mutex_ = NoThread
      BY <1>1, <1>4, <2>2, <2>4 DEF LockEviction
    <3>2. eviction_mutex_ = v
      BY <2>1 DEF LimitInv, EvictionMutexOK, Overtaken, Enforcing
    <3> QED
      BY <3>1, <3>2, ValueAssumption
  <2> QED
    BY <2>3, <2>4
<1> QED
  BY <1>3, <1>4 DEF Watched

\* eviction_mutex_ belongs to the thread inside the eviction loop.
LEMMA MutexStep ==
    ASSUME LimitInv, NEW t \in Threads, (\E r \in Requests : Call(t, r)) \/ Step(t)
    PROVE  EvictionMutexOK'
<1>1. /\ Inv /\ th[t] \in Frame /\ th \in [Threads -> Frame]
      /\ \A u \in Threads : Enforcing(th[u]) => eviction_mutex_ = u
  BY DEF LimitInv, CountInv, Inv, TypeOK, EvictionMutexOK
<1>2. \A u \in Threads \ {t} : th'[u] = th[u]
  BY <1>1, OthersStay
<1>3. ASSUME Enforcing(th[t])' => Enforcing(th[t]), eviction_mutex_' = eviction_mutex_
      PROVE  EvictionMutexOK'
  BY <1>1, <1>2, <1>3 DEF EvictionMutexOK, Enforcing
<1>4. CASE ~Enforce(t)
  BY <1>1, <1>3, <1>4, OutsideLoop DEF Step
<1>5. CASE EnforceCheck(t)
  <2>1. th'[t].pc \in {"idle", "lock_eviction"}
    BY <1>1, <1>5 DEF EnforceCheck, Return, Become, Frame, Idle
  <2> QED
    BY <1>3, <1>5, <2>1 DEF EnforceCheck, Enforcing
<1>6. CASE StartScan(t) \/ Scan(t) \/ Evict(t) \/ Report(t)
  BY <1>3, <1>6, Zenon DEF StartScan, Scan, Evict, Report, Enforcing
<1>7. CASE LockEviction(t)
  <2>1. \A u \in Threads \ {t} : ~Enforcing(th[u])
    BY <1>1, <1>7, ValueAssumption DEF LockEviction
  <2> QED
    BY <1>2, <1>7, <2>1 DEF LockEviction, EvictionMutexOK, Enforcing
<1>8. CASE LeaveEnforce(t)
  <2>1. \A u \in Threads \ {t} : ~Enforcing(th[u])
    BY <1>1, <1>8 DEF LeaveEnforce, Enforcing
  <2>2. th'[t].pc = "idle"
    BY <1>1, <1>8 DEF LeaveEnforce, Return, Become, Idle
  <2> QED
    BY <1>2, <2>1, <2>2 DEF EvictionMutexOK, Enforcing
<1> QED
  BY <1>4, <1>5, <1>6, <1>7, <1>8 DEF Enforce

\* Every step preserves the invariant.
LEMMA NextLimit == ASSUME LimitInv, [Next]_vars PROVE LimitInv'
<1>1. Inv /\ CountInv' /\ LruInv'
  BY NextCount, NextLru DEF LimitInv, CountInv
<1>2. CASE Tick \/ UNCHANGED vars
  <2>1. UNCHANGED <<entries, th, eviction_mutex_, drift>>
    BY <1>2 DEF Tick
  <2>2. EvictionMutexOK'
    BY <2>1 DEF LimitInv, EvictionMutexOK, Enforcing
  <2>3. Watched'
    BY <2>1 DEF LimitInv, Watched, Crowded, Overtaken, Obliged, Enforcing, Present
  <2> QED
    BY <1>1, <2>2, <2>3 DEF LimitInv
<1>3. ASSUME NEW t \in Threads, (\E r \in Requests : Call(t, r)) \/ Step(t) PROVE LimitInv'
  <2>1. Minds(t)
    BY <1>3, KeyedMinds, OthersMind, FlushMinds, EnforceMinds DEF Step
  <2>2. Watched'
    BY <1>1, <1>3, <2>1, OthersStay, MindsKeepsWatch
  <2> QED
    BY <1>1, <1>3, <2>2, MutexStep DEF LimitInv
<1> QED
  BY <1>2, <1>3 DEF Next, Finished

\* When every call has returned the store holds at most --max-keys keys,
\* unless a FLUSH overlapped a sweep: of several inserters the last one to
\* enforce has seen them all.
THEOREM LimitRestored == Spec => []WithinLimit
<1>1. Init => LimitInv
  <2> SUFFICES ASSUME Init PROVE LimitInv
    OBVIOUS
  <2>1. CountInv /\ LruInv
    BY InitCount, InitInv DEF Init, LruInv, ScanOK, Idle
  <2>2. Present = {} /\ \A t \in Threads : th[t].pc = "idle"
    BY DEF Init, Present, Empty, Idle
  <2>3. ~Crowded
    BY <2>2, FS_EmptySet, SizeAssumption DEF Crowded
  <2> QED
    BY <2>1, <2>2, <2>3 DEF LimitInv, EvictionMutexOK, Watched, Enforcing
<1>2. LimitInv => WithinLimit
  <2> SUFFICES ASSUME LimitInv, AllIdle, drift = 0, MaxKeys # 0
               PROVE  Cardinality(Present) <= MaxKeys
    BY DEF WithinLimit
  <2>1. ~Crowded
    BY DEF LimitInv, Watched, AllIdle, Obliged, Enforcing
  <2>2. Cardinality(Present) \in Nat
    BY DebtFinite DEF LimitInv, CountInv
  <2> QED
    BY <2>1, <2>2, SizeAssumption DEF Crowded
<1> QED
  BY <1>1, <1>2, NextLimit, PTL DEF Spec
=============================================================================
