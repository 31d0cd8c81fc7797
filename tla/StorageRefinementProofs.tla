----------------------- MODULE StorageRefinementProofs -----------------------
(***************************************************************************)
(* The sharded engine implements the atomic map of KVStore, for any number *)
(* of keys, threads, shards and calls.                                     *)
(*                                                                         *)
(* A call changes a key only with the mutex of its shard held, so nobody   *)
(* else is about to write that key (NoOtherWriter), and what the map holds *)
(* under it is what is stored.  MapInv says which mutexes a call holds,    *)
(* that only snapshots share one, and what a snapshot has collected.       *)
(***************************************************************************)
EXTENDS StorageEngineRefinement, StorageEngineProofs, WellFoundedInduction

USE DEF engine, world, aside, vars

\* LockSet, of a frame.
LocksOf(f) ==
    IF f.req.op \in {"flush", "snapshot_entries"} THEN Shards
    ELSE IF f.req.op = "mset" THEN {shard_index[f.req.keys[i]] : i \in 1 .. Len(f.req.keys)}
    ELSE {shard_index[f.req.keys[f.at]]}

\* What a frame says about locks, loops and the time a call has read.
LockOK(f) ==
    /\ f.pc = "work" => LocksOf(f) \subseteq f.held
    /\ f.pc = "acquire" /\ f.req.op \in {"set", "mset"} => f.at = 1
    /\ f.pc = "acquire" /\ f.req.op = "snapshot_entries" => f.at = 0
    /\ f.pc = "work" /\ f.req.op = "snapshot_entries" => f.at \in Shards

LocksOK == \A t \in Threads : LockOK(th[t])

TimesOK == \A t \in Threads : th[t].now <= clock

\* A mutex is shared by snapshots only.
Exclusive ==
    \A t, u \in Threads : t # u =>
        \A s \in th[t].held \cap th[u].held :
            Op(t) = "snapshot_entries" /\ Op(u) = "snapshot_entries"

\* The entry a snapshot that began at the given time has to collect.
Seen(k, time) == IF Expired(k, time) THEN NoEntry ELSE Stored(k)

\* A snapshot has collected the shards before the one it is at.
Collected(t) ==
    /\ th[t].pc = "acquire" /\ Op(t) = "snapshot_entries" => snap[t] = Empty
    /\ Working(t, "snapshot_entries") =>
          \A k \in Keys : shard_index[k] < th[t].at => snap[t][k] = Seen(k, th[t].now)

SnapsOK == \A t \in Threads : Collected(t)

MapInv == Inv /\ LocksOK /\ TimesOK /\ Exclusive /\ SnapsOK

\* A thread that holds nothing more than before keeps the locks exclusive.
LEMMA LetGo ==
    ASSUME Inv, Exclusive, NEW t \in Threads, NEW f, Become(t, f),
           f.held = {} \/ (f.held = th[t].held /\ f.req = th[t].req)
    PROVE  Exclusive'
<1>1. th'[t] = f /\ \A u \in Threads \ {t} : th'[u] = th[u]
  BY Moves
<1>2. \A u \in Threads : th'[u].held # {} => th'[u].held = th[u].held /\ th'[u].req = th[u].req
  BY <1>1
<1> QED
  BY <1>2 DEF Exclusive, Op

\* A thread takes mutex s.
LEMMA TakeLock ==
    ASSUME Inv, Exclusive, NEW t \in Threads, NEW s, NEW f, Become(t, f), f.req = th[t].req,
           f.held \subseteq th[t].held \cup {s},
           CanLock(t, s) \/ (CanLockShared(t, s) /\ Op(t) = "snapshot_entries")
    PROVE  Exclusive'
<1>1. th'[t] = f /\ \A u \in Threads \ {t} : th'[u] = th[u]
  BY Moves
<1>2. \A u \in Threads : th'[u].req = th[u].req
  BY <1>1
<1>3. \A u \in Threads \ {t} : s \in th[u].held => Op(u) = "snapshot_entries" /\ Op(t) = "snapshot_entries"
  BY DEF CanLock, CanLockShared
<1>4. ASSUME NEW u \in Threads, NEW v \in Threads, u # v, NEW x \in th'[u].held \cap th'[v].held
      PROVE  th[u].req.op = "snapshot_entries" /\ th[v].req.op = "snapshot_entries"
  BY <1>1, <1>3, <1>4 DEF Exclusive, Op
<1> QED
  BY <1>2, <1>4 DEF Exclusive, Op

\* The well-formed frame a thread moves to keeps LocksOK and TimesOK.
LEMMA MoveLocks ==
    ASSUME Inv, LocksOK, TimesOK, NEW t \in Threads, NEW f, Become(t, f), LockOK(f),
           f.now <= clock, clock' = clock
    PROVE  LocksOK' /\ TimesOK'
<1>1. th'[t] = f /\ \A u \in Threads \ {t} : th'[u] = th[u]
  BY Moves
<1>2. \A u \in Threads : LockOK(th'[u])
  BY <1>1 DEF LocksOK
<1>3. LocksOK'
  BY <1>2, Zenon DEF LocksOK, LockOK, LocksOf
<1>4. TimesOK'
  BY <1>1 DEF TimesOK
<1> QED
  BY <1>3, <1>4

\* How most steps move a thread: no mutex is taken.
Goes(t) ==
    \E f : /\ Become(t, f)
           /\ LockOK(f)
           /\ f.now <= clock
           /\ f.held = {} \/ (f.held = th[t].held /\ f.req = th[t].req)

\* Such a step keeps the locks exclusive and the frames in order.
LEMMA GoesOK ==
    ASSUME MapInv, NEW t \in Threads, Goes(t), clock' = clock
    PROVE  LocksOK' /\ TimesOK' /\ Exclusive'
  BY LetGo, MoveLocks DEF Goes, MapInv

\* A call returns.
LEMMA ReturnGoes == ASSUME Inv, NEW t \in Threads, Return(t) PROVE Goes(t)
<1>1. LockOK(Idle) /\ Idle.held = {} /\ Idle.now <= clock
  BY DEF Idle, LockOK, Inv, TypeOK
<1> QED
  BY <1>1 DEF Return, Goes

\* A call goes on to enforce_max_keys.
LEMMA UnlockGoes ==
    ASSUME Inv, TimesOK, NEW t \in Threads, UnlockAndEnforce(t)
    PROVE  Goes(t)
<1> DEFINE f == [th[t] EXCEPT !.pc = "check", !.held = {}]
<1>1. f.pc = "check" /\ f.held = {} /\ f.now <= clock
  BY DEF Inv, TypeOK, Frame, TimesOK
<1>2. LockOK(f)
  BY <1>1 DEF LockOK
<1> QED
  BY <1>1, <1>2, Zenon DEF UnlockAndEnforce, Goes

\* So do the keyed calls, from key to key and to their end.
LEMMA KeyedGoes == ASSUME MapInv, NEW t \in Threads, Keyed(t) PROVE Goes(t)
<1>1. /\ Inv /\ TimesOK /\ LockOK(th[t]) /\ th[t].now <= clock
      /\ th[t] \in Frame /\ th \in [Threads -> Frame] /\ clock \in Nat
  BY DEF MapInv, LocksOK, TimesOK, Inv, TypeOK
<1>2. CASE PurgeExpired(t)
  <2>1. Become(t, th[t])
    BY <1>1, <1>2 DEF PurgeExpired, Become
  <2> QED
    BY <1>1, <2>1 DEF Goes
<1>3. CASE Return(t) \/ UnlockAndEnforce(t)
  BY <1>1, <1>3, ReturnGoes, UnlockGoes
<1>4. CASE Working(t, "mset") /\ Become(t, [th[t] EXCEPT !.at = @ + 1])
  <2> DEFINE f == [th[t] EXCEPT !.at = @ + 1]
  <2>1. f.pc = "work" /\ f.req = th[t].req /\ f.held = th[t].held /\ f.now = th[t].now
    BY <1>1, <1>4 DEF Frame, Working
  <2>2. LocksOf(f) = LocksOf(th[t]) /\ f.req.op = "mset"
    BY <1>4, <2>1 DEF LocksOf, Working, Op
  <2>3. LockOK(f)
    BY <1>1, <1>4, <2>1, <2>2 DEF LockOK, Working
  <2> QED
    BY <1>1, <1>4, <2>1, <2>3, Zenon DEF Goes
<1>5. CASE Working(t, "mget") /\ Become(t, [th[t] EXCEPT !.pc = "acquire", !.held = {},
                                              !.now = clock, !.at = @ + 1])
  <2> DEFINE f == [th[t] EXCEPT !.pc = "acquire", !.held = {}, !.now = clock, !.at = @ + 1]
  <2>1. f.pc = "acquire" /\ f.req = th[t].req /\ f.held = {} /\ f.now = clock
    BY <1>1 DEF Frame
  <2>2. LockOK(f)
    BY <1>5, <2>1 DEF LockOK, Working, Op
  <2>3. Become(t, f) /\ f.now <= clock
    BY <1>1, <1>5, <2>1
  <2> HIDE DEF f
  <2> QED
    BY <2>1, <2>2, <2>3 DEF Goes
<1> QED
  BY <1>2, <1>3, <1>4, <1>5 DEF Keyed, Set, Mset, Get, Ttl, Mget, Del, ExpireAt, Persist,
       Increment, AppendTo, LeaveUpdate

\* A new call holds nothing and is at its first key or shard.
LEMMA CallGoes ==
    ASSUME MapInv, NEW t \in Threads, NEW r \in Requests, Call(t, r)
    PROVE  Goes(t)
<1> DEFINE f == [th[t] EXCEPT !.pc = FirstPc(r.op), !.req = r, !.now = clock,
                              !.at = IF r.op \in KeyOps THEN 1 ELSE 0]
<1>1. th[t] = Idle /\ clock \in Nat
  BY DEF MapInv, Inv, TypeOK, CallsOK, CallOK, Call
<1>2. /\ f.pc = FirstPc(r.op) /\ f.req = r /\ f.now = clock /\ f.held = {}
      /\ f.at = IF r.op \in KeyOps THEN 1 ELSE 0
  BY <1>1 DEF Idle
<1>3. FirstPc(r.op) # "work"
  BY DEF FirstPc
<1>4. LockOK(f)
  BY <1>2, <1>3 DEF LockOK, KeyOps, SingleKeyOps
<1>5. Become(t, f) /\ f.now <= clock
  BY <1>1, <1>2 DEF Call
<1> HIDE DEF f
<1> QED
  BY <1>2, <1>4, <1>5 DEF Goes

\* The loops over shards and enforce_max_keys, but for the victim's mutex.
LEMMA OtherGoes ==
    ASSUME MapInv, NEW t \in Threads,
           Flush(t) \/ SnapshotShard(t) \/ SweepShard(t) \/ SweepSettle(t)
             \/ TakeEvictedKeys(t) \/ (Enforce(t) /\ (Evict(t) => th[t].victim \notin Present))
    PROVE  Goes(t)
<1>1. /\ Inv /\ TimesOK /\ LockOK(th[t]) /\ th[t].now <= clock
      /\ th[t] \in Frame /\ th \in [Threads -> Frame] /\ clock \in Nat
  BY DEF MapInv, LocksOK, TimesOK, Inv, TypeOK
<1>2. CASE Return(t)
  BY <1>1, <1>2, ReturnGoes
<1>3. ASSUME NEW f, Become(t, f), f.pc \notin {"work", "acquire"}, f.now = th[t].now,
             f.held = {} \/ (f.held = th[t].held /\ f.req = th[t].req)
      PROVE  Goes(t)
  BY <1>1, <1>3 DEF Goes, LockOK
<1>4. CASE SnapshotShard(t)
  <2> DEFINE f == [th[t] EXCEPT !.at = @ + 1]
  <2>1. CASE th[t].at # ShardCount - 1
    <3>1. f.pc = "work" /\ f.req = th[t].req /\ f.held = th[t].held /\ f.now = th[t].now /\ f.at = th[t].at + 1
      BY <1>1, <1>4 DEF Frame, SnapshotShard, Working
    <3>2. th[t].at + 1 \in Shards
      BY <1>1, <1>4, <2>1, ShardAssumption DEF LockOK, SnapshotShard, Working, Op, Shards
    <3>3. LocksOf(f) = LocksOf(th[t])
      BY <1>4, <3>1 DEF LocksOf, SnapshotShard, Working, Op
    <3>4. LockOK(f)
      BY <1>1, <1>4, <3>1, <3>2, <3>3 DEF LockOK, SnapshotShard, Working
    <3> QED
      BY <1>1, <1>4, <2>1, <3>1, <3>4, Zenon DEF SnapshotShard, Goes
  <2> QED
    BY <1>2, <1>4, <2>1 DEF SnapshotShard
<1>5. CASE SweepShard(t)
  <2> DEFINE gone == {k \in Keys : shard_index[k] = th[t].at /\ Expired(k, th[t].now)}
             f == [th[t] EXCEPT !.removed = @ \cup gone, !.at = @ + 1,
                     !.pc = IF th[t].at = ShardCount - 1 THEN "settle" ELSE "sweep"]
  <2>1. Become(t, f)
    BY <1>5 DEF SweepShard
  <2> HIDE DEF gone
  <2>2. f.pc \in {"settle", "sweep"} /\ f.req = th[t].req /\ f.held = th[t].held /\ f.now = th[t].now
    BY <1>1 DEF Frame
  <2> QED
    BY <1>3, <2>1, <2>2, Zenon
<1>6. CASE \E p \in {"lock_eviction", "loop"} : Become(t, [th[t] EXCEPT !.pc = p])
  <2>1. PICK p \in {"lock_eviction", "loop"} : Become(t, [th[t] EXCEPT !.pc = p])
    BY <1>6
  <2> QED
    BY <1>1, <1>3, <2>1 DEF Frame
<1>7. CASE StartScan(t)
  BY <1>1, <1>3, <1>7, Zenon DEF StartScan, Frame
<1>8. CASE Scan(t)
  <2> DEFINE next == IF th[t].at = ShardCount - 1 THEN "evict" ELSE "scan"
  <2>1. \/ Become(t, [th[t] EXCEPT !.pc = next, !.at = @ + 1])
        \/ \E k \in Present : Become(t, [th[t] EXCEPT !.pc = next, !.at = @ + 1, !.victim = k,
                                            !.oldest = entries[k].last_access_sequence])
    BY <1>8, Zenon DEF Scan
  <2>2. next \in {"evict", "scan"}
    OBVIOUS
  <2> HIDE DEF next
  <2>3. CASE Become(t, [th[t] EXCEPT !.pc = next, !.at = @ + 1])
    BY <1>1, <1>3, <2>2, <2>3, Zenon DEF Frame
  <2>4. ASSUME NEW k, Become(t, [th[t] EXCEPT !.pc = next, !.at = @ + 1, !.victim = k,
                                    !.oldest = entries[k].last_access_sequence])
        PROVE  Goes(t)
    <3> DEFINE f == [th[t] EXCEPT !.pc = next, !.at = @ + 1, !.victim = k,
                                  !.oldest = entries[k].last_access_sequence]
    <3>1. f.pc = next /\ f.req = th[t].req /\ f.held = th[t].held /\ f.now = th[t].now
      BY <1>1 DEF Frame
    <3> QED
      BY <1>3, <2>2, <2>4, <3>1, Zenon
  <2> QED
    BY <2>1, <2>3, <2>4, Zenon
<1>9. CASE Report(t)
  BY <1>1, <1>3, <1>9, Zenon DEF Report, Frame
<1> QED
  BY <1>2, <1>4, <1>5, <1>6, <1>7, <1>8, <1>9 DEF Flush, SweepSettle, TakeEvictedKeys, Enforce,
       EnforceCheck, LockEviction, Evict, LeaveEnforce

\* Taking a mutex keeps the order of locks too.
LEMMA AcquireLocks ==
    ASSUME MapInv, NEW t \in Threads, Acquire(t)
    PROVE  LocksOK' /\ TimesOK' /\ Exclusive'
<1>1. /\ Inv /\ TimesOK /\ LocksOK /\ Exclusive /\ LockOK(th[t]) /\ th[t].now <= clock
      /\ th[t] \in Frame /\ th[t].pc = "acquire" /\ clock' = clock
  BY DEF MapInv, LocksOK, TimesOK, Inv, TypeOK, Acquire
<1>2. PICK s \in LockSet(t) \ th[t].held :
        /\ IF Op(t) = "snapshot_entries" THEN CanLockShared(t, s) ELSE CanLock(t, s)
        /\ Become(t, [th[t] EXCEPT !.held = @ \cup {s},
             !.pc = IF LockSet(t) \subseteq th[t].held \cup {s} THEN "work" ELSE "acquire"])
  BY Zenon DEF Acquire
<1> DEFINE p == IF LockSet(t) \subseteq th[t].held \cup {s} THEN "work" ELSE "acquire"
           f == [th[t] EXCEPT !.held = @ \cup {s}, !.pc = p]
<1>3. p = "work" => LockSet(t) \subseteq th[t].held \cup {s}
  OBVIOUS
<1>4. Become(t, f) /\ p \in {"work", "acquire"}
  BY <1>2
<1> HIDE DEF p
<1>5. f.pc = p /\ f.held = th[t].held \cup {s} /\ f.req = th[t].req /\ f.at = th[t].at /\ f.now = th[t].now
  BY <1>1 DEF Frame
<1> HIDE DEF f
<1>6. LocksOf(f) = LockSet(t)
  BY <1>5 DEF LocksOf, LockSet, Op, Key
<1>7. 0 \in Shards
  BY ShardAssumption DEF Shards
<1>8. LockOK(f)
  BY <1>1, <1>3, <1>4, <1>5, <1>6, <1>7 DEF LockOK
<1>9. LocksOK' /\ TimesOK'
  BY <1>1, <1>4, <1>5, <1>8, MoveLocks
<1>10. Exclusive'
  BY <1>1, <1>2, <1>4, <1>5, TakeLock
<1> QED
  BY <1>9, <1>10

\* So does taking the victim's.
LEMMA EvictLocks ==
    ASSUME MapInv, NEW t \in Threads, Evict(t), th[t].victim \in Present
    PROVE  LocksOK' /\ TimesOK' /\ Exclusive'
<1>1. /\ Inv /\ TimesOK /\ LocksOK /\ Exclusive /\ th[t].now <= clock
      /\ th[t] \in Frame /\ clock' = clock
  BY DEF MapInv, TimesOK, Inv, TypeOK, Evict
<1> DEFINE s == shard_index[th[t].victim]
           f == [th[t] EXCEPT !.pc = "report", !.held = {s}]
<1>2. Become(t, f) /\ CanLock(t, s)
  BY DEF Evict
<1>3. f.pc = "report" /\ f.held = {s} /\ f.req = th[t].req /\ f.now = th[t].now
  BY <1>1 DEF Frame
<1> HIDE DEF f, s
<1>4. LockOK(f)
  BY <1>3 DEF LockOK
<1>5. LocksOK' /\ TimesOK'
  BY <1>1, <1>2, <1>3, <1>4, MoveLocks
<1>6. Exclusive'
  BY <1>1, <1>2, <1>3, TakeLock
<1> QED
  BY <1>5, <1>6

\* A mutex a call holds other than for a snapshot is held by nobody else.
LEMMA Alone ==
    ASSUME MapInv, NEW t \in Threads, NEW s \in th[t].held, Op(t) # "snapshot_entries"
    PROVE  CanLock(t, s)
  BY DEF MapInv, Exclusive, CanLock

\* Then no snapshot is being collected,
LEMMA NoReader ==
    ASSUME MapInv, NEW t \in Threads, NEW s \in Shards, CanLock(t, s), NEW u \in Threads \ {t}
    PROVE  ~Working(u, "snapshot_entries")
<1> SUFFICES ASSUME Working(u, "snapshot_entries") PROVE FALSE
  OBVIOUS
<1>1. Shards \subseteq th[u].held
  BY DEF MapInv, LocksOK, LockOK, LocksOf, Working, Op
<1> QED
  BY <1>1 DEF CanLock

\* and no other SET or MSET is about to write a key of that shard.
LEMMA NoOtherWriter ==
    ASSUME MapInv, NEW t \in Threads, NEW k \in Keys, CanLock(t, shard_index[k]),
           NEW u \in Threads \ {t}
    PROVE  ToWrite(u, k) = {}
<1> SUFFICES ASSUME NEW i \in ToWrite(u, k) PROVE FALSE
  OBVIOUS
<1>1. /\ th[u].pc = "work" /\ Op(u) \in {"set", "mset"}
      /\ i \in th[u].at .. Len(th[u].req.keys) /\ th[u].req.keys[i] = k
  BY DEF ToWrite, Working
<1>2. /\ th[u].req \in Requests /\ th[u].at \in 1 .. Len(th[u].req.keys)
      /\ LocksOf(th[u]) \subseteq th[u].held
  BY <1>1 DEF MapInv, Inv, CallsOK, CallOK, LocksOK, LockOK, Op, KeyOps, SingleKeyOps
<1>3. WellFormed(th[u].req) /\ Len(th[u].req.keys) \in Nat
  BY <1>2, RequestAssumption DEF WellFormed
<1>4. i \in 1 .. Len(th[u].req.keys)
  BY <1>1, <1>2, <1>3
<1>5. CASE Op(u) = "mset"
  <2>1. shard_index[k] \in LocksOf(th[u])
    BY <1>1, <1>4, <1>5 DEF LocksOf, Op
  <2> QED
    BY <1>2, <2>1 DEF CanLock
<1>6. CASE Op(u) = "set"
  <2>1. Len(th[u].req.keys) = 1
    BY <1>3, <1>6 DEF WellFormed, SingleKeyOps, Op
  <2>2. i = 1 /\ th[u].at = 1
    BY <1>2, <1>4, <2>1
  <2>3. shard_index[k] \in LocksOf(th[u])
    BY <1>1, <1>6, <2>2 DEF LocksOf, Op
  <2> QED
    BY <1>2, <2>3 DEF CanLock
<1> QED
  BY <1>1, <1>5, <1>6

\* The key a call works on is its own.
LEMMA OwnKey ==
    ASSUME MapInv, NEW t \in Threads, th[t].pc = "work", Op(t) \in KeyOps
    PROVE  Key(t) \in Keys /\ CanLock(t, shard_index[Key(t)])
<1>1. th[t].req \in Requests /\ th[t].at \in 1 .. Len(th[t].req.keys) /\ Inv
  BY DEF MapInv, Inv, CallsOK, CallOK, Op
<1>2. LocksOf(th[t]) \subseteq th[t].held
  BY DEF MapInv, LocksOK, LockOK
<1>3. shard_index[Key(t)] \in LocksOf(th[t]) /\ Op(t) # "snapshot_entries"
  BY <1>1, Zenon DEF LocksOf, Key, Op, KeyOps, SingleKeyOps
<1> QED
  BY <1>1, <1>2, <1>3, Alone, KeyTyped

\* A flush in progress holds every mutex alone.
LEMMA OwnAll ==
    ASSUME MapInv, NEW t \in Threads, Working(t, "flush"), NEW s \in Shards
    PROVE  CanLock(t, s)
<1>1. s \in th[t].held
  BY DEF MapInv, LocksOK, LockOK, LocksOf, Working, Op
<1> QED
  BY <1>1, Alone DEF Working

\* What a thread has collected stands while it and the entries stay.
LEMMA CollectedStays ==
    ASSUME NEW u \in Threads, Collected(u), th'[u] = th[u], snap'[u] = snap[u],
           entries' = entries \/ ~Working(u, "snapshot_entries")
    PROVE  Collected(u)'
  BY DEF Collected, Working, Op, Seen, Stored, Expired, Present, is_expired

\* Snapshots are undisturbed: entries change under a mutex they would hold.
LEMMA SnapsStep ==
    ASSUME MapInv, NEW t \in Threads, Collected(t)',
           \A u \in Threads \ {t} : th'[u] = th[u] /\ snap'[u] = snap[u],
           entries' = entries \/ \E s \in Shards : CanLock(t, s)
    PROVE  SnapsOK'
<1>1. ASSUME NEW u \in Threads \ {t} PROVE Collected(u)'
  <2>1. Collected(u)
    BY DEF MapInv, SnapsOK
  <2>2. entries' = entries \/ ~Working(u, "snapshot_entries")
    BY NoReader
  <2> QED
    BY <2>1, <2>2, CollectedStays
<1> QED
  BY <1>1 DEF SnapsOK

\* Where a keyed call is after a step: at its end or in the same request.
LEMMA KeyedMoves ==
    ASSUME Inv, NEW t \in Threads, Keyed(t)
    PROVE  /\ th[t].pc = "work" /\ Op(t) \in KeyOps
           /\ th'[t].pc \in {"idle", "check"} \/ th'[t].req = th[t].req
<1>1. th[t] \in Frame /\ th \in [Threads -> Frame]
  BY DEF Inv, TypeOK
<1>2. th[t].pc = "work" /\ Op(t) \in KeyOps
  BY DEF Keyed, PurgeExpired, Set, Mset, Get, Ttl, Mget, Del, ExpireAt, Persist,
         Increment, AppendTo, Working, KeyOps, SingleKeyOps
<1>3. CASE Return(t)
  BY <1>1, <1>2, <1>3 DEF Return, Become, Idle
<1>4. CASE UnlockAndEnforce(t)
  BY <1>1, <1>2, <1>4 DEF UnlockAndEnforce, Become, Frame
<1>5. CASE PurgeExpired(t)
  BY <1>2, <1>5 DEF PurgeExpired
<1>6. CASE Mset(t)
  BY <1>1, <1>2, <1>4, <1>6 DEF Mset, Become, Frame
<1>7. CASE Mget(t)
  BY <1>1, <1>2, <1>3, <1>7, ZenonT(60) DEF Mget, Become, Frame
<1> QED
  BY <1>2, <1>3, <1>4, <1>5, <1>6, <1>7, Zenon DEF Keyed, Set, Get, Ttl, Del, ExpireAt, Persist,
       Increment, AppendTo, LeaveUpdate

\* The steps after which a thread is neither waiting for mutexes nor at work.
Quiet(t) ==
    \/ Flush(t) \/ SweepShard(t) \/ SweepSettle(t) \/ TakeEvictedKeys(t) \/ Enforce(t)

\* Where they lead.
LEMMA QuietMoves ==
    ASSUME Inv, NEW t \in Threads, Quiet(t)
    PROVE  /\ th'[t].pc \notin {"acquire", "work"}
           /\ th[t].pc = "work" => Working(t, "flush")
           /\ snap' = snap /\ clock' = clock
<1>1. th[t] \in Frame /\ th \in [Threads -> Frame]
  BY DEF Inv, TypeOK
<1>2. CASE Return(t)
  <2>1. th'[t].pc = "idle"
    BY <1>1, <1>2 DEF Return, Become, Idle
  <2> QED
    BY <2>1, Zenon DEF Quiet, Flush, SweepShard, SweepSettle, TakeEvictedKeys, Enforce, EnforceCheck,
                LockEviction, StartScan, Scan, Evict, Report, LeaveEnforce, Working
<1>3. CASE SweepShard(t)
  BY <1>1, <1>3 DEF SweepShard, Become, Frame
<1>4. CASE EnforceCheck(t) \/ LockEviction(t) \/ StartScan(t) \/ Report(t)
  BY <1>1, <1>2, <1>4, ZenonT(60) DEF EnforceCheck, LockEviction, StartScan, Report, Become, Frame
<1>5. CASE Evict(t)
  BY <1>1, <1>5, ZenonT(40) DEF Evict, Become, Frame
<1>6. CASE Scan(t)
  <2> DEFINE next == IF th[t].at = ShardCount - 1 THEN "evict" ELSE "scan"
  <2>0. /\ \/ Become(t, [th[t] EXCEPT !.pc = next, !.at = @ + 1])
           \/ \E k \in Present : Become(t, [th[t] EXCEPT !.pc = next, !.at = @ + 1, !.victim = k,
                                            !.oldest = entries[k].last_access_sequence])
        /\ next \in {"evict", "scan"}
    BY <1>6, Zenon DEF Scan
  <2> HIDE DEF next
  <2>1. th'[t].pc \in {"evict", "scan"}
    BY <1>1, <2>0, Zenon DEF Become, Frame
  <2> QED
    BY <1>6, <2>1, Zenon DEF Scan
<1> QED
  BY <1>2, <1>3, <1>4, <1>5, <1>6, Zenon DEF Quiet, Flush, SweepSettle, TakeEvictedKeys, Enforce, LeaveEnforce

\* They change entries only with a mutex nobody else holds.
LEMMA QuietLocks ==
    ASSUME MapInv, NEW t \in Threads, Quiet(t)
    PROVE  entries' = entries \/ \E s \in Shards : CanLock(t, s)
<1>1. Inv /\ th[t] \in Frame /\ CallOK(th[t])
  BY DEF MapInv, Inv, TypeOK, CallsOK
<1>2. CASE Flush(t)
  BY <1>2, OwnAll, ShardAssumption DEF Flush, Shards
<1>3. CASE SweepShard(t)
  BY <1>1, <1>3 DEF SweepShard, CallOK
<1>4. CASE Evict(t)
  BY <1>1, <1>4, ShardAssumption DEF Evict, Frame
<1> QED
  BY <1>2, <1>3, <1>4, Zenon DEF Quiet, SweepSettle, TakeEvictedKeys, Enforce, EnforceCheck,
       LockEviction, StartScan, Scan, Report, LeaveEnforce

\* One more shard is collected as the snapshot's start time demands.
LEMMA ShardCollected ==
    ASSUME MapInv, NEW t \in Threads, SnapshotShard(t), NEW k \in Keys,
           shard_index[k] <= th[t].at
    PROVE  snap'[t][k] = Seen(k, th[t].now)
<1>1. snap \in [Threads -> [Keys -> SnapshotEntry \cup {NoEntry}]] /\ th[t].at \in Nat
  BY DEF MapInv, Inv, TypeOK, Frame
<1>2. snap'[t][k] = IF shard_index[k] # th[t].at THEN snap[t][k]
                    ELSE IF k \in Present /\ ~Expired(k, th[t].now)
                    THEN [value |-> entries[k].value, expires_at |-> entries[k].expires_at]
                    ELSE NoEntry
  BY <1>1 DEF SnapshotShard
<1>3. CASE shard_index[k] = th[t].at
  BY <1>2, <1>3 DEF Seen, Stored, Expired
<1>4. CASE shard_index[k] # th[t].at
  <2>0. shard_index[k] \in Int
    BY ShardAssumption DEF Shards
  <2>1. shard_index[k] < th[t].at
    BY <1>1, <1>4, <2>0
  <2>2. snap[t][k] = Seen(k, th[t].now)
    BY <2>1 DEF MapInv, SnapsOK, Collected, SnapshotShard
  <2> QED
    BY <1>2, <1>4, <2>2
<1> QED
  BY <1>3, <1>4

\* The invariant holds of the empty store.
LEMMA MapInit == Init => MapInv
<1> SUFFICES ASSUME Init PROVE MapInv
  OBVIOUS
<1>1. Inv
  BY InitInv
<1>2. \A t \in Threads : th[t] = Idle
  BY DEF Init
<1>3. LocksOK /\ Exclusive /\ SnapsOK
  BY <1>2 DEF LocksOK, LockOK, Exclusive, SnapsOK, Collected, Working, Idle
<1>4. TimesOK
  BY <1>2 DEF Init, TimesOK, Idle
<1> QED
  BY <1>1, <1>3, <1>4 DEF MapInv

\* It speaks of the calls, the entries and the snapshots only.
LEMMA SameMap ==
    ASSUME th' = th, snap' = snap, entries' = entries
    PROVE  /\ LocksOK => LocksOK'
           /\ Exclusive => Exclusive'
           /\ SnapsOK => SnapsOK'
           /\ clock' = clock /\ TimesOK => TimesOK'
<1>1. LocksOK => LocksOK'
  BY Zenon DEF LocksOK, LockOK, LocksOf
<1>2. Exclusive => Exclusive'
  BY DEF Exclusive, Op
<1>3. \A t \in Threads : Op(t)' = Op(t) /\ Working(t, "snapshot_entries")' = Working(t, "snapshot_entries")
  BY DEF Working, Op
<1>4. \A n : \A k \in Keys : Seen(k, n)' = Seen(k, n)
  BY DEF Seen, Stored, Expired, Present, is_expired
<1>5. SnapsOK => SnapsOK'
  BY <1>3, <1>4 DEF SnapsOK, Collected, Empty
<1>6. clock' = clock /\ TimesOK => TimesOK'
  BY DEF TimesOK
<1> QED
  BY <1>1, <1>2, <1>5, <1>6

\* Every step of a call preserves it,
LEMMA MapStep ==
    ASSUME MapInv, NEW t \in Threads, (\E r \in Requests : Call(t, r)) \/ Step(t)
    PROVE  LocksOK' /\ TimesOK' /\ Exclusive' /\ SnapsOK'
<1>0. /\ Inv /\ th[t] \in Frame /\ th \in [Threads -> Frame]
      /\ snap \in [Threads -> [Keys -> SnapshotEntry \cup {NoEntry}]]
  BY DEF MapInv, Inv, TypeOK
<1>1. \A u \in Threads \ {t} : th'[u] = th[u]
  BY <1>0, OthersStay
<1>2. Collected(t)
  BY DEF MapInv, SnapsOK
<1>3. ASSUME NEW r \in Requests, Call(t, r) PROVE LocksOK' /\ TimesOK' /\ Exclusive' /\ SnapsOK'
  <2>1. th'[t].pc # "work"
    BY <1>0, <1>3, Zenon DEF Call, Become, Frame, FirstPc
  <2>2. snap'[t] = Empty /\ (\A u \in Threads \ {t} : snap'[u] = snap[u]) /\ entries' = entries /\ clock' = clock
    BY <1>0, <1>3, Zenon DEF Call
  <2>3. Collected(t)'
    BY <2>1, <2>2 DEF Collected, Working, Empty
  <2> QED
    BY <1>1, <1>3, <2>2, <2>3, CallGoes, GoesOK, SnapsStep
<1>4. CASE Acquire(t)
  <2>1. th'[t].req = th[t].req /\ th'[t].at = th[t].at /\ th[t].pc = "acquire"
    BY <1>0, <1>4 DEF Acquire, Become, Frame
  <2>2. snap' = snap /\ entries' = entries
    BY <1>4 DEF Acquire
  <2>3. Op(t) = "snapshot_entries" => th[t].at = 0 /\ snap[t] = Empty
    BY <1>2, <2>1 DEF MapInv, LocksOK, LockOK, Collected, Op
  <2>4. \A k \in Keys : ~(shard_index[k] < 0)
    BY ShardAssumption DEF Shards
  <2>5. Collected(t)'
    BY <2>1, <2>2, <2>3, <2>4 DEF Collected, Working, Op, Empty
  <2> QED
    BY <1>1, <1>4, <2>2, <2>5, AcquireLocks, SnapsStep, Zenon
<1>5. CASE Keyed(t)
  <2>1. Op(t) \in KeyOps /\ (th'[t].pc \in {"idle", "check"} \/ th'[t].req = th[t].req)
    BY <1>0, <1>5, KeyedMoves
  <2>2. Collected(t)'
    BY <2>1 DEF Collected, Working, Op, KeyOps, SingleKeyOps
  <2>3. snap' = snap /\ clock' = clock
    BY <1>0, <1>5, KeyedStep
  <2>4. \E s \in Shards : CanLock(t, s)
    BY <1>0, <1>5, KeyedMoves, OwnKey, ShardAssumption
  <2> QED
    BY <1>1, <1>5, <2>2, <2>3, <2>4, KeyedGoes, GoesOK, SnapsStep, Zenon
<1>6. CASE SnapshotShard(t)
  <2>1. entries' = entries /\ clock' = clock /\ \A u \in Threads \ {t} : snap'[u] = snap[u]
    BY <1>0, <1>6 DEF SnapshotShard
  <2>2. CASE th[t].at = ShardCount - 1
    <3>1. th'[t].pc = "idle"
      BY <1>0, <1>6, <2>2 DEF SnapshotShard, Return, Become, Idle
    <3>2. Collected(t)'
      BY <3>1 DEF Collected, Working
    <3> QED
      BY <1>1, <1>6, <2>1, <3>2, OtherGoes, GoesOK, SnapsStep
  <2>3. CASE th[t].at # ShardCount - 1
    <3>1. th'[t].pc = "work" /\ th'[t].now = th[t].now /\ th'[t].at = th[t].at + 1
      BY <1>0, <1>6, <2>3 DEF SnapshotShard, Become, Frame, Working
    <3>2. ASSUME NEW k \in Keys, shard_index[k] < th[t].at + 1
          PROVE  snap'[t][k] = Seen(k, th[t].now)
      <4>1. shard_index[k] \in Int /\ th[t].at \in Int
        BY <1>0, ShardAssumption DEF Shards, Frame
      <4>2. shard_index[k] <= th[t].at
        BY <3>2, <4>1
      <4> QED
        BY <1>6, <4>2, ShardCollected
    <3>3. Collected(t)'
      BY <2>1, <3>1, <3>2, Zenon DEF Collected, Working, Seen, Stored, Expired, Present, is_expired
    <3> QED
      BY <1>1, <1>6, <2>1, <3>3, OtherGoes, GoesOK, SnapsStep
  <2> QED
    BY <2>2, <2>3
<1>7. CASE SnapshotThrows(t)
  <2>1. UNCHANGED <<th, snap, entries, clock>>
    BY <1>7 DEF SnapshotThrows
  <2> QED
    BY <2>1, SameMap DEF MapInv
<1>8. CASE Quiet(t)
  <2>1. th'[t].pc \notin {"acquire", "work"} /\ snap' = snap /\ clock' = clock
    BY <1>0, <1>8, QuietMoves
  <2>2. Collected(t)'
    BY <2>1 DEF Collected, Working
  <2>3. SnapsOK'
    BY <1>1, <1>8, <2>1, <2>2, QuietLocks, SnapsStep
  <2>4. LocksOK' /\ TimesOK' /\ Exclusive'
    BY <1>8, <2>1, EvictLocks, OtherGoes, GoesOK DEF Quiet
  <2> QED
    BY <2>3, <2>4
<1> QED
  BY <1>3, <1>4, <1>5, <1>6, <1>7, <1>8 DEF Step, Quiet

\* and so does every step of the engine.
LEMMA MapNext == ASSUME MapInv, [Next]_vars PROVE MapInv'
<1>1. Inv'
  BY NextInv DEF MapInv
<1>2. CASE Tick
  <2>1. clock \in Nat /\ \A t \in Threads : th[t].now \in Nat
    BY DEF MapInv, Inv, TypeOK, Frame
  <2>2. TimesOK'
    BY <1>2, <2>1 DEF Tick, MapInv, TimesOK
  <2>3. LocksOK' /\ Exclusive' /\ SnapsOK'
    <3>1. UNCHANGED <<th, snap, entries>>
      BY <1>2 DEF Tick
    <3> QED
      BY <3>1, SameMap DEF MapInv
  <2> QED
    BY <1>1, <2>2, <2>3 DEF MapInv
<1>3. CASE UNCHANGED vars
  <2>1. UNCHANGED <<th, snap, entries, clock>>
    BY <1>3
  <2> QED
    BY <1>1, <2>1, SameMap DEF MapInv
<1>4. ASSUME NEW t \in Threads, (\E r \in Requests : Call(t, r)) \/ Step(t) PROVE MapInv'
  BY <1>1, <1>4, MapStep DEF MapInv
<1> QED
  BY <1>2, <1>3, <1>4 DEF Next, Finished

\* A set of positions has a last one,
LEMMA HasLast ==
    ASSUME NEW n \in Nat, NEW S \in SUBSET (1 .. n), S # {}
    PROVE  \E i \in S : \A j \in S : j <= i
<1> DEFINE T == {n - i : i \in S}
           R == OpToRel(<, Nat)
<1>0. \A i \in S : n - i \in Nat
  OBVIOUS
<1>1. T \subseteq Nat /\ T # {}
  BY <1>0, Zenon
<1>2. IsWellFoundedOn(R, Nat)
  BY NatLessThanWellFounded, Zenon
<1>3. \E x \in T : \A y \in T : ~(<<y, x>> \in R)
  <2> HIDE DEF T, R
  <2> QED
    BY <1>1, <1>2, WFMin, Zenon
<1>4. PICK i \in S : \A j \in S : ~(<<n - j, n - i>> \in R)
  BY <1>3, Zenon
<1>5. ASSUME NEW j \in S PROVE j <= i
  <2>1. <<n - j, n - i>> \notin R
    BY <1>4, Zenon
  <2>2. n - j \in Nat /\ n - i \in Nat
    OBVIOUS
  <2>3. ~(n - j < n - i)
    BY <2>1, <2>2 DEF OpToRel
  <2> QED
    BY <2>3
<1> QED
  BY <1>5

\* which an earlier one does not change.
LEMMA LastStays ==
    ASSUME NEW n \in Nat, NEW S \in SUBSET (1 .. n), NEW a \in S, \A j \in S : a <= j,
           S \ {a} # {}
    PROVE  Last(S) = Last(S \ {a})
<1>1. PICK m \in S \ {a} : \A j \in S \ {a} : j <= m
  BY HasLast, Zenon
<1>2. \A i \in S : (\A j \in S : j <= i) => i = m
  BY <1>1
<1>3. m \in S /\ \A j \in S : j <= m
  BY <1>1
<1>4. Last(S) = m
  BY <1>2, <1>3, Zenon DEF Last
<1>5. \A i \in S \ {a} : (\A j \in S \ {a} : j <= i) => i = m
  BY <1>1
<1>6. Last(S \ {a}) = m
  BY <1>1, <1>5, Zenon DEF Last
<1> QED
  BY <1>4, <1>6

\* What the map holds under a key nobody else is about to write, before and
\* after a step of thread t.
LEMMA OwnEntry ==
    ASSUME NEW t \in Threads, NEW k \in Keys,
           \A u \in Threads \ {t} : ToWrite(u, k) = {} /\ th'[u] = th[u]
    PROVE  /\ AbstractEntry(k) = IF ToWrite(t, k) = {} THEN Stored(k) ELSE Pending(t, k)
           /\ AbstractEntry(k)' = IF ToWrite(t, k)' = {} THEN Stored(k)' ELSE Pending(t, k)'
<1>1. \A u \in Threads \ {t} : ToWrite(u, k)' = {}
  BY DEF ToWrite, Working, Op
<1>2. Writers(k) = IF ToWrite(t, k) = {} THEN {} ELSE {t}
  BY DEF Writers
<1>3. Writers(k)' = IF ToWrite(t, k)' = {} THEN {} ELSE {t}
  BY <1>1 DEF Writers
<1>4. (CHOOSE u \in {t} : TRUE) = t
  OBVIOUS
<1> QED
  BY <1>2, <1>3, <1>4 DEF AbstractEntry

\* A key the step does not touch stays in the map as it is.
LEMMA SameEntry ==
    ASSUME NEW t \in Threads, NEW k \in Keys, \A u \in Threads \ {t} : th'[u] = th[u],
           ToWrite(t, k) = {}, ToWrite(t, k)' = {}, entries'[k] = entries[k]
    PROVE  AbstractEntry(k)' = AbstractEntry(k)
<1>1. \A u \in Threads : ToWrite(u, k)' = ToWrite(u, k)
  BY Zenon DEF ToWrite, Working, Op
<1>2. Writers(k)' = Writers(k)
  BY <1>1 DEF Writers
<1>3. Stored(k)' = Stored(k)
  BY DEF Stored, Present
<1>4. CASE Writers(k) = {}
  BY <1>2, <1>3, <1>4 DEF AbstractEntry
<1>5. CASE Writers(k) # {}
  <2>1. PICK w \in Writers(k) : w = CHOOSE u \in Writers(k) : TRUE
    BY <1>5
  <2>2. w \in Threads \ {t}
    BY <2>1 DEF Writers
  <2>3. Pending(w, k)' = Pending(w, k)
    BY <1>1, <2>2 DEF Pending
  <2>4. AbstractEntry(k) = Pending(w, k) /\ AbstractEntry(k)' = Pending(w, k)'
    BY <1>2, <1>5, <2>1 DEF AbstractEntry
  <2> QED
    BY <2>3, <2>4
<1> QED
  BY <1>4, <1>5

\* A step of a thread with nothing left to write changes the map where it
\* changes the entries, and there the map holds what is stored.
LEMMA PlainStep ==
    ASSUME MapInv, NEW t \in Threads, \A u \in Threads \ {t} : th'[u] = th[u],
           \A k \in Keys : ToWrite(t, k) = {} /\ ToWrite(t, k)' = {},
           NEW K \in SUBSET Keys, \A k \in K : CanLock(t, shard_index[k]),
           \A k \in Keys \ K : entries'[k] = entries[k]
    PROVE  /\ \A k \in K : AbstractStore[k] = Stored(k)
           /\ AbstractStore' = [k \in Keys |-> IF k \in K THEN Stored(k)' ELSE AbstractStore[k]]
<1>1. ASSUME NEW k \in K
      PROVE  AbstractEntry(k) = Stored(k) /\ AbstractEntry(k)' = Stored(k)'
  BY NoOtherWriter, OwnEntry, SMTT(30)
<1>2. ASSUME NEW k \in Keys \ K PROVE AbstractEntry(k)' = AbstractEntry(k)
  BY SameEntry
<1>3. \A k \in Keys : AbstractStore'[k] = AbstractEntry(k)' /\ AbstractStore[k] = AbstractEntry(k)
  BY DEF AbstractStore
<1>4. AbstractStore' = [k \in Keys |-> AbstractEntry(k)']
  BY DEF AbstractStore
<1> QED
  BY <1>1, <1>2, <1>3, <1>4

\* What a step of thread t may do to the map: one atomic operation or none.
Allowed == [Store_!Next]_(Store_!abstract)

\* The captured views stay as they are when t's stays.
LEMMA ViewStays ==
    ASSUME NEW t \in Threads, \A u \in Threads \ {t} : th'[u] = th[u] /\ snap'[u] = snap[u],
           \/ ~Working(t, "snapshot_entries") /\ ~Working(t, "snapshot_entries")' /\ snap'[t] = snap[t]
           \/ Working(t, "snapshot_entries") /\ Working(t, "snapshot_entries")'
           \/ Working(t, "snapshot_entries")' /\ ~Working(t, "snapshot_entries") /\ snap[t] = Empty
    PROVE  AbstractView' = AbstractView
<1>1. Empty' = Empty
  BY DEF Empty
<1>2. \A u \in Threads : (IF Working(u, "snapshot_entries")' THEN Empty ELSE snap'[u])
                       = (IF Working(u, "snapshot_entries") THEN Empty ELSE snap[u])
  BY DEF Working, Op
<1> QED
  BY <1>1, <1>2 DEF AbstractView

\* A keyed call other than SET and MSET acts on the map where it acts on the
\* entries: on its key.
LEMMA KeyedPlain ==
    ASSUME MapInv, NEW t \in Threads, Keyed(t), Op(t) \notin {"set", "mset"},
           NEW k, k = Key(t)
    PROVE  /\ k \in Keys
           /\ AbstractStore[k] = Stored(k)
           /\ AbstractStore' = [AbstractStore EXCEPT ![k] = Stored(k)']
           /\ AbstractView' = AbstractView /\ clock' = clock
<1>0. Inv /\ entries \in [Keys -> ValueEntry \cup {NoEntry}]
  BY DEF MapInv, Inv, TypeOK
<1>1. /\ th[t].pc = "work" /\ Op(t) \in KeyOps /\ Op(t) # "snapshot_entries"
      /\ th'[t].pc \in {"idle", "check"} \/ th'[t].req = th[t].req
  BY <1>0, KeyedMoves DEF KeyOps, SingleKeyOps
<1>2. k \in Keys /\ CanLock(t, shard_index[k])
  BY <1>1, OwnKey
<1>3. \A u \in Threads \ {t} : th'[u] = th[u]
  BY <1>0, OthersStay DEF Step
<1>4. snap' = snap /\ clock' = clock
  BY <1>0, KeyedStep
<1>5. \A j \in Keys \ {k} : entries'[j] = entries[j]
  <2>1. UNCHANGED engine \/ Erase(k) \/ \E v, e : Store(k, v, e)
    BY <1>2 DEF Keyed, PurgeExpired, Set, Mset, Get, Ttl, Mget, Del, ExpireAt, Persist,
         Increment, AppendTo, Lookup, Miss, Lapse, Hit
  <2> QED
    BY <1>0, <2>1 DEF Erase, Store
<1>6. \A j \in Keys : ToWrite(t, j) = {} /\ ToWrite(t, j)' = {}
  BY <1>1, Zenon DEF ToWrite, Working, Op
<1>7. ~Working(t, "snapshot_entries") /\ ~Working(t, "snapshot_entries")'
  BY <1>1 DEF Working, Op
<1>8. AbstractView' = AbstractView
  BY <1>3, <1>4, <1>7, ViewStays
<1>9. {k} \in SUBSET Keys /\ \A j \in {k} : CanLock(t, shard_index[j])
  BY <1>2
<1>10. /\ \A j \in {k} : AbstractStore[j] = Stored(j)
       /\ AbstractStore' = [j \in Keys |-> IF j \in {k} THEN Stored(j)' ELSE AbstractStore[j]]
  BY <1>3, <1>5, <1>6, <1>9, PlainStep, Zenon
<1>11. AbstractStore' = [AbstractStore EXCEPT ![k] = Stored(k)']
  BY <1>10 DEF AbstractStore
<1> QED
  BY <1>2, <1>4, <1>8, <1>10, <1>11, Zenon

\* What is stored under a key that is present.
LEMMA StoredPresent ==
    ASSUME Inv, NEW k \in Present
    PROVE  /\ Stored(k) = [value |-> entries[k].value, expires_at |-> entries[k].expires_at]
           /\ entries[k].value \in Values /\ entries[k].expires_at \in Expiries
           /\ Stored(k) # NoEntry
<1>1. entries[k] \in ValueEntry
  BY DEF Inv, TypeOK, Present
<1>2. Stored(k) = [value |-> entries[k].value, expires_at |-> entries[k].expires_at]
  BY DEF Stored
<1>3. Stored(k) \in SnapshotEntry
  BY <1>1, <1>2 DEF ValueEntry, SnapshotEntry
<1> QED
  BY <1>1, <1>2, <1>3, ValueAssumption, Zenon DEF ValueEntry

\* Erasing leaves nothing stored,
LEMMA StoredErase == ASSUME Inv, NEW k \in Keys, Erase(k) PROVE Stored(k)' = NoEntry
  BY DEF Erase, Stored, Present, Inv, TypeOK

\* and storing leaves what was given.
LEMMA StoredStore ==
    ASSUME Inv, NEW k \in Keys, NEW v \in Values, NEW e \in Expiries, Store(k, v, e)
    PROVE  Stored(k)' = [value |-> v, expires_at |-> e]
<1>1. entries'[k] = [value |-> v, expires_at |-> e, last_access_sequence |-> access_sequence_ + 1]
  BY DEF Store, Inv, TypeOK
<1>2. entries'[k] \in ValueEntry
  BY <1>1, SMTT(30) DEF ValueEntry, Inv, TypeOK
<1>3. k \in Present'
  BY <1>2, ValueAssumption DEF Present
<1> QED
  BY <1>1, <1>3 DEF Stored

\* Every keyed call other than SET and MSET is, at each step, one operation
\* on its key in the map or none.
LEMMA KeyedAllowed ==
    ASSUME MapInv, NEW t \in Threads, Keyed(t), Op(t) \notin {"set", "mset"}
    PROVE  Allowed
<1>0. Inv /\ th[t].pc = "work" /\ Op(t) \in KeyOps
  BY KeyedMoves DEF MapInv
<1>k. PICK k : k = Key(t)
  OBVIOUS
<1>1. /\ k \in Keys
      /\ AbstractStore[k] = Stored(k)
      /\ AbstractStore' = [AbstractStore EXCEPT ![k] = Stored(k)']
      /\ AbstractView' = AbstractView /\ clock' = clock
  BY <1>k, KeyedPlain
<1>2. CASE Stored(k)' = Stored(k)
  <2>1. AbstractStore' = AbstractStore
    BY <1>1, <1>2, Zenon DEF AbstractStore
  <2> QED
    BY <1>1, <2>1 DEF Allowed, Store_!abstract
<1>3. CASE Erase(k)
  <2>1. Stored(k)' = NoEntry
    BY <1>0, <1>1, <1>3, StoredErase
  <2>2. Store_!Remove(k)
    BY <1>1, <2>1 DEF Store_!Remove
  <2> QED
    BY <1>1, <2>2 DEF Allowed, Store_!Next
<1>4. CASE UNCHANGED engine
  BY <1>2, <1>4 DEF Stored, Present
<1>5. CASE Hit(t)
  <2>1. k \in Present /\ Store(k, entries[k].value, entries[k].expires_at)
    BY <1>k, <1>5 DEF Hit, Live
  <2>2. Stored(k)' = Stored(k)
    BY <1>0, <1>1, <2>1, StoredPresent, StoredStore
  <2> QED
    BY <1>2, <2>2
<1>6. ASSUME k \in Present,
             NEW e \in {r.args[1] : r \in {q \in Requests : q.op = "expire_at"}} \cup {NoExpiry},
             e \in Expiries, Store(k, entries[k].value, e)
      PROVE  Allowed
  <2>1. Stored(k)' = [Stored(k) EXCEPT !.expires_at = e] /\ Stored(k) # NoEntry
    BY <1>0, <1>1, <1>6, StoredPresent, StoredStore
  <2>2. AbstractStore' = [AbstractStore EXCEPT ![k].expires_at = e]
    BY <1>1, <2>1
  <2>3. Store_!SetExpiry(k)
    BY <1>1, <2>2, ZenonT(40) DEF Store_!SetExpiry
  <2> QED
    BY <1>1, <2>1, <2>3 DEF Allowed, Store_!Next
<1>7. ASSUME NEW v \in Values, Store(k, v, KeptExpiry(t)),
             v = Text \/ (Current(t) # Text /\ v \in {Current(t) + d : d \in {-1, 1}})
      PROVE  Allowed
  <2>1. CASE k \in Present
    <3>1. KeptExpiry(t) = entries[k].expires_at /\ Current(t) = entries[k].value
      BY <1>k, <2>1 DEF KeptExpiry, Current
    <3>2. /\ Stored(k)' = [Stored(k) EXCEPT !.value = v] /\ Stored(k) # NoEntry
          /\ Stored(k).value = Current(t)
      BY <1>0, <1>1, <1>7, <2>1, <3>1, StoredPresent, StoredStore
    <3>3. AbstractStore' = [AbstractStore EXCEPT ![k].value = v] /\ AbstractStore[k].value = Current(t)
      BY <1>1, <3>2
    <3>4. v = Text \/ v \in MinLongLong .. MaxLongLong
      BY DEF Values
    <3>5. Store_!Edit(k)
      BY <1>1, <1>7, <3>3, <3>4, ZenonT(40) DEF Store_!Edit
    <3> QED
      BY <1>1, <3>2, <3>5 DEF Allowed, Store_!Next
  <2>2. CASE k \notin Present
    <3>1. KeptExpiry(t) = NoExpiry /\ Current(t) = 0 /\ NoExpiry \in Expiries
      BY <1>k, <2>2 DEF KeptExpiry, Current, Expiries
    <3>2. Stored(k)' = [value |-> v, expires_at |-> NoExpiry] /\ Stored(k) = NoEntry
      BY <1>0, <1>1, <1>7, <2>2, <3>1, StoredStore, Zenon DEF Stored
    <3>3. v \in {-1, 1, Text}
      BY <1>7, <3>1
    <3>4. Store_!Create(k)
      BY <1>1, <3>2, <3>3, ZenonT(40) DEF Store_!Create
    <3> QED
      BY <1>1, <3>4 DEF Allowed, Store_!Next
  <2> QED
    BY <2>1, <2>2
<1>8. CASE PurgeExpired(t)
  BY <1>k, <1>3, <1>8 DEF PurgeExpired
<1>9. CASE Get(t) \/ Ttl(t) \/ Mget(t) \/ Del(t)
  BY <1>k, <1>3, <1>4, <1>5, <1>9 DEF Get, Ttl, Mget, Del, Lookup, Miss, Lapse
<1>10. CASE ExpireAt(t)
  <2>1. CASE Live(t) /\ Arg(t) > th[t].now /\ Store(Key(t), entries[Key(t)].value, Arg(t))
    <3>1. /\ th[t].req \in Requests /\ th[t].req.op = "expire_at"
          /\ th[t].at \in 1 .. Len(th[t].req.keys)
      BY <1>0, <1>10, ZenonT(40) DEF ExpireAt, Working, Inv, CallsOK, CallOK, Op
    <3>2. Len(th[t].req.keys) = 1
      BY <3>1, RequestAssumption DEF WellFormed, SingleKeyOps
    <3>3. Arg(t) = th[t].req.args[1]
      BY <3>1, <3>2 DEF Arg
    <3>4. Arg(t) \in {r.args[1] : r \in {q \in Requests : q.op = "expire_at"}}
      BY <3>1, <3>3
    <3>5. Arg(t) \in Expiries
      BY <1>0, <3>1, KeyTyped DEF Expiries, Op
    <3> QED
      BY <1>k, <1>6, <2>1, <3>4, <3>5, Zenon DEF Live
  <2> QED
    BY <1>k, <1>3, <1>4, <1>10, <2>1, Zenon DEF ExpireAt, Miss
<1>11. CASE Persist(t)
  BY <1>k, <1>3, <1>4, <1>6, <1>11, Zenon DEF Persist, Miss, Lapse, Live, Expiries
<1>12. CASE Increment(t)
  <2>1. CASE /\ Current(t) # Text /\ ~Overflows(Current(t), Arg(t))
             /\ Store(Key(t), Current(t) + Arg(t), KeptExpiry(t))
    <3>1. Arg(t) \in {-1, 1}
      BY <1>0, <1>12, KeyTyped, Zenon DEF Increment, Working
    <3>2. Current(t) \in Values
      BY <1>0, <1>k, StoredPresent, ValueAssumption, SMTT(30) DEF Current, Values
    <3>3. Current(t) + Arg(t) \in Values
      BY <2>1, <3>1, <3>2, ValueAssumption DEF Values, Overflows
    <3> QED
      BY <1>k, <1>7, <2>1, <3>1, <3>3, Zenon
  <2> QED
    BY <1>4, <1>12, <2>1 DEF Increment
<1>13. CASE AppendTo(t)
  BY <1>k, <1>7, <1>13, Zenon DEF AppendTo, Values
<1> QED
  BY <1>8, <1>9, <1>10, <1>11, <1>12, <1>13 DEF Keyed, Set, Mset, Working

\* A SET or MSET at work: what it is still to write under a key.
LEMMA WriterFacts ==
    ASSUME MapInv, NEW t \in Threads, Working(t, "set") \/ Working(t, "mset"), NEW k \in Keys
    PROVE  /\ Len(th[t].req.keys) \in Nat
           /\ th[t].at \in 1 .. Len(th[t].req.keys)
           /\ ToWrite(t, k) = {i \in th[t].at .. Len(th[t].req.keys) : th[t].req.keys[i] = k}
           /\ ToWrite(t, k) \in SUBSET (1 .. Len(th[t].req.keys))
           /\ k = Key(t) => th[t].at \in ToWrite(t, k)
<1>1. th[t].req \in Requests /\ th[t].at \in 1 .. Len(th[t].req.keys)
  BY DEF MapInv, Inv, CallsOK, CallOK, Working, Op, KeyOps, SingleKeyOps
<1>2. Len(th[t].req.keys) \in Nat
  BY <1>1, RequestAssumption DEF WellFormed
<1>3. ToWrite(t, k) = {i \in th[t].at .. Len(th[t].req.keys) : th[t].req.keys[i] = k}
  BY DEF ToWrite
<1> QED
  BY <1>1, <1>2, <1>3 DEF Key

\* Erasing an expired entry that is about to be overwritten is no operation.
LEMMA PurgeAllowed ==
    ASSUME MapInv, NEW t \in Threads, PurgeExpired(t), Op(t) \in {"set", "mset"}
    PROVE  Allowed
<1>0. Inv /\ entries \in [Keys -> ValueEntry \cup {NoEntry}] /\ th[t].pc = "work"
  BY DEF MapInv, Inv, TypeOK, PurgeExpired
<1>1. PICK k \in Keys : k = Key(t) /\ CanLock(t, shard_index[k])
  BY <1>0, OwnKey DEF KeyOps, SingleKeyOps
<1>2. /\ th' = th /\ snap' = snap /\ clock' = clock
      /\ \A j \in Keys \ {k} : entries'[j] = entries[j]
  BY <1>0, <1>1 DEF PurgeExpired, Erase
<1>3. \A u \in Threads, j \in Keys : ToWrite(u, j)' = ToWrite(u, j) /\ Pending(u, j)' = Pending(u, j)
  BY <1>2, Zenon DEF ToWrite, Pending, Working, Op
<1>4. AbstractEntry(k)' = AbstractEntry(k)
  <2>1. ToWrite(t, k) # {}
    BY <1>0, <1>1, WriterFacts, Zenon DEF Working
  <2>2. \A u \in Threads \ {t} : ToWrite(u, k) = {} /\ th'[u] = th[u]
    BY <1>1, <1>2, NoOtherWriter, Zenon
  <2>3. AbstractEntry(k) = Pending(t, k) /\ AbstractEntry(k)' = Pending(t, k)'
    BY <1>3, <2>1, <2>2, OwnEntry, Zenon
  <2> QED
    BY <1>3, <2>3, Zenon
<1>5. ASSUME NEW j \in Keys \ {k} PROVE AbstractEntry(j)' = AbstractEntry(j)
  <2>1. Stored(j)' = Stored(j)
    BY <1>2 DEF Stored, Present
  <2>2. Writers(j)' = Writers(j)
    BY <1>3 DEF Writers
  <2>3. CASE Writers(j) = {}
    BY <2>1, <2>2, <2>3 DEF AbstractEntry
  <2>4. CASE Writers(j) # {}
    <3>1. PICK w \in Writers(j) : w = CHOOSE u \in Writers(j) : TRUE
      BY <2>4
    <3>2. AbstractEntry(j) = Pending(w, j) /\ AbstractEntry(j)' = Pending(w, j)'
      BY <2>2, <2>4, <3>1 DEF AbstractEntry
    <3> QED
      BY <1>3, <3>1, <3>2 DEF Writers
  <2> QED
    BY <2>3, <2>4
<1>6. AbstractStore' = AbstractStore
  BY <1>4, <1>5 DEF AbstractStore
<1>7. AbstractView' = AbstractView
  BY <1>2 DEF AbstractView, Working, Op, Empty
<1> QED
  BY <1>2, <1>6, <1>7 DEF Allowed, Store_!abstract

\* Writing a pair that already counts as written is no operation.
LEMMA PairAllowed ==
    ASSUME MapInv, NEW t \in Threads, Set(t) \/ Mset(t)
    PROVE  Allowed
<1>0. /\ Inv /\ entries \in [Keys -> ValueEntry \cup {NoEntry}] /\ th \in [Threads -> Frame]
      /\ th[t] \in Frame /\ th[t].pc = "work" /\ Op(t) \in {"set", "mset"} /\ Op(t) \in KeyOps
      /\ Working(t, "set") \/ Working(t, "mset")
  BY DEF MapInv, Inv, TypeOK, Set, Mset, Working, KeyOps, SingleKeyOps
<1>1. PICK k \in Keys : k = Key(t) /\ CanLock(t, shard_index[k])
  BY <1>0, OwnKey
<1>2. /\ snap' = snap /\ clock' = clock /\ Store(k, Arg(t), NoExpiry)
      /\ \A u \in Threads \ {t} : th'[u] = th[u]
  BY <1>0, <1>1, OthersStay DEF Set, Mset, Step, Keyed
<1>3. Arg(t) \in Values /\ NoExpiry \in Expiries
  BY <1>0, KeyTyped DEF Expiries
<1>4. Stored(k)' = [value |-> Arg(t), expires_at |-> NoExpiry]
  BY <1>0, <1>2, <1>3, StoredStore, Zenon
<1>5. \A j \in Keys \ {k} : entries'[j] = entries[j]
  BY <1>0, <1>2, Zenon DEF Store
<1>6. Len(th[t].req.keys) \in Nat /\ th[t].at \in 1 .. Len(th[t].req.keys)
  BY <1>0, <1>1, WriterFacts, Zenon
<1>7. ASSUME Set(t) PROVE OnLastKey(t)
  <2>1. th[t].req \in Requests /\ th[t].req.op = "set"
    BY <1>0, <1>7, ZenonT(40) DEF Set, Working, Op, Inv, CallsOK, CallOK
  <2>2. Len(th[t].req.keys) = 1
    BY <2>1, RequestAssumption DEF WellFormed, SingleKeyOps
  <2>3. th[t].at = 1
    BY <1>6, <2>2
  <2> QED
    BY <2>2, <2>3, Zenon DEF OnLastKey
<1>8. \/ /\ OnLastKey(t) /\ th'[t].pc = "check"
      \/ /\ ~OnLastKey(t) /\ th'[t].pc = "work" /\ th'[t].req = th[t].req
         /\ th'[t].at = th[t].at + 1
  BY <1>0, <1>7, ZenonT(40) DEF Set, Mset, UnlockAndEnforce, Become, Frame
<1>9. ASSUME NEW j \in Keys PROVE ToWrite(t, j)' = ToWrite(t, j) \ {th[t].at}
  <2>1. ToWrite(t, j) = {i \in th[t].at .. Len(th[t].req.keys) : th[t].req.keys[i] = j}
    BY <1>0, WriterFacts, Zenon
  <2>2. CASE OnLastKey(t)
    <3>1. ToWrite(t, j)' = {}
      BY <1>8, <2>2, Zenon DEF ToWrite, Working
    <3>2. ToWrite(t, j) \ {th[t].at} = {}
      BY <1>6, <2>1, <2>2, SMTT(30) DEF OnLastKey
    <3> QED
      BY <3>1, <3>2
  <2>3. CASE ~OnLastKey(t)
    <3>1. ToWrite(t, j)' = {i \in th[t].at + 1 .. Len(th[t].req.keys) : th[t].req.keys[i] = j}
      BY <1>0, <1>8, <2>3, Zenon DEF ToWrite, Working, Op
    <3> QED
      BY <1>6, <2>1, <3>1
  <2> QED
    BY <2>2, <2>3
<1>10. ~OnLastKey(t) => th'[t].req = th[t].req
  BY <1>8, Zenon
<1>11. AbstractEntry(k)' = AbstractEntry(k)
  <2>1. /\ ToWrite(t, k) \in SUBSET (1 .. Len(th[t].req.keys)) /\ th[t].at \in ToWrite(t, k)
        /\ \A i \in ToWrite(t, k) : th[t].at <= i
    BY <1>0, <1>1, <1>6, WriterFacts, SMTT(30)
  <2>2. /\ AbstractEntry(k) = Pending(t, k)
        /\ AbstractEntry(k)' = IF ToWrite(t, k)' = {} THEN Stored(k)' ELSE Pending(t, k)'
    <3>1. \A u \in Threads \ {t} : ToWrite(u, k) = {} /\ th'[u] = th[u]
      BY <1>1, <1>2, NoOtherWriter, Zenon
    <3> QED
      BY <2>1, <3>1, OwnEntry, Zenon
  <2>3. CASE ToWrite(t, k)' = {}
    <3>1. ToWrite(t, k) = {th[t].at}
      BY <1>9, <2>1, <2>3, Zenon
    <3>2. Last(ToWrite(t, k)) = th[t].at
      BY <1>6, <3>1, SMTT(30) DEF Last
    <3> QED
      BY <1>4, <2>2, <2>3, <3>2, ZenonT(40) DEF Pending, Arg
  <2>4. CASE ToWrite(t, k)' # {}
    <3>1. ~OnLastKey(t)
      BY <1>8, <2>4 DEF ToWrite, Working
    <3>2. Last(ToWrite(t, k))' = Last(ToWrite(t, k))
      <4>1. Last(ToWrite(t, k)') = Last(ToWrite(t, k))
        BY <1>6, <1>9, <2>1, <2>4, LastStays, ZenonT(40)
      <4> QED
        BY <4>1 DEF Last
    <3>3. Pending(t, k)' = Pending(t, k)
      BY <1>10, <3>1, <3>2, Zenon DEF Pending
    <3> QED
      BY <2>2, <2>4, <3>3
  <2> QED
    BY <2>3, <2>4
<1>12. ASSUME NEW j \in Keys \ {k} PROVE AbstractEntry(j)' = AbstractEntry(j)
  <2>1. ToWrite(t, j)' = ToWrite(t, j)
    <3>1. ToWrite(t, j) = {i \in th[t].at .. Len(th[t].req.keys) : th[t].req.keys[i] = j}
      BY <1>0, WriterFacts, Zenon
    <3>2. th[t].req.keys[th[t].at] # j
      BY <1>1, Zenon DEF Key
    <3> QED
      BY <1>9, <3>1, <3>2
  <2>2. CASE ToWrite(t, j) = {}
    BY <1>2, <1>5, <2>1, <2>2, SameEntry, Zenon
  <2>3. CASE ToWrite(t, j) # {}
    <3>1. ~OnLastKey(t)
      BY <1>8, <2>1, <2>3, Zenon DEF ToWrite, Working
    <3>2. Pending(t, j)' = Pending(t, j)
      BY <1>10, <2>1, <3>1, Zenon DEF Pending
    <3>3. PICK i \in ToWrite(t, j) : TRUE
      BY <2>3
    <3>4. /\ i \in 1 .. Len(th[t].req.keys) /\ th[t].req.keys[i] = j
          /\ th[t].req.op = "mset"
      BY <1>0, <1>7, <3>1, <3>3, WriterFacts DEF Set, Mset, Working, Op
    <3>5. shard_index[j] \in th[t].held
      <4>1. shard_index[j] \in LocksOf(th[t])
        BY <3>4 DEF LocksOf
      <4> QED
        BY <1>0, <4>1, ZenonT(40) DEF MapInv, LocksOK, LockOK
    <3>6. CanLock(t, shard_index[j])
      BY <1>0, <3>5, Alone, Zenon
    <3>7. \A u \in Threads \ {t} : ToWrite(u, j) = {} /\ th'[u] = th[u]
      BY <1>2, <3>6, NoOtherWriter, Zenon
    <3>8. AbstractEntry(j) = Pending(t, j) /\ AbstractEntry(j)' = Pending(t, j)'
      BY <2>1, <2>3, <3>7, OwnEntry, Zenon
    <3> QED
      BY <3>2, <3>8, Zenon
  <2> QED
    BY <2>2, <2>3
<1>13. AbstractStore' = AbstractStore
  BY <1>11, <1>12 DEF AbstractStore
<1>14. ~Working(t, "snapshot_entries") /\ ~Working(t, "snapshot_entries")'
  BY <1>0, <1>8, Zenon DEF Working, Op
<1>15. AbstractView' = AbstractView
  BY <1>2, <1>14, ViewStays, Zenon
<1> QED
  BY <1>2, <1>13, <1>15 DEF Allowed, Store_!abstract

\* Taking the last mutex of a SET or MSET writes the whole batch; taking any
\* other mutex is no operation.
LEMMA AcquireAllowed == ASSUME MapInv, NEW t \in Threads, Acquire(t) PROVE Allowed
<1>0. /\ Inv /\ th[t] \in Frame /\ th \in [Threads -> Frame] /\ th[t].pc = "acquire"
      /\ th[t].req \in Requests /\ WellFormed(th[t].req)
      /\ snap' = snap /\ clock' = clock /\ entries' = entries
  BY RequestAssumption DEF MapInv, Inv, TypeOK, CallsOK, CallOK, Acquire
<1>1. /\ th'[t].req = th[t].req /\ th'[t].at = th[t].at
      /\ \A u \in Threads \ {t} : th'[u] = th[u]
  BY <1>0 DEF Acquire, Become, Frame
<1>2. AbstractView' = AbstractView
  <2>1. ~Working(t, "snapshot_entries")
    BY <1>0 DEF Working
  <2>2. Op(t) = "snapshot_entries" => snap[t] = Empty
    BY <1>0, Zenon DEF MapInv, SnapsOK, Collected
  <2>3. Working(t, "snapshot_entries")' => snap[t] = Empty
    BY <1>1, <2>2 DEF Working, Op
  <2> QED
    BY <1>0, <1>1, <2>1, <2>3, ViewStays
<1>3. \A k \in Keys : ToWrite(t, k) = {}
  BY <1>0 DEF ToWrite, Working
<1>4. CASE th'[t].pc = "work" /\ Op(t) \in {"set", "mset"}
  <2> DEFINE r == th[t].req
             b == Batch(r)
             K == {r.keys[i] : i \in 1 .. Len(r.keys)}
  <2>1. ASSUME NEW k \in Keys PROVE ToWrite(t, k)' = PositionsOf(r, k)
    <3>1. th[t].at = 1
      BY <1>0, <1>4 DEF MapInv, LocksOK, LockOK, Op
    <3> QED
      BY <1>1, <1>4, <3>1 DEF ToWrite, PositionsOf, Working, Op
  <2>2. ASSUME NEW k \in K
        PROVE  /\ k \in Keys /\ PositionsOf(r, k) # {}
               /\ AbstractEntry(k)' = [value |-> b[k], expires_at |-> NoExpiry]
    <3>1. PICK i \in 1 .. Len(r.keys) : k = r.keys[i]
      OBVIOUS
    <3>2. k \in Keys /\ i \in PositionsOf(r, k)
      BY <1>0, <3>1, SMTT(30) DEF WellFormed, PositionsOf
    <3>3. shard_index[k] \in LockSet(t)
      <4>1. CASE Op(t) = "mset"
        BY <3>1, <4>1 DEF LockSet
      <4>2. CASE Op(t) = "set"
        <5>1. Len(r.keys) = 1 /\ th[t].at = 1
          BY <1>0, <1>4, <4>2, Zenon DEF WellFormed, SingleKeyOps, MapInv, LocksOK, LockOK, Op
        <5>2. i = 1
          BY <3>1, <5>1
        <5> QED
          BY <3>1, <4>2, <5>1, <5>2 DEF LockSet, Key
      <4> QED
        BY <1>4, <4>1, <4>2, Zenon
    <3>4. CanLock(t, shard_index[k])
      <4>1. PICK s : /\ CanLock(t, s)
                     /\ th'[t].pc = IF LockSet(t) \subseteq th[t].held \cup {s} THEN "work" ELSE "acquire"
        BY <1>0, <1>4 DEF Acquire, Become, Frame
      <4>2. shard_index[k] \in th[t].held \cup {s}
        BY <1>4, <3>3, <4>1
      <4> QED
        BY <1>4, <4>1, <4>2, Alone, Zenon
    <3>5. AbstractEntry(k)' = Pending(t, k)'
      <4>1. \A u \in Threads \ {t} : ToWrite(u, k) = {} /\ th'[u] = th[u]
        BY <1>1, <3>2, <3>4, NoOtherWriter, Zenon
      <4>2. ToWrite(t, k)' # {}
        BY <2>1, <3>2, Zenon
      <4> QED
        BY <3>2, <4>1, <4>2, OwnEntry, Zenon
    <3>6. Pending(t, k)' = [value |-> r.args[Last(PositionsOf(r, k))], expires_at |-> NoExpiry]
      BY <1>1, <2>1, <3>2, ZenonT(40) DEF Pending, Last
    <3> QED
      BY <3>2, <3>5, <3>6, Zenon DEF Batch
  <2>3. ASSUME NEW k \in Keys \ K PROVE AbstractEntry(k)' = AbstractEntry(k)
    <3>1. PositionsOf(r, k) = {}
      BY DEF PositionsOf
    <3> QED
      BY <1>0, <1>1, <1>3, <2>1, <3>1, SameEntry, Zenon
  <2>4. DOMAIN b = K
    BY DEF Batch
  <2>5. AbstractStore' = [k \in Keys |-> IF k \in DOMAIN b
                                         THEN [value |-> b[k], expires_at |-> NoExpiry]
                                         ELSE AbstractStore[k]]
    <3> HIDE DEF b, K
    <3> QED
      BY <2>2, <2>3, <2>4 DEF AbstractStore
  <2>6. Store_!Write(b)
    BY <1>0, <1>2, <2>5, Zenon DEF Store_!Write
  <2>7. b \in {Batch(q) : q \in {p \in Requests : p.op \in {"set", "mset"}}}
    BY <1>0, <1>4 DEF Op
  <2> HIDE DEF b
  <2> QED
    BY <2>6, <2>7 DEF Allowed, Store_!Next
<1>5. CASE ~(th'[t].pc = "work" /\ Op(t) \in {"set", "mset"})
  <2>1. \A k \in Keys : ToWrite(t, k)' = {}
    BY <1>1, <1>5 DEF ToWrite, Working, Op
  <2>2. \A k \in Keys : AbstractEntry(k)' = AbstractEntry(k)
    BY <1>0, <1>1, <1>3, <2>1, SameEntry, ZenonT(40)
  <2>3. AbstractStore' = AbstractStore
    BY <2>2 DEF AbstractStore
  <2> QED
    BY <1>0, <1>2, <2>3 DEF Allowed, Store_!abstract
<1> QED
  BY <1>4, <1>5

\* Beginning a call drops the view the thread's last snapshot captured.
LEMMA CallAllowed ==
    ASSUME MapInv, NEW t \in Threads, NEW r \in Requests, Call(t, r)
    PROVE  Allowed
<1>0. /\ Inv /\ th[t] \in Frame /\ th \in [Threads -> Frame] /\ th[t].pc = "idle"
      /\ snap \in [Threads -> [Keys -> SnapshotEntry \cup {NoEntry}]]
      /\ clock' = clock /\ entries' = entries
  BY DEF MapInv, Inv, TypeOK, Call
<1>1. th'[t].pc # "work" /\ \A u \in Threads \ {t} : th'[u] = th[u]
  BY <1>0 DEF Call, Become, Frame, FirstPc
<1>2. \A k \in Keys : ToWrite(t, k) = {} /\ ToWrite(t, k)' = {}
  BY <1>0, <1>1, Zenon DEF ToWrite, Working
<1>3. \A k \in Keys : AbstractEntry(k)' = AbstractEntry(k)
  BY <1>0, <1>1, <1>2, SameEntry, Zenon
<1>4. AbstractStore' = AbstractStore
  BY <1>3 DEF AbstractStore
<1>5. AbstractView' = [AbstractView EXCEPT ![t] = Empty]
  <2>1. snap'[t] = Empty /\ \A u \in Threads \ {t} : snap'[u] = snap[u]
    BY <1>0 DEF Call
  <2>2. ~Working(t, "snapshot_entries")'
    BY <1>1 DEF Working
  <2>3. \A u \in Threads \ {t} : Working(u, "snapshot_entries")' = Working(u, "snapshot_entries")
    BY <1>1 DEF Working, Op
  <2>4. Empty' = Empty
    BY DEF Empty
  <2> QED
    BY <2>1, <2>2, <2>3, <2>4, Zenon DEF AbstractView
<1>6. Store_!Forget(t)
  BY <1>0, <1>4, <1>5 DEF Store_!Forget, Store_!Nothing, Empty
<1> QED
  BY <1>6 DEF Allowed, Store_!Next

\* The last shard of a snapshot captures the whole map at that instant.
LEMMA SnapshotAllowed ==
    ASSUME MapInv, NEW t \in Threads, SnapshotShard(t)
    PROVE  Allowed
<1>0. /\ Inv /\ th[t] \in Frame /\ th \in [Threads -> Frame]
      /\ snap \in [Threads -> [Keys -> SnapshotEntry \cup {NoEntry}]]
      /\ clock \in Nat /\ clock' = clock /\ entries' = entries
  BY DEF MapInv, Inv, TypeOK, SnapshotShard
<1>w. th[t].pc = "work" /\ Op(t) = "snapshot_entries" /\ Working(t, "snapshot_entries")
  BY DEF SnapshotShard, Working
<1>n. th[t].now \in 0 .. clock
  BY <1>0 DEF MapInv, TimesOK, Frame
<1>1. \A u \in Threads \ {t} : th'[u] = th[u] /\ snap'[u] = snap[u]
  BY <1>0, OthersStay, Zenon DEF Step, SnapshotShard
<1>2. th'[t].pc = "idle" \/ th'[t].req = th[t].req
  BY <1>0, <1>w DEF SnapshotShard, Return, Become, Idle, Frame
<1>3. \A k \in Keys : ToWrite(t, k) = {} /\ ToWrite(t, k)' = {}
  BY <1>0, <1>w, <1>2 DEF ToWrite, Working, Op
<1>4. \A k \in Keys : AbstractEntry(k)' = AbstractEntry(k)
  BY <1>0, <1>w, <1>1, <1>3, SameEntry, Zenon
<1>5. AbstractStore' = AbstractStore
  BY <1>4 DEF AbstractStore
<1>6. CASE th[t].at # ShardCount - 1
  <2>1. Working(t, "snapshot_entries")'
    BY <1>0, <1>w, <1>6, ZenonT(40) DEF SnapshotShard, Become, Frame, Working, Op
  <2>2. AbstractView' = AbstractView
    BY <1>0, <1>w, <1>1, <2>1, ViewStays, Zenon
  <2> QED
    BY <1>0, <1>5, <2>2 DEF Allowed, Store_!abstract
<1>7. CASE th[t].at = ShardCount - 1
  <2>1. ~Working(t, "snapshot_entries")'
    BY <1>0, <1>7 DEF SnapshotShard, Return, Become, Idle, Working
  <2>2. ASSUME NEW k \in Keys PROVE snap'[t][k] = Seen(k, th[t].now)
    <3>1. shard_index[k] <= th[t].at
      BY <1>7, ShardAssumption DEF Shards
    <3> QED
      BY <3>1, ShardCollected
  <2>3. ASSUME NEW k \in Keys PROVE AbstractStore[k] = Stored(k)
    <3>1. \A u \in Threads : ToWrite(u, k) = {}
      <4>1. ASSUME NEW u \in Threads \ {t}, Working(u, "set") \/ Working(u, "mset") PROVE FALSE
        <5>1. Shards \subseteq th[t].held
          BY <1>0, <1>w, ZenonT(40) DEF MapInv, LocksOK, LockOK, LocksOf, Op
        <5>2. CanLock(u, shard_index[Key(u)]) /\ Key(u) \in Keys
          BY <4>1, OwnKey, Zenon DEF Working, KeyOps, SingleKeyOps
        <5> QED
          BY <5>1, <5>2, ShardAssumption DEF CanLock
      <4> QED
        BY <1>3, <4>1, SMTT(30) DEF ToWrite
    <3> QED
      BY <3>1 DEF AbstractStore, AbstractEntry, Writers
  <2>4. ASSUME NEW k \in Keys
        PROVE  Seen(k, th[t].now) = IF Store_!IsExpired(k, th[t].now) THEN NoEntry ELSE AbstractStore[k]
    <3>1. Expired(k, th[t].now) <=> Store_!IsExpired(k, th[t].now)
      <4>1. CASE k \in Present
        BY <1>0, <2>3, <4>1, StoredPresent, SMTT(30) DEF Expired, is_expired, Store_!IsExpired
      <4>2. CASE k \notin Present
        BY <2>3, <4>2, Zenon DEF Expired, Stored, Store_!IsExpired
      <4> QED
        BY <4>1, <4>2
    <3> QED
      BY <2>3, <3>1 DEF Seen
  <2>5. snap'[t] = [k \in Keys |-> IF Store_!IsExpired(k, th[t].now) THEN NoEntry ELSE AbstractStore[k]]
    <3>1. snap'[t] = [k \in Keys |-> snap'[t][k]]
      BY <1>0 DEF SnapshotShard
    <3> QED
      BY <2>2, <2>4, <3>1, Zenon
  <2>6. AbstractView' = [AbstractView EXCEPT ![t] = snap'[t]]
    <3>1. \A u \in Threads \ {t} : Working(u, "snapshot_entries")' = Working(u, "snapshot_entries")
      BY <1>1 DEF Working, Op
    <3>2. Empty' = Empty
      BY DEF Empty
    <3> QED
      BY <1>1, <2>1, <3>1, <3>2, Zenon DEF AbstractView
  <2>7. Store_!Capture(t)
    BY <1>0, <1>n, <1>5, <2>5, <2>6, ZenonT(40) DEF Store_!Capture
  <2> QED
    BY <2>7 DEF Allowed, Store_!Next
<1> QED
  BY <1>6, <1>7

\* flush clears the map, a sweep lets expired keys lapse, an eviction removes
\* one key; the other steps of sweeping and enforcing are no operation.
LEMMA QuietAllowed == ASSUME MapInv, NEW t \in Threads, Quiet(t) PROVE Allowed
<1>0. /\ Inv /\ entries \in [Keys -> ValueEntry \cup {NoEntry}] /\ th[t] \in Frame /\ CallOK(th[t])
      /\ th[t].now \in Nat /\ clock \in Nat /\ th[t].now <= clock
  BY Zenon DEF MapInv, Inv, TypeOK, CallsOK, Frame, TimesOK
<1>1. \A u \in Threads \ {t} : th'[u] = th[u]
  BY <1>0, OthersStay, Zenon DEF Step, Quiet
<1>2. /\ th'[t].pc \notin {"acquire", "work"}
      /\ th[t].pc = "work" => Working(t, "flush")
      /\ snap' = snap /\ clock' = clock
  BY <1>0, QuietMoves, ZenonT(40)
<1>3. \A k \in Keys : ToWrite(t, k) = {} /\ ToWrite(t, k)' = {}
  BY <1>2, Zenon DEF ToWrite, Working
<1>4. AbstractView' = AbstractView
  <2>1. ~Working(t, "snapshot_entries") /\ ~Working(t, "snapshot_entries")'
    BY <1>2 DEF Working
  <2> QED
    BY <1>1, <1>2, <2>1, ViewStays
<1>5. CASE Flush(t)
  <2>1. Keys \in SUBSET Keys /\ \A k \in Keys : CanLock(t, shard_index[k])
    BY <1>5, OwnAll, ShardAssumption DEF Flush
  <2>2. AbstractStore' = [k \in Keys |-> IF k \in Keys THEN Stored(k)' ELSE AbstractStore[k]]
    BY <1>1, <1>3, <2>1, PlainStep, Zenon
  <2>3. \A k \in Keys : Stored(k)' = NoEntry
    BY <1>5 DEF Flush, Empty, Stored, Present
  <2>4. AbstractStore' = [k \in Keys |-> NoEntry]
    BY <2>2, <2>3
  <2>5. Store_!Clear
    BY <1>2, <1>4, <2>4 DEF Store_!Clear, Store_!Nothing
  <2> QED
    BY <2>5 DEF Allowed, Store_!Next
<1>6. CASE SweepShard(t)
  <2>1. PICK K \in SUBSET Keys :
          /\ K = {k \in Keys : shard_index[k] = th[t].at /\ Expired(k, th[t].now)}
          /\ entries' = [k \in Keys |-> IF k \in K THEN NoEntry ELSE entries[k]]
    BY <1>6, ZenonT(40) DEF SweepShard
  <2>2. \A k \in K : CanLock(t, shard_index[k])
    BY <1>6, <2>1 DEF SweepShard
  <2>3. \A k \in Keys \ K : entries'[k] = entries[k]
    BY <2>1
  <2>4. /\ \A k \in K : AbstractStore[k] = Stored(k)
        /\ AbstractStore' = [k \in Keys |-> IF k \in K THEN Stored(k)' ELSE AbstractStore[k]]
    BY <1>1, <1>3, <2>2, <2>3, PlainStep, Zenon
  <2>5. \A k \in K : Stored(k)' = NoEntry
    BY <2>1 DEF Stored, Present
  <2>6. AbstractStore' = [k \in Keys |-> IF k \in K THEN NoEntry ELSE AbstractStore[k]]
    BY <2>4, <2>5
  <2>7. ASSUME NEW k \in K PROVE Store_!IsExpired(k, clock)
    <3>1. k \in Present /\ entries[k].expires_at # NoExpiry /\ entries[k].expires_at <= th[t].now
      BY <2>1, Zenon DEF Expired, is_expired
    <3>2. /\ AbstractStore[k] # NoEntry /\ AbstractStore[k].expires_at = entries[k].expires_at
          /\ entries[k].expires_at \in Nat
      BY <1>0, <2>4, <3>1, StoredPresent DEF Expiries
    <3> QED
      BY <1>0, <3>1, <3>2, SMTT(30) DEF Store_!IsExpired
  <2>8. Store_!Lapse(K)
    BY <1>2, <1>4, <2>6, <2>7, ZenonT(40) DEF Store_!Lapse
  <2> QED
    BY <2>8 DEF Allowed, Store_!Next
<1>7. CASE Evict(t) /\ th[t].victim \in Present
  <2>1. PICK k \in Keys : k = th[t].victim /\ Erase(k) /\ CanLock(t, shard_index[k])
    BY <1>0, <1>7 DEF Evict, Frame
  <2>2. /\ {k} \in SUBSET Keys /\ \A j \in {k} : CanLock(t, shard_index[j])
        /\ \A j \in Keys \ {k} : entries'[j] = entries[j]
    BY <1>0, <2>1, Zenon DEF Erase
  <2>3. AbstractStore' = [j \in Keys |-> IF j \in {k} THEN Stored(j)' ELSE AbstractStore[j]]
    BY <1>1, <1>3, <2>2, PlainStep, Zenon
  <2>4. Stored(k)' = NoEntry
    BY <1>0, <2>1, StoredErase, ZenonT(40)
  <2>5. AbstractStore' = [AbstractStore EXCEPT ![k] = NoEntry]
    BY <2>3, <2>4, ZenonT(40) DEF AbstractStore
  <2>6. Store_!Remove(k)
    BY <1>2, <1>4, <2>5 DEF Store_!Remove
  <2> QED
    BY <2>1, <2>6, Zenon DEF Allowed, Store_!Next
<1>8. CASE entries' = entries
  <2>1. \A k \in Keys : AbstractEntry(k)' = AbstractEntry(k)
    BY <1>1, <1>3, <1>8, SameEntry
  <2>2. AbstractStore' = AbstractStore
    BY <2>1 DEF AbstractStore
  <2> QED
    BY <1>2, <1>4, <2>2 DEF Allowed, Store_!abstract
<1> QED
  BY <1>5, <1>6, <1>7, <1>8, Zenon DEF Quiet, SweepSettle, TakeEvictedKeys, Enforce, EnforceCheck,
       LockEviction, StartScan, Scan, Evict, Report, LeaveEnforce

\* A step that leaves the entries, the frames and the snapshots alone is no
\* operation on the map, whatever else it does.
LEMMA StillMap ==
    ASSUME entries' = entries, th' = th, snap' = snap
    PROVE  AbstractStore' = AbstractStore /\ AbstractView' = AbstractView
<1>1. AbstractStore' = AbstractStore
  BY SMTT(30) DEF AbstractStore, AbstractEntry, Writers, Pending, ToWrite, Last, Stored, Present, Working, Op
<1>2. AbstractView' = AbstractView
  BY DEF AbstractView, Working, Op, Empty
<1> QED
  BY <1>1, <1>2

\* The empty store is the empty map.
LEMMA MapStarts == ASSUME Init PROVE Store_!Init
<1>1. \A t \in Threads : th[t].pc = "idle"
  BY DEF Init, Idle
<1>2. \A k \in Keys : Writers(k) = {} /\ Stored(k) = NoEntry
  BY <1>1 DEF Init, Writers, ToWrite, Working, Stored, Present, Empty
<1>3. AbstractStore = [k \in Keys |-> NoEntry]
  BY <1>2 DEF AbstractStore, AbstractEntry
<1>4. AbstractView = [t \in Threads |-> Empty]
  BY <1>1 DEF AbstractView, Init, Working
<1> QED
  BY <1>3, <1>4 DEF Init, Store_!Init, Store_!Nothing, Empty

\* Every step of the engine is one operation on the map or none.
LEMMA MapSteps == ASSUME MapInv, [Next]_vars PROVE Allowed
<1>1. CASE Tick
  <2>1. Store_!Tick
    BY <1>1, StillMap DEF Tick, Store_!Tick
  <2> QED
    BY <2>1 DEF Allowed, Store_!Next
<1>2. CASE UNCHANGED vars
  BY <1>2, StillMap DEF Allowed, Store_!abstract
<1>3. ASSUME NEW t \in Threads, NEW r \in Requests, Call(t, r) PROVE Allowed
  BY <1>3, CallAllowed
<1>4. ASSUME NEW t \in Threads, Step(t) PROVE Allowed
  <2>1. CASE Keyed(t)
    <3>1. CASE Op(t) \notin {"set", "mset"}
      BY <2>1, <3>1, KeyedAllowed
    <3>2. CASE Op(t) \in {"set", "mset"}
      BY <2>1, <3>2, PurgeAllowed, PairAllowed DEF Keyed, Get, Ttl, Mget, Del, ExpireAt,
           Persist, Increment, AppendTo, Working
    <3> QED
      BY <3>1, <3>2
  <2>2. CASE SnapshotThrows(t)
    BY <2>2, StillMap DEF SnapshotThrows, Allowed, Store_!abstract
  <2> QED
    BY <1>4, <2>1, <2>2, AcquireAllowed, SnapshotAllowed, QuietAllowed DEF Step, Quiet
<1> QED
  BY <1>1, <1>2, <1>3, <1>4 DEF Next, Finished

\* The sharded engine implements the atomic map: MSET and FLUSH are atomic
\* across shards, INCR, DECR and APPEND take the value they find one step on,
\* KEYS and SAVE capture one instant, and several keys vanish at once only by
\* FLUSH or expiry, whatever the number of shards and the interleaving.
THEOREM EngineImplementsMap == Spec => ImplementsKVStore
<1>1. Init => Store_!Init
  BY MapStarts
<1>2. MapInv /\ [Next]_vars => [Store_!Next]_(Store_!abstract)
  BY MapSteps DEF Allowed
<1>3. MapInv /\ [Next]_vars => MapInv'
  BY MapNext
<1> QED
  BY <1>1, <1>2, <1>3, MapInit, PTL DEF Spec, ImplementsKVStore, Store_!Spec
=============================================================================
