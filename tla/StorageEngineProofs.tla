------------------------ MODULE StorageEngineProofs ------------------------
(***************************************************************************)
(* Theorems about StorageEngine, for any number of keys, threads, shards   *)
(* and calls.                                                              *)
(***************************************************************************)
EXTENDS StorageEngine, FiniteSetTheorems, TLAPS

USE DEF engine, world, aside, vars

\* What a thread's frame says about its call.
CallOK(f) ==
    /\ f.pc = "idle" => f = Idle
    /\ f.pc \in {"acquire", "work"} =>
         /\ f.req \in Requests
         /\ f.req.op \notin {"cleanup_expired", "take_evicted_keys"}
         /\ f.req.op \in KeyOps => f.at \in 1 .. Len(f.req.keys)
    /\ f.pc \notin {"sweep", "settle"} => f.removed = {}
    /\ f.pc = "sweep" =>
         /\ f.at \in Shards
         /\ \A k \in f.removed : shard_index[k] < f.at
    /\ f.pc = "report" => f.victim \in Keys

CallsOK == \A t \in Threads : CallOK(th[t])

Inv == TypeOK /\ CallsOK

\* What TypeOK says of the engine proper.
EngineOK ==
    /\ entries \in [Keys -> ValueEntry \cup {NoEntry}]
    /\ total_keys_ \in 0 .. SizeMax
    /\ access_sequence_ \in Nat

\* The key and argument a call works on are well typed.
LEMMA KeyTyped ==
    ASSUME Inv, NEW t \in Threads, th[t].pc = "work", Op(t) \in KeyOps
    PROVE  /\ Key(t) \in Keys
           /\ Op(t) \in {"set", "mset"} => Arg(t) \in Values
           /\ Op(t) = "expire_at" => Arg(t) \in Nat
           /\ Op(t) = "increment" => Arg(t) \in {-1, 1}
<1>1. th[t].req \in Requests /\ th[t].at \in 1 .. Len(th[t].req.keys)
  BY DEF Inv, CallsOK, CallOK, Op
<1>2. WellFormed(th[t].req)
  BY <1>1, RequestAssumption
<1>3. Op(t) \in {"expire_at", "increment"} => Len(th[t].req.keys) = 1
  BY <1>2 DEF WellFormed, SingleKeyOps, Op
<1>4. ASSUME Len(th[t].req.keys) = 1 PROVE th[t].at = 1
  <2>1. th[t].at \in 1 .. 1
    BY <1>1, <1>4
  <2> QED
    BY <2>1
<1> QED
  BY <1>1, <1>2, <1>3, <1>4 DEF WellFormed, Key, Arg, Op

\* The frame of a thread outside any call is well formed.
LEMMA IdleOK == Idle \in Frame /\ CallOK(Idle)
<1>1. Idle \in Frame
  BY DEF Idle, Frame, PCs
<1>2. CallOK(Idle)
  BY DEF Idle, CallOK
<1> QED
  BY <1>1, <1>2

\* The empty store satisfies the invariant.
LEMMA InitInv == Init => Inv
<1> SUFFICES ASSUME Init PROVE Inv
  OBVIOUS
<1>1. EngineOK
  BY SizeAssumption DEF Init, EngineOK, Empty
<1>2. th \in [Threads -> Frame] /\ CallsOK
  BY IdleOK DEF Init, CallsOK
<1>3. pending_evicted_keys_ \in Seq(Keys) /\ eviction_mutex_ \in Threads \cup {NoThread}
  BY DEF Init
<1>4. snap \in [Threads -> [Keys -> SnapshotEntry \cup {NoEntry}]]
  BY DEF Init, Empty
<1>5. aborted \in BOOLEAN /\ clock \in Nat /\ calls \in Nat /\ drift \in Nat
  BY DEF Init
<1> QED
  BY <1>1, <1>2, <1>3, <1>4, <1>5 DEF Inv, TypeOK, EngineOK

\* Writing or touching an entry keeps the engine's types.
LEMMA StoreTyped ==
    ASSUME TypeOK, NEW k \in Keys, NEW v \in Values, NEW e \in Expiries, Store(k, v, e)
    PROVE  EngineOK'
  BY SizeAssumption DEF TypeOK, Store, ValueEntry, FetchAdd, EngineOK

\* So does erasing one.
LEMMA EraseTyped ==
    ASSUME TypeOK, NEW k \in Keys, Erase(k)
    PROVE  EngineOK'
  BY SizeAssumption DEF TypeOK, Erase, FetchSub, EngineOK

\* A thread that moves to a well-formed frame keeps all frames well formed.
LEMMA BecomeOK ==
    ASSUME Inv, NEW t \in Threads, NEW f \in Frame, CallOK(f), Become(t, f)
    PROVE  th' \in [Threads -> Frame] /\ CallsOK'
<1>1. th \in [Threads -> Frame] /\ CallsOK
  BY DEF Inv, TypeOK
<1>2. th' \in [Threads -> Frame]
  BY <1>1 DEF Become
<1>3. \A u \in Threads : th'[u] = IF u = t THEN f ELSE th[u]
  BY <1>1 DEF Become
<1>4. \A u \in Threads : CallOK(th'[u])
  BY <1>1, <1>3 DEF CallsOK
<1>5. CallsOK'
  BY <1>4 DEF CallsOK, CallOK
<1> QED
  BY <1>2, <1>5

\* The parts put together, for the actions that leave "aside" alone.
LEMMA Assemble ==
    ASSUME Inv, EngineOK', th' \in [Threads -> Frame], CallsOK', UNCHANGED aside
    PROVE  Inv'
  BY DEF Inv, TypeOK, EngineOK

\* Thread t moves on to a frame outside sweeps and searches for a victim.
Leaves(t) ==
    \E f \in Frame : /\ f.pc \in {"idle", "acquire", "work", "check"}
                     /\ CallOK(f)
                     /\ Become(t, f)

\* A call that returns leaves its thread in such a frame.
LEMMA ReturnLeaves == ASSUME NEW t \in Threads, Return(t) PROVE Leaves(t)
<1>1. Idle.pc = "idle"
  BY DEF Idle
<1> QED
  BY <1>1, IdleOK DEF Return, Leaves

\* So does one that goes on to enforce_max_keys.
LEMMA UnlockLeaves ==
    ASSUME Inv, NEW t \in Threads, th[t].pc = "work", UnlockAndEnforce(t)
    PROVE  Leaves(t)
<1> DEFINE f == [th[t] EXCEPT !.pc = "check", !.held = {}]
<1>1. th[t] \in Frame /\ CallOK(th[t])
  BY DEF Inv, TypeOK, CallsOK
<1>2. f \in Frame /\ f.pc = "check"
  BY <1>1 DEF Frame, PCs
<1>3. CallOK(f)
  BY <1>1 DEF Frame, CallOK
<1> QED
  BY <1>2, <1>3 DEF UnlockAndEnforce, Leaves

\* Such a move keeps all frames well formed.
LEMMA LeavesOK ==
    ASSUME Inv, NEW t \in Threads, Leaves(t)
    PROVE  th' \in [Threads -> Frame] /\ CallsOK'
  BY BecomeOK DEF Leaves

\* In particular a return does.
LEMMA ReturnOK ==
    ASSUME Inv, NEW t \in Threads, Return(t)
    PROVE  th' \in [Threads -> Frame] /\ CallsOK'
  BY ReturnLeaves, LeavesOK

\* The step to the next key of mset (p = "work") or mget (p = "acquire").
LEMMA NextKeyLeaves ==
    ASSUME Inv, NEW t \in Threads, th[t].pc = "work", Op(t) \in KeyOps, ~OnLastKey(t),
           NEW p \in {"work", "acquire"}, NEW h \in SUBSET Shards, NEW n \in Nat,
           Become(t, [th[t] EXCEPT !.pc = p, !.held = h, !.now = n, !.at = @ + 1])
    PROVE  Leaves(t)
<1> DEFINE f == [th[t] EXCEPT !.pc = p, !.held = h, !.now = n, !.at = @ + 1]
<1>1. th[t] \in Frame /\ CallOK(th[t])
  BY DEF Inv, TypeOK, CallsOK
<1>2. th[t].at + 1 \in Nat /\ p \in PCs
  BY <1>1 DEF Frame, PCs
<1>3. f \in Frame /\ f.pc = p
  BY <1>1, <1>2 DEF Frame
<1>4. th[t].req \in Requests /\ th[t].at \in 1 .. Len(th[t].req.keys)
  BY <1>1 DEF CallOK, Op
<1>5. Len(th[t].req.keys) \in Nat
  BY <1>4, RequestAssumption DEF WellFormed
<1>6. th[t].at + 1 \in 1 .. Len(th[t].req.keys)
  BY <1>4, <1>5 DEF OnLastKey
<1>7. CallOK(f)
  BY <1>1, <1>4, <1>6 DEF CallOK, Frame
<1> QED
  BY <1>3, <1>7 DEF Leaves

\* All a keyed call does to the engine in one step.
KeyedEffect ==
    \/ UNCHANGED engine
    \/ \E k \in Present : Erase(k)
    \/ \E k \in Keys, v \in Values, e \in Expiries : Store(k, v, e)

\* Whatever a keyed call does keeps the engine's types.
LEMMA EffectTyped == ASSUME Inv, KeyedEffect PROVE EngineOK'
<1>1. CASE UNCHANGED engine
  BY <1>1 DEF Inv, TypeOK, EngineOK
<1>2. ASSUME NEW k \in Present, Erase(k) PROVE EngineOK'
  BY <1>2, EraseTyped DEF Present, Inv
<1>3. ASSUME NEW k \in Keys, NEW v \in Values, NEW e \in Expiries, Store(k, v, e)
      PROVE  EngineOK'
  BY <1>3, StoreTyped DEF Inv
<1> QED
  BY <1>1, <1>2, <1>3 DEF KeyedEffect

\* Every keyed action erases or stores one well-typed entry, or nothing.
LEMMA KeyedStep ==
    ASSUME Inv, NEW t \in Threads, Keyed(t)
    PROVE  KeyedEffect /\ Leaves(t) /\ UNCHANGED aside
<1>t. th[t] \in Frame /\ CallOK(th[t]) /\ th \in [Threads -> Frame] /\ clock \in Nat
  BY DEF Inv, TypeOK, CallsOK
<1>v. ASSUME Key(t) \in Keys, Key(t) \in Present
      PROVE  entries[Key(t)].value \in Values /\ entries[Key(t)].expires_at \in Expiries
  BY <1>v DEF Inv, TypeOK, Present, ValueEntry
<1>e. NoExpiry \in Expiries
  BY DEF Expiries
<1>g. Gone(t) => Key(t) \in Present
  BY DEF Gone, Expired
<1>l. ASSUME Key(t) \in Keys, Lookup(t) PROVE KeyedEffect
  BY <1>l, <1>v, <1>g DEF Lookup, Miss, Lapse, Hit, Live, KeyedEffect
<1>1. CASE PurgeExpired(t)
  <2>1. KeyedEffect
    BY <1>1, <1>g DEF PurgeExpired, KeyedEffect
  <2>2. Become(t, th[t])
    BY <1>1, <1>t DEF PurgeExpired, Become
  <2>3. Leaves(t)
    BY <1>1, <1>t, <2>2 DEF PurgeExpired, Leaves
  <2> QED
    BY <1>1, <2>1, <2>3 DEF PurgeExpired
<1>2. CASE Set(t)
  <2>1. Key(t) \in Keys /\ Arg(t) \in Values
    BY <1>2, KeyTyped DEF Set, Working, KeyOps, SingleKeyOps
  <2>2. KeyedEffect
    BY <1>2, <1>e, <2>1 DEF Set, KeyedEffect
  <2> QED
    BY <1>2, <2>2, UnlockLeaves DEF Set, Working
<1>3. CASE Mset(t)
  <2>1. Key(t) \in Keys /\ Arg(t) \in Values /\ th[t].pc = "work" /\ Op(t) \in KeyOps
    BY <1>3, KeyTyped DEF Mset, Working, KeyOps
  <2>2. KeyedEffect
    BY <1>3, <1>e, <2>1 DEF Mset, KeyedEffect
  <2>3. CASE OnLastKey(t)
    BY <1>3, <2>1, <2>2, <2>3, UnlockLeaves DEF Mset
  <2>4. CASE ~OnLastKey(t)
    <3>1. [th[t] EXCEPT !.at = @ + 1] =
          [th[t] EXCEPT !.pc = "work", !.held = th[t].held, !.now = th[t].now, !.at = @ + 1]
      BY <1>t, <2>1 DEF Frame
    <3>2. th[t].held \in SUBSET Shards /\ th[t].now \in Nat
      BY <1>t DEF Frame
    <3>3. Leaves(t)
      BY <1>3, <2>1, <2>4, <3>1, <3>2, NextKeyLeaves DEF Mset
    <3> QED
      BY <1>3, <2>2, <3>3 DEF Mset
  <2> QED
    BY <2>3, <2>4
<1>4. CASE Get(t) \/ Ttl(t)
  <2>1. Key(t) \in Keys
    BY <1>4, KeyTyped DEF Get, Ttl, Working, KeyOps, SingleKeyOps
  <2> QED
    BY <1>4, <1>l, <2>1, ReturnLeaves DEF Get, Ttl
<1>5. CASE Mget(t)
  <2>1. Key(t) \in Keys /\ th[t].pc = "work" /\ Op(t) \in KeyOps
    BY <1>5, KeyTyped DEF Mget, Working, KeyOps
  <2>2. KeyedEffect
    BY <1>5, <1>l, <2>1 DEF Mget
  <2>3. CASE OnLastKey(t)
    BY <1>5, <2>2, <2>3, ReturnLeaves DEF Mget
  <2>4. CASE ~OnLastKey(t)
    BY <1>5, <1>t, <2>1, <2>2, <2>4, NextKeyLeaves DEF Mget
  <2> QED
    BY <2>3, <2>4
<1>6. CASE Del(t)
  <2>1. KeyedEffect
    BY <1>6 DEF Del, Miss, KeyedEffect
  <2> QED
    BY <1>6, <2>1, ReturnLeaves DEF Del
<1>7. CASE ExpireAt(t)
  <2>1. Key(t) \in Keys /\ Arg(t) \in Expiries
    BY <1>7, KeyTyped DEF ExpireAt, Working, KeyOps, SingleKeyOps, Expiries
  <2>2. KeyedEffect
    BY <1>7, <1>v, <2>1 DEF ExpireAt, Miss, Live, KeyedEffect
  <2> QED
    BY <1>7, <2>2, ReturnLeaves DEF ExpireAt
<1>8. CASE Persist(t)
  <2>1. Key(t) \in Keys
    BY <1>8, KeyTyped DEF Persist, Working, KeyOps, SingleKeyOps
  <2>2. KeyedEffect
    BY <1>8, <1>v, <1>e, <1>g, <2>1 DEF Persist, Miss, Lapse, Live, KeyedEffect
  <2> QED
    BY <1>8, <2>2, ReturnLeaves DEF Persist
<1>9. CASE Increment(t)
  <2>1. Key(t) \in Keys /\ Arg(t) \in {-1, 1}
    BY <1>9, KeyTyped DEF Increment, Working, KeyOps, SingleKeyOps
  <2>2. Current(t) \in Values /\ KeptExpiry(t) \in Expiries
    BY <2>1, <1>v, <1>e, ValueAssumption DEF Current, KeptExpiry, Values
  <2>3. CASE UNCHANGED engine /\ Return(t)
    BY <1>9, <2>3, ReturnLeaves DEF Increment, KeyedEffect
  <2>4. CASE /\ Current(t) # Text /\ ~Overflows(Current(t), Arg(t))
             /\ Store(Key(t), Current(t) + Arg(t), KeptExpiry(t))
             /\ LeaveUpdate(t)
    <3>1. Current(t) + Arg(t) \in Values
      BY <2>1, <2>2, <2>4, ValueAssumption DEF Values, Overflows
    <3>2. KeyedEffect
      BY <2>1, <2>2, <2>4, <3>1 DEF KeyedEffect
    <3>3. Leaves(t)
      BY <1>9, <2>4, ReturnLeaves, UnlockLeaves DEF LeaveUpdate, Increment, Working
    <3> QED
      BY <1>9, <3>2, <3>3 DEF Increment
  <2> QED
    BY <1>9, <2>3, <2>4 DEF Increment
<1>10. CASE AppendTo(t)
  <2>1. Key(t) \in Keys
    BY <1>10, KeyTyped DEF AppendTo, Working, KeyOps, SingleKeyOps
  <2>2. Text \in Values /\ KeptExpiry(t) \in Expiries
    BY <2>1, <1>v, <1>e DEF KeptExpiry, Values
  <2>3. KeyedEffect
    BY <1>10, <2>1, <2>2 DEF AppendTo, KeyedEffect
  <2>4. Leaves(t)
    BY <1>10, ReturnLeaves, UnlockLeaves DEF LeaveUpdate, AppendTo, Working
  <2> QED
    BY <1>10, <2>3, <2>4 DEF AppendTo
<1> QED
  BY <1>1, <1>2, <1>3, <1>4, <1>5, <1>6, <1>7, <1>8, <1>9, <1>10 DEF Keyed

\* The keyed calls preserve the invariant.
LEMMA KeyedInv == ASSUME Inv, NEW t \in Threads, Keyed(t) PROVE Inv'
<1>1. KeyedEffect /\ Leaves(t) /\ UNCHANGED aside
  BY KeyedStep
<1>2. EngineOK' /\ th' \in [Threads -> Frame] /\ CallsOK'
  BY <1>1, EffectTyped, LeavesOK
<1> QED
  BY <1>1, <1>2, Assemble

\* Beginning a call preserves it.
LEMMA CallInv ==
    ASSUME Inv, NEW t \in Threads, NEW r \in Requests, Call(t, r)
    PROVE  Inv'
<1> DEFINE f == [th[t] EXCEPT !.pc = FirstPc(r.op), !.req = r, !.now = clock,
                              !.at = IF r.op \in KeyOps THEN 1 ELSE 0]
<1>1. TypeOK /\ clock \in Nat /\ th[t] \in Frame /\ th[t] = Idle /\ WellFormed(r)
  BY RequestAssumption DEF Call, Inv, TypeOK, CallsOK, CallOK
<1>2. FirstPc(r.op) \in PCs
  BY DEF FirstPc, PCs
<1>3. f \in Frame
  BY <1>1, <1>2 DEF Frame
<1>4. /\ f.pc = FirstPc(r.op) /\ f.req = r /\ f.removed = {}
      /\ f.at = IF r.op \in KeyOps THEN 1 ELSE 0
  BY <1>1 DEF Idle
<1>5. r.op \in KeyOps => 1 \in 1 .. Len(r.keys)
  BY <1>1 DEF WellFormed
<1>6. r.op = "cleanup_expired" => r.op \notin KeyOps
  BY DEF KeyOps, SingleKeyOps
<1>7. CallOK(f)
  BY <1>1, <1>4, <1>5, <1>6, ShardAssumption DEF CallOK, FirstPc, Shards
<1>8. th' \in [Threads -> Frame] /\ CallsOK'
  BY <1>3, <1>7, BecomeOK DEF Call
<1>9. snap' \in [Threads -> [Keys -> SnapshotEntry \cup {NoEntry}]]
  BY <1>1 DEF Call, TypeOK, Empty
<1> QED
  BY <1>1, <1>8, <1>9 DEF Call, Inv, TypeOK

\* Taking a mutex preserves it, and the last one leads to the work.
LEMMA AcquireInv == ASSUME Inv, NEW t \in Threads, Acquire(t) PROVE Inv'
<1>1. th[t] \in Frame /\ CallOK(th[t]) /\ th[t].pc = "acquire"
  BY DEF Inv, TypeOK, CallsOK, Acquire
<1>2. PICK s \in LockSet(t) \ th[t].held :
        Become(t, [th[t] EXCEPT !.held = @ \cup {s},
          !.pc = IF LockSet(t) \subseteq th[t].held \cup {s} THEN "work" ELSE "acquire"])
  BY DEF Acquire
<1> DEFINE f == [th[t] EXCEPT !.held = @ \cup {s},
          !.pc = IF LockSet(t) \subseteq th[t].held \cup {s} THEN "work" ELSE "acquire"]
<1>3. th[t].req \in Requests /\ WellFormed(th[t].req)
  BY <1>1, RequestAssumption DEF CallOK
<1>4. LockSet(t) \subseteq Shards
  <2>1. CASE Op(t) \in {"flush", "snapshot_entries"}
    BY <2>1 DEF LockSet
  <2>2. CASE Op(t) = "mset"
    BY <1>3, <2>2, ShardAssumption DEF LockSet, WellFormed
  <2>3. CASE Op(t) \notin {"flush", "snapshot_entries", "mset"}
    <3>1. CASE Op(t) \in KeyOps
      BY <1>1, <1>3, <2>3, <3>1, ShardAssumption, SMTT(30) DEF LockSet, WellFormed, CallOK, Key, Op
    <3>2. CASE Op(t) \in {"cleanup_expired", "take_evicted_keys"}
      BY <1>1, <3>2 DEF CallOK, Op
    <3> QED
      BY <1>3, <2>3, <3>1, <3>2 DEF WellFormed, Ops, Op
  <2> QED
    BY <2>1, <2>2, <2>3
<1>5. f \in Frame
  BY <1>1, <1>4 DEF Frame, PCs
<1>6. CallOK(f)
  BY <1>1 DEF CallOK, Frame
<1>7. th' \in [Threads -> Frame] /\ CallsOK'
  BY <1>2, <1>5, <1>6, BecomeOK
<1> QED
  BY <1>7 DEF Acquire, Inv, TypeOK

\* There are finitely many debts, so they can be counted.
LEMMA DebtFinite ==
    ASSUME Inv
    PROVE  /\ Present \subseteq Keys /\ IsFiniteSet(Present)
           /\ Debt \subseteq Threads \X Keys /\ IsFiniteSet(Debt)
           /\ Cardinality(Present) \in Nat /\ Cardinality(Debt) \in Nat
           /\ Cardinality(Present) <= Cardinality(Keys)
           /\ Cardinality(Debt) <= Cardinality(Threads) * Cardinality(Keys)
<1>1. Present \subseteq Keys /\ Debt \subseteq Threads \X Keys
  BY DEF Present, Debt
<1>2. /\ IsFiniteSet(Threads \X Keys)
      /\ Cardinality(Threads \X Keys) = Cardinality(Threads) * Cardinality(Keys)
  BY FiniteAssumption, FS_Product
<1>3. IsFiniteSet(Present) /\ Cardinality(Present) <= Cardinality(Keys)
  BY <1>1, FiniteAssumption, FS_Subset
<1>4. IsFiniteSet(Debt) /\ Cardinality(Debt) <= Cardinality(Threads) * Cardinality(Keys)
  BY <1>1, <1>2, FS_Subset
<1> QED
  BY <1>1, <1>3, <1>4, FS_CardinalityType

\* flush preserves the invariant; the drift it records is a number.
LEMMA FlushInv == ASSUME Inv, NEW t \in Threads, Flush(t) PROVE Inv'
<1>1. EngineOK'
  BY SizeAssumption DEF Flush, Empty, Inv, TypeOK, EngineOK
<1>2. drift' \in Nat
  BY DebtFinite DEF Flush
<1>3. th' \in [Threads -> Frame] /\ CallsOK'
  BY ReturnOK DEF Flush
<1> QED
  BY <1>1, <1>2, <1>3 DEF Flush, Inv, TypeOK, EngineOK

\* snapshot_entries preserves it, whether it throws or not.
LEMMA SnapshotInv ==
    ASSUME Inv, NEW t \in Threads, SnapshotShard(t) \/ SnapshotThrows(t)
    PROVE  Inv'
<1>1. CASE SnapshotShard(t)
  <2>1. th[t] \in Frame /\ CallOK(th[t]) /\ Working(t, "snapshot_entries")
    BY <1>1 DEF Inv, TypeOK, CallsOK, SnapshotShard
  <2>2. th' \in [Threads -> Frame] /\ CallsOK'
    <3> DEFINE f == [th[t] EXCEPT !.at = @ + 1]
    <3>1. f \in Frame
      BY <2>1 DEF Frame
    <3>2. CallOK(f)
      BY <2>1 DEF CallOK, Frame, Working, Op, KeyOps, SingleKeyOps
    <3> QED
      BY <1>1, <3>1, <3>2, BecomeOK, ReturnOK DEF SnapshotShard
  <2>3. \A k \in Keys : k \in Present =>
          [value |-> entries[k].value, expires_at |-> entries[k].expires_at] \in SnapshotEntry
    BY DEF Inv, TypeOK, Present, ValueEntry, SnapshotEntry
  <2>4. snap' \in [Threads -> [Keys -> SnapshotEntry \cup {NoEntry}]]
    BY <1>1, <2>3 DEF SnapshotShard, Inv, TypeOK
  <2> QED
    BY <1>1, <2>2, <2>4 DEF SnapshotShard, Inv, TypeOK
<1>2. CASE SnapshotThrows(t)
  BY <1>2 DEF SnapshotThrows, Inv, TypeOK, CallsOK, CallOK
<1> QED
  BY <1>1, <1>2

\* Both parts of cleanup_expired preserve it.
LEMMA SweepInv ==
    ASSUME Inv, NEW t \in Threads, SweepShard(t) \/ SweepSettle(t)
    PROVE  Inv'
<1>1. th[t] \in Frame /\ CallOK(th[t])
  BY DEF Inv, TypeOK, CallsOK
<1>2. CASE SweepShard(t)
  <2> DEFINE gone == {k \in Keys : shard_index[k] = th[t].at /\ Expired(k, th[t].now)}
             f == [th[t] EXCEPT !.removed = @ \cup gone, !.at = @ + 1,
                     !.pc = IF th[t].at = ShardCount - 1 THEN "settle" ELSE "sweep"]
  <2>0. /\ th[t].removed \cup gone \in SUBSET Keys /\ th[t].at + 1 \in Nat
        /\ (IF th[t].at = ShardCount - 1 THEN "settle" ELSE "sweep") \in PCs
    BY <1>1 DEF Frame, PCs
  <2>1. f \in Frame
    <3> HIDE DEF gone
    <3> QED
      BY <1>1, <2>0 DEF Frame
  <2>2. th[t].at \in Shards /\ \A k \in th[t].removed : shard_index[k] < th[t].at
    BY <1>1, <1>2 DEF CallOK, SweepShard
  <2>3. /\ f.pc = IF th[t].at = ShardCount - 1 THEN "settle" ELSE "sweep"
        /\ f.at = th[t].at + 1 /\ f.removed = th[t].removed \cup gone
    BY <1>1 DEF Frame
  <2>4. \A k \in th[t].removed \cup gone : shard_index[k] < th[t].at + 1
    BY <1>1, <2>2, ShardAssumption DEF Shards, Frame
  <2>5. th[t].at # ShardCount - 1 => th[t].at + 1 \in Shards
    BY <2>2, ShardAssumption DEF Shards
  <2>6. CallOK(f)
    BY <2>3, <2>4, <2>5 DEF CallOK
  <2>7. th' \in [Threads -> Frame] /\ CallsOK'
    BY <1>2, <2>1, <2>6, BecomeOK DEF SweepShard
  <2>8. entries' \in [Keys -> ValueEntry \cup {NoEntry}]
    BY <1>2 DEF SweepShard, Inv, TypeOK
  <2> QED
    BY <1>2, <2>7, <2>8 DEF SweepShard, Inv, TypeOK
<1>3. CASE SweepSettle(t)
  <2>1. /\ Cardinality(th[t].removed) \in Nat
        /\ Cardinality(th[t].removed) <= Cardinality(Keys)
    BY <1>1, FiniteAssumption, FS_Subset, FS_CardinalityType DEF Frame
  <2>2. Cardinality(th[t].removed) <= SizeMax
    <3>2. Cardinality(Keys) \in Nat /\ Cardinality(Threads) \in Nat
      BY FiniteAssumption, FS_CardinalityType
    <3>3. Cardinality(Threads) * Cardinality(Keys) \in Nat
      BY <3>2
    <3> QED
      BY <2>1, <3>2, <3>3, SizeAssumption
  <2>3. EngineOK'
    BY <1>3, <2>1, <2>2, SizeAssumption DEF SweepSettle, FetchSub, Inv, TypeOK, EngineOK
  <2> QED
    BY <1>3, <2>3, ReturnOK, Assemble DEF SweepSettle
<1> QED
  BY <1>2, <1>3

\* take_evicted_keys preserves it.
LEMMA TakeInv == ASSUME Inv, NEW t \in Threads, TakeEvictedKeys(t) PROVE Inv'
  BY ReturnOK DEF TakeEvictedKeys, Inv, TypeOK

\* Every step of enforce_max_keys preserves it.
LEMMA EnforceInv == ASSUME Inv, NEW t \in Threads, Enforce(t) PROVE Inv'
<1>1. th[t] \in Frame /\ CallOK(th[t])
  BY DEF Inv, TypeOK, CallsOK
<1>2. ASSUME NEW p \in PCs, p \notin {"idle", "acquire", "work", "sweep", "settle", "report"},
             th[t].pc \notin {"sweep", "settle"}, Become(t, [th[t] EXCEPT !.pc = p])
      PROVE  th' \in [Threads -> Frame] /\ CallsOK'
  <2>1. [th[t] EXCEPT !.pc = p] \in Frame
    BY <1>1 DEF Frame
  <2>2. CallOK([th[t] EXCEPT !.pc = p])
    BY <1>1, <1>2 DEF CallOK, Frame
  <2> QED
    BY <1>2, <2>1, <2>2, BecomeOK
<1>3. CASE EnforceCheck(t)
  <2>1. th' \in [Threads -> Frame] /\ CallsOK'
    BY <1>2, <1>3, ReturnOK DEF EnforceCheck, PCs
  <2> QED
    BY <1>3, <2>1 DEF EnforceCheck, Inv, TypeOK
<1>4. CASE LockEviction(t)
  <2>1. th' \in [Threads -> Frame] /\ CallsOK'
    BY <1>2, <1>4 DEF LockEviction, PCs
  <2> QED
    BY <1>4, <2>1 DEF LockEviction, Inv, TypeOK
<1>5. CASE StartScan(t)
  <2> DEFINE f == [th[t] EXCEPT !.pc = "scan", !.at = 0, !.victim = NoKey,
                                !.oldest = 0, !.started = access_sequence_]
  <2>1. access_sequence_ \in Nat /\ "scan" \in PCs
    BY DEF Inv, TypeOK, PCs
  <2>2. f \in Frame
    BY <1>1, <2>1 DEF Frame
  <2>3. CallOK(f)
    BY <1>1, <1>5 DEF CallOK, Frame, StartScan
  <2>4. th' \in [Threads -> Frame] /\ CallsOK'
    BY <1>5, <2>2, <2>3, BecomeOK DEF StartScan
  <2> QED
    BY <1>5, <2>4 DEF StartScan, Inv, TypeOK
<1>6. CASE Scan(t)
  <2> DEFINE next == IF th[t].at = ShardCount - 1 THEN "evict" ELSE "scan"
             f == [th[t] EXCEPT !.pc = next, !.at = @ + 1]
             g(k) == [th[t] EXCEPT !.pc = next, !.at = @ + 1, !.victim = k,
                                   !.oldest = entries[k].last_access_sequence]
  <2>1. Become(t, f) \/ \E k \in Present : Become(t, g(k))
    BY <1>6 DEF Scan
  <2>2. next \in PCs /\ th[t].at + 1 \in Nat /\ next \in {"evict", "scan"}
    BY <1>1 DEF PCs, Frame
  <2> HIDE DEF next
  <2>3. CASE Become(t, f)
    <3>1. f \in Frame
      BY <1>1, <2>2 DEF Frame
    <3>2. CallOK(f)
      BY <1>1, <1>6, <2>2 DEF CallOK, Frame, Scan
    <3> QED
      BY <1>6, <2>3, <3>1, <3>2, BecomeOK DEF Scan, Inv, TypeOK
  <2>4. ASSUME NEW k \in Present, Become(t, g(k)) PROVE Inv'
    <3>1. k \in Keys /\ entries[k].last_access_sequence \in Nat
      BY DEF Inv, TypeOK, Present, ValueEntry
    <3>2. g(k) \in Frame
      BY <1>1, <2>2, <3>1 DEF Frame
    <3>3. CallOK(g(k))
      BY <1>1, <1>6, <2>2 DEF CallOK, Frame, Scan
    <3>4. th' \in [Threads -> Frame] /\ CallsOK'
      BY <2>4, <3>2, <3>3, BecomeOK
    <3> QED
      BY <1>6, <3>4 DEF Scan, Inv, TypeOK
  <2> QED
    BY <2>1, <2>3, <2>4
<1>7. CASE Evict(t)
  <2>1. th[t].victim \in Keys /\ shard_index[th[t].victim] \in Shards
    BY <1>1, <1>7, ShardAssumption DEF Frame, Evict
  <2>2. CASE th[t].victim \in Present
    <3> DEFINE f == [th[t] EXCEPT !.pc = "report", !.held = {shard_index[th[t].victim]}]
    <3>1. EngineOK'
      BY <1>7, <2>1, <2>2, EraseTyped DEF Evict, Inv
    <3>2. "report" \in PCs
      BY DEF PCs
    <3>3. f \in Frame
      BY <1>1, <2>1, <3>2 DEF Frame
    <3>4. CallOK(f)
      BY <1>1, <1>7, <2>1 DEF CallOK, Frame, Evict
    <3>5. th' \in [Threads -> Frame] /\ CallsOK'
      BY <1>7, <2>2, <3>3, <3>4, BecomeOK DEF Evict
    <3> QED
      BY <1>7, <3>1, <3>5 DEF Evict, Inv, TypeOK, EngineOK
  <2>3. CASE th[t].victim \notin Present
    <3>1. th' \in [Threads -> Frame] /\ CallsOK'
      BY <1>2, <1>7, <2>3 DEF Evict, PCs
    <3> QED
      BY <1>7, <2>3, <3>1 DEF Evict, Inv, TypeOK
  <2> QED
    BY <2>2, <2>3
<1>9. CASE Report(t)
  <2> DEFINE f == [th[t] EXCEPT !.pc = "loop", !.held = {}]
  <2>1. "loop" \in PCs
    BY DEF PCs
  <2>2. f \in Frame
    BY <1>1, <2>1 DEF Frame
  <2>3. CallOK(f)
    BY <1>1, <1>9 DEF CallOK, Frame, Report
  <2>4. th' \in [Threads -> Frame] /\ CallsOK'
    BY <1>9, <2>2, <2>3, BecomeOK DEF Report
  <2>5. pending_evicted_keys_' \in Seq(Keys)
    <3>1. pending_evicted_keys_' = Append(pending_evicted_keys_, th[t].victim)
      BY <1>9 DEF Report
    <3>2. pending_evicted_keys_ \in Seq(Keys) /\ th[t].victim \in Keys
      BY <1>1, <1>9 DEF Inv, TypeOK, CallOK, Report
    <3> QED
      BY <3>1, <3>2
  <2> QED
    BY <1>9, <2>4, <2>5 DEF Report, Inv, TypeOK
<1>8. CASE LeaveEnforce(t)
  BY <1>8, ReturnOK DEF LeaveEnforce, Inv, TypeOK
<1> QED
  BY <1>3, <1>4, <1>5, <1>6, <1>7, <1>8, <1>9 DEF Enforce

\* Every step preserves the invariant.
LEMMA NextInv == ASSUME Inv, [Next]_vars PROVE Inv'
<1>1. CASE Tick
  BY <1>1 DEF Tick, Inv, TypeOK, CallsOK, CallOK
<1>2. CASE UNCHANGED vars
  BY <1>2 DEF Inv, TypeOK, CallsOK, CallOK
<1>3. ASSUME NEW t \in Threads, NEW r \in Requests, Call(t, r) PROVE Inv'
  BY <1>3, CallInv
<1>4. ASSUME NEW t \in Threads, Step(t) PROVE Inv'
  BY <1>4, AcquireInv, KeyedInv, FlushInv, SnapshotInv, SweepInv, TakeInv, EnforceInv DEF Step
<1> QED
  BY <1>1, <1>2, <1>3, <1>4 DEF Next, Finished

\* Thread t moves to f and the others stay where they are.
LEMMA Moves ==
    ASSUME Inv, NEW t \in Threads, NEW f, Become(t, f)
    PROVE  th'[t] = f /\ \A u \in Threads \ {t} : th'[u] = th[u]
  BY DEF Become, Inv, TypeOK

\* A step of thread t leaves the other frames alone.
LEMMA OthersStay ==
    ASSUME Inv, NEW t \in Threads, (\E r \in Requests : Call(t, r)) \/ Step(t)
    PROVE  \A u \in Threads \ {t} : th'[u] = th[u]
<1>1. th \in [Threads -> Frame]
  BY DEF Inv, TypeOK
<1>2. CASE Keyed(t)
  BY <1>2, KeyedStep, Moves DEF Leaves
<1>3. CASE Enforce(t)
  BY <1>1, <1>3 DEF Enforce, EnforceCheck, LockEviction, StartScan, Scan, Evict, Report,
                    LeaveEnforce, Return, Become
<1>4. CASE (\E r \in Requests : Call(t, r)) \/ Acquire(t) \/ Flush(t) \/ SnapshotShard(t)
  BY <1>1, <1>4 DEF Call, Acquire, Flush, SnapshotShard, Return, Become
<1>5. CASE SnapshotThrows(t) \/ SweepShard(t) \/ SweepSettle(t) \/ TakeEvictedKeys(t)
  BY <1>1, <1>5 DEF SnapshotThrows, SweepShard, SweepSettle, TakeEvictedKeys, Return, Become
<1> QED
  BY <1>2, <1>3, <1>4, <1>5 DEF Step

\* Types hold in every state, whatever the calls and their interleaving:
\* in particular increment never leaves the range of long long.
THEOREM TypeCorrect == Spec => []TypeOK
<1>1. Inv => TypeOK
  BY DEF Inv
<1> QED
  BY <1>1, InitInv, NextInv, PTL DEF Spec
=============================================================================
