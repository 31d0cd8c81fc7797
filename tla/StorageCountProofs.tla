------------------------ MODULE StorageCountProofs -------------------------
(***************************************************************************)
(* total_keys_ counts the entries exactly, up to what running sweeps owe   *)
(* and what a flush during a sweep lost.                                   *)
(*                                                                         *)
(* The count is kept without a lock around it, so it is compared with two  *)
(* sets: Present, and Debt, the <<thread, key>> pairs a sweep has erased   *)
(* and will subtract later.  Every action moves a key between these sets   *)
(* in step with total_keys_.                                               *)
(***************************************************************************)
EXTENDS StorageEngineProofs

USE DEF engine, world, aside, vars

CountInv ==
    /\ Inv
    /\ KeyCount
    /\ drift <= Cardinality(Threads) * Cardinality(Keys)

\* size_t arithmetic with the drift taken off first.
LEMMA AddAfterSub ==
    ASSUME NEW c \in Nat, NEW d \in Nat, c + 1 <= SizeMax, d <= SizeMax
    PROVE  FetchAdd(FetchSub(c, d), 1) = FetchSub(c + 1, d)
  BY SizeAssumption DEF FetchAdd, FetchSub

\* The same for subtraction.
LEMMA SubAfterSub ==
    ASSUME NEW c \in Nat, NEW d \in Nat, NEW n \in 0 .. c, c <= SizeMax, d <= SizeMax
    PROVE  FetchSub(FetchSub(c, d), n) = FetchSub(c - n, d)
  BY SizeAssumption DEF FetchSub

\* Entries, debts and drift are few enough for a size_t.
LEMMA Bounds ==
    ASSUME CountInv
    PROVE  /\ Cardinality(Keys) \in Nat
           /\ Cardinality(Threads) * Cardinality(Keys) \in Nat
           /\ Cardinality(Present) + Cardinality(Debt) \in Nat
           /\ Cardinality(Present) + Cardinality(Debt) <= SizeMax
           /\ Cardinality(Present) + Cardinality(Debt) <= MaxVectorSize
           /\ drift \in Nat /\ drift <= SizeMax
<1>1. Cardinality(Keys) \in Nat /\ Cardinality(Threads) \in Nat
  BY FiniteAssumption, FS_CardinalityType
<1>2. Cardinality(Threads) * Cardinality(Keys) \in Nat
  BY <1>1
<1>3. /\ Cardinality(Present) \in Nat /\ Cardinality(Debt) \in Nat
      /\ Cardinality(Present) <= Cardinality(Keys)
      /\ Cardinality(Debt) <= Cardinality(Threads) * Cardinality(Keys)
  BY DebtFinite DEF CountInv
<1>4. drift \in Nat /\ drift <= Cardinality(Threads) * Cardinality(Keys)
  BY DEF CountInv, Inv, TypeOK
<1> QED
  BY <1>1, <1>2, <1>3, <1>4, SizeAssumption

\* Erasing one key takes one off both the count and the entries.
LEMMA EraseCount ==
    ASSUME CountInv, NEW k \in Present, Erase(k), Debt' = Debt, drift' = drift
    PROVE  KeyCount'
<1>1. Present' = Present \ {k}
  BY ValueAssumption DEF Erase, Present, CountInv, Inv, TypeOK
<1>2. IsFiniteSet(Present) /\ Cardinality(Present) \in Nat /\ Cardinality(Debt) \in Nat
  BY DebtFinite DEF CountInv
<1>3. Cardinality(Present') = Cardinality(Present) - 1
  BY <1>1, <1>2, FS_RemoveElement
<1>4. Cardinality(Present) >= 1
  BY <1>2, FS_EmptySet
<1>5. total_keys_' = FetchSub(FetchSub(Cardinality(Present) + Cardinality(Debt), drift), 1)
  BY DEF Erase, CountInv, KeyCount
<1>6. total_keys_' = FetchSub(Cardinality(Present) + Cardinality(Debt) - 1, drift)
  BY <1>2, <1>4, <1>5, Bounds, SubAfterSub
<1>7. Cardinality(Present') + Cardinality(Debt') = Cardinality(Present) + Cardinality(Debt) - 1
  BY <1>2, <1>3
<1> QED
  BY <1>6, <1>7 DEF KeyCount

\* Storing a key adds one to both if the key is new, and to neither if not.
LEMMA StoreCount ==
    ASSUME CountInv, NEW k \in Keys, NEW v \in Values, NEW e \in Expiries, Store(k, v, e),
           Debt' = Debt, drift' = drift
    PROVE  KeyCount'
<1>1. Present' = Present \cup {k}
  <2>1. entries'[k] # NoEntry
    <3>1. entries'[k] = [value |-> v, expires_at |-> e, last_access_sequence |-> access_sequence_ + 1]
      BY DEF Store, CountInv, Inv, TypeOK
    <3>2. access_sequence_ + 1 \in Nat
      BY DEF CountInv, Inv, TypeOK
    <3> QED
      BY <3>1, <3>2, ValueAssumption DEF ValueEntry
  <2> QED
    BY <2>1 DEF Store, Present, CountInv, Inv, TypeOK
<1>2. IsFiniteSet(Present) /\ Cardinality(Present) \in Nat /\ Cardinality(Debt) \in Nat
  BY DebtFinite DEF CountInv
<1>3. CASE k \in Present
  <2>1. Present' = Present /\ total_keys_' = total_keys_
    BY <1>1, <1>3 DEF Store
  <2> QED
    BY <2>1 DEF KeyCount, CountInv
<1>4. CASE k \notin Present
  <2>1. Cardinality(Present') = Cardinality(Present) + 1
    BY <1>1, <1>2, <1>4, FS_AddElement
  <2>2. Cardinality(Present') <= Cardinality(Keys)
    BY FiniteAssumption, FS_Subset DEF Present
  <2>3. Cardinality(Present) + Cardinality(Debt) + 1 <= SizeMax
    BY <1>2, <2>1, <2>2, Bounds, DebtFinite, SizeAssumption DEF CountInv
  <2>4. total_keys_' = FetchAdd(FetchSub(Cardinality(Present) + Cardinality(Debt), drift), 1)
    BY <1>4 DEF Store, CountInv, KeyCount
  <2>5. total_keys_' = FetchSub(Cardinality(Present) + Cardinality(Debt) + 1, drift)
    BY <2>3, <2>4, Bounds, AddAfterSub
  <2>6. Cardinality(Present') + Cardinality(Debt') = Cardinality(Present) + Cardinality(Debt) + 1
    BY <1>2, <2>1
  <2> QED
    BY <2>5, <2>6 DEF KeyCount
<1> QED
  BY <1>3, <1>4

\* Only sweeps change what is owed.
LEMMA BecomeDebt ==
    ASSUME Inv, NEW t \in Threads, NEW f, Become(t, f), f.removed = th[t].removed
    PROVE  Debt' = Debt
<1>1. \A u \in Threads : th'[u].removed = th[u].removed
  BY DEF Become, Inv, TypeOK
<1> QED
  BY <1>1 DEF Debt

\* The keyed calls owe nothing, before and after.
LEMMA LeavesDebt ==
    ASSUME Inv, NEW t \in Threads, Leaves(t), th[t].pc \notin {"sweep", "settle"}
    PROVE  Debt' = Debt
<1>1. PICK f \in Frame : f.pc \in {"idle", "acquire", "work", "check"} /\ CallOK(f) /\ Become(t, f)
  BY DEF Leaves
<1>2. f.removed = {} /\ th[t].removed = {}
  BY <1>1 DEF CallOK, CallsOK, Inv
<1> QED
  BY <1>1, <1>2, BecomeDebt

\* Steps that touch neither the entries nor the count nor the debts.
LEMMA QuietCount ==
    ASSUME CountInv, UNCHANGED <<entries, total_keys_, drift>>, Debt' = Debt
    PROVE  KeyCount' /\ drift' <= Cardinality(Threads) * Cardinality(Keys)
<1>1. Present' = Present
  BY DEF Present
<1> QED
  BY <1>1 DEF CountInv, KeyCount

\* The keyed calls keep the count exact.
LEMMA KeyedCount ==
    ASSUME CountInv, NEW t \in Threads, Keyed(t)
    PROVE  KeyCount'
<1>1. KeyedEffect /\ Leaves(t) /\ UNCHANGED aside /\ th[t].pc = "work"
  <2>1. th[t].pc = "work"
    BY DEF Keyed, PurgeExpired, Set, Mset, Get, Ttl, Mget, Del, ExpireAt, Persist,
           Increment, AppendTo, Working
  <2> QED
    BY <2>1, KeyedStep DEF CountInv
<1>2. Debt' = Debt /\ drift' = drift
  BY <1>1, LeavesDebt DEF CountInv
<1>3. CASE UNCHANGED engine
  BY <1>2, <1>3, QuietCount
<1>4. ASSUME NEW k \in Present, Erase(k) PROVE KeyCount'
  BY <1>2, <1>4, EraseCount
<1>5. ASSUME NEW k \in Keys, NEW v \in Values, NEW e \in Expiries, Store(k, v, e)
      PROVE  KeyCount'
  BY <1>2, <1>5, StoreCount
<1> QED
  BY <1>1, <1>3, <1>4, <1>5 DEF KeyedEffect

\* FLUSH empties the store; all that is left to account for is the debt.
LEMMA FlushCount ==
    ASSUME CountInv, NEW t \in Threads, Flush(t)
    PROVE  KeyCount' /\ drift' <= Cardinality(Threads) * Cardinality(Keys)
<1>1. Debt' = Debt
  BY ReturnLeaves, LeavesDebt DEF Flush, Working, CountInv
<1>2. Present' = {}
  BY DEF Flush, Present, Empty
<1>3. Cardinality(Present') = 0
  BY <1>2, FS_EmptySet
<1>4. Cardinality(Debt) \in Nat /\ Cardinality(Debt) <= Cardinality(Threads) * Cardinality(Keys)
  BY DebtFinite DEF CountInv
<1>5. total_keys_' = 0 /\ drift' = Cardinality(Debt)
  BY DEF Flush
<1>6. FetchSub(Cardinality(Present') + Cardinality(Debt'), drift') = 0
  BY <1>1, <1>3, <1>4, <1>5 DEF FetchSub
<1> QED
  BY <1>4, <1>5, <1>6 DEF KeyCount

\* A set of pairs with one fixed thread is as large as its set of keys.
LEMMA PairsCount ==
    ASSUME NEW t, NEW S, IsFiniteSet(S)
    PROVE  /\ IsFiniteSet({t} \X S)
           /\ Cardinality({t} \X S) = Cardinality(S)
<1>1. IsFiniteSet({t}) /\ Cardinality({t}) = 1
  BY FS_Singleton
<1>2. Cardinality(S) \in Nat
  BY FS_CardinalityType
<1> QED
  BY <1>1, <1>2, FS_Product

\* What a sweep erases in one shard moves from the entries to the debt.
LEMMA SweepShardCount ==
    ASSUME CountInv, NEW t \in Threads, SweepShard(t)
    PROVE  KeyCount'
<1> DEFINE gone == {k \in Keys : shard_index[k] = th[t].at /\ Expired(k, th[t].now)}
<1>1. th \in [Threads -> Frame] /\ th[t] \in Frame /\ CallOK(th[t])
  BY DEF CountInv, Inv, TypeOK, CallsOK
<1>2. gone \subseteq Present
  BY DEF Expired, Present
<1>3. Present' = Present \ gone
  BY DEF SweepShard, Present, CountInv, Inv, TypeOK
<1>4. th'[t].removed = th[t].removed \cup gone
  BY <1>1 DEF SweepShard, Become, Frame
<1>5. \A u \in Threads \ {t} : th'[u] = th[u]
  BY <1>1 DEF SweepShard, Become
<1>6. th[t].removed \cap gone = {}
  BY <1>1, ShardAssumption DEF SweepShard, CallOK, Frame, Shards
<1>7. Debt' = Debt \cup ({t} \X gone) /\ Debt \cap ({t} \X gone) = {}
  <2> HIDE DEF gone
  <2>1. gone \subseteq Keys
    BY <1>2 DEF Present
  <2>2. Debt' = Debt \cup ({t} \X gone)
    BY <1>4, <1>5, <2>1 DEF Debt
  <2>3. Debt \cap ({t} \X gone) = {}
    BY <1>6 DEF Debt
  <2> QED
    BY <2>2, <2>3
<1> HIDE DEF gone
<1>8. /\ IsFiniteSet(Present) /\ IsFiniteSet(Debt) /\ IsFiniteSet(gone)
      /\ Cardinality(Present) \in Nat /\ Cardinality(Debt) \in Nat
      /\ Cardinality(gone) \in Nat
  BY <1>2, DebtFinite, FS_Subset, FS_CardinalityType DEF CountInv
<1>9. Cardinality(Present') = Cardinality(Present) - Cardinality(gone)
  <2>1. Present \cap gone = gone
    BY <1>2
  <2>2. Cardinality(Present \ gone) = Cardinality(Present) - Cardinality(Present \cap gone)
    BY <1>8, FS_Difference
  <2> QED
    BY <1>3, <2>1, <2>2
<1>10. Cardinality(Debt') = Cardinality(Debt) + Cardinality(gone)
  <2>1. IsFiniteSet({t} \X gone) /\ Cardinality({t} \X gone) = Cardinality(gone)
    BY <1>8, PairsCount
  <2>2. Cardinality(Debt \cup ({t} \X gone)) =
          Cardinality(Debt) + Cardinality({t} \X gone) - Cardinality(Debt \cap ({t} \X gone))
    BY <1>8, <2>1, FS_Union
  <2>3. Cardinality(Debt \cap ({t} \X gone)) = 0
    BY <1>7, FS_EmptySet
  <2>4. Cardinality(Debt \cup ({t} \X gone)) = Cardinality(Debt) + Cardinality(gone)
    BY <1>8, <2>1, <2>2, <2>3
  <2> QED
    BY <1>7, <2>4
<1>11. Cardinality(Present') + Cardinality(Debt') = Cardinality(Present) + Cardinality(Debt)
  BY <1>8, <1>9, <1>10
<1>12. total_keys_' = total_keys_ /\ drift' = drift
  BY DEF SweepShard
<1> QED
  BY <1>11, <1>12 DEF KeyCount, CountInv

\* The late fetch_sub pays the sweep's whole debt.
LEMMA SweepSettleCount ==
    ASSUME CountInv, NEW t \in Threads, SweepSettle(t)
    PROVE  KeyCount'
<1> DEFINE paid == {t} \X th[t].removed
<1>1. th \in [Threads -> Frame] /\ th[t] \in Frame
  BY DEF CountInv, Inv, TypeOK
<1>2. th'[t].removed = {} /\ \A u \in Threads \ {t} : th'[u] = th[u]
  BY <1>1 DEF SweepSettle, Return, Become, Idle
<1>3. paid \subseteq Debt /\ Debt' = Debt \ paid
  BY <1>1, <1>2 DEF Debt, Frame
<1>4. /\ IsFiniteSet(Debt) /\ IsFiniteSet(th[t].removed)
      /\ Cardinality(Present) \in Nat /\ Cardinality(Debt) \in Nat
      /\ Cardinality(th[t].removed) \in Nat
  BY <1>1, FiniteAssumption, DebtFinite, FS_Subset, FS_CardinalityType DEF CountInv, Frame
<1>5. IsFiniteSet(paid) /\ Cardinality(paid) = Cardinality(th[t].removed)
  BY <1>4, PairsCount
<1> HIDE DEF paid
<1>6. Cardinality(paid) <= Cardinality(Debt)
  BY <1>3, <1>4, FS_Subset
<1>7. Cardinality(Debt') = Cardinality(Debt) - Cardinality(paid)
  <2>1. Debt \cap paid = paid
    BY <1>3
  <2>2. Cardinality(Debt \ paid) = Cardinality(Debt) - Cardinality(Debt \cap paid)
    BY <1>4, FS_Difference
  <2> QED
    BY <1>3, <2>1, <2>2
<1>8. Present' = Present /\ drift' = drift
  BY DEF SweepSettle, Present
<1>9. total_keys_' = FetchSub(FetchSub(Cardinality(Present) + Cardinality(Debt), drift),
                              Cardinality(paid))
  BY <1>5 DEF SweepSettle, CountInv, KeyCount
<1>10. total_keys_' = FetchSub(Cardinality(Present) + Cardinality(Debt) - Cardinality(paid), drift)
  BY <1>4, <1>5, <1>6, <1>9, Bounds, SubAfterSub
<1>11. Cardinality(Present') + Cardinality(Debt')
         = Cardinality(Present) + Cardinality(Debt) - Cardinality(paid)
  BY <1>4, <1>5, <1>7, <1>8
<1> QED
  BY <1>8, <1>10, <1>11 DEF KeyCount

\* Calls, locks, snapshots and the bookkeeping of enforce_max_keys leave the
\* count, the entries and the debts alone; an eviction erases one key.
LEMMA OtherCount ==
    ASSUME CountInv, NEW t \in Threads,
           \/ \E r \in Requests : Call(t, r)
           \/ Acquire(t) \/ SnapshotShard(t) \/ SnapshotThrows(t)
           \/ TakeEvictedKeys(t) \/ Enforce(t)
    PROVE  KeyCount' /\ drift' <= Cardinality(Threads) * Cardinality(Keys)
<1>1. th[t] \in Frame /\ CallOK(th[t]) /\ Inv
  BY DEF CountInv, Inv, TypeOK, CallsOK
<1>2. ASSUME Return(t), th[t].pc \notin {"sweep", "settle"} PROVE Debt' = Debt
  BY <1>1, <1>2, ReturnLeaves, LeavesDebt
<1>3. CASE \E r \in Requests : Call(t, r)
  <2>1. Debt' = Debt
    BY <1>1, <1>3, BecomeDebt DEF Call, Frame
  <2> QED
    BY <1>3, <2>1, QuietCount DEF Call
<1>4. CASE Acquire(t)
  <2>1. Debt' = Debt
    BY <1>1, <1>4, BecomeDebt DEF Acquire, Frame
  <2> QED
    BY <1>4, <2>1, QuietCount DEF Acquire
<1>5. CASE SnapshotShard(t)
  <2>1. Debt' = Debt
    BY <1>1, <1>2, <1>5, BecomeDebt DEF SnapshotShard, Working, Frame
  <2> QED
    BY <1>5, <2>1, QuietCount DEF SnapshotShard
<1>6. CASE SnapshotThrows(t)
  <2>1. Debt' = Debt
    BY <1>6 DEF SnapshotThrows, Debt
  <2> QED
    BY <1>6, <2>1, QuietCount DEF SnapshotThrows
<1>7. CASE TakeEvictedKeys(t)
  <2>1. Debt' = Debt
    BY <1>2, <1>7 DEF TakeEvictedKeys
  <2> QED
    BY <1>7, <2>1, QuietCount DEF TakeEvictedKeys
<1>8. CASE EnforceCheck(t) \/ LockEviction(t) \/ StartScan(t) \/ Report(t) \/ LeaveEnforce(t)
  <2>1. Debt' = Debt
    BY <1>1, <1>2, <1>8, BecomeDebt
    DEF EnforceCheck, LockEviction, StartScan, Report, LeaveEnforce, Frame
  <2> QED
    BY <1>8, <2>1, QuietCount DEF EnforceCheck, LockEviction, StartScan, Report, LeaveEnforce
<1>9. CASE Scan(t)
  <2> DEFINE next == IF th[t].at = ShardCount - 1 THEN "evict" ELSE "scan"
             f == [th[t] EXCEPT !.pc = next, !.at = @ + 1]
             g(k) == [th[t] EXCEPT !.pc = next, !.at = @ + 1, !.victim = k,
                                   !.oldest = entries[k].last_access_sequence]
  <2>1. Become(t, f) \/ \E k \in Present : Become(t, g(k))
    BY <1>9 DEF Scan
  <2>2. Debt' = Debt
    <3>1. f.removed = th[t].removed /\ \A k \in Present : g(k).removed = th[t].removed
      BY <1>1 DEF Frame
    <3> HIDE DEF f, g
    <3> QED
      BY <1>1, <2>1, <3>1, BecomeDebt
  <2> QED
    BY <1>9, <2>2, QuietCount DEF Scan
<1>10. CASE Evict(t)
  <2>1. Debt' = Debt /\ drift' = drift
    BY <1>1, <1>10, BecomeDebt DEF Evict, Frame
  <2>2. CASE th[t].victim \in Present
    BY <1>10, <2>1, <2>2, EraseCount DEF Evict, CountInv
  <2>3. CASE th[t].victim \notin Present
    BY <1>10, <2>1, <2>3, QuietCount DEF Evict
  <2> QED
    BY <2>2, <2>3
<1> QED
  BY <1>3, <1>4, <1>5, <1>6, <1>7, <1>8, <1>9, <1>10 DEF Enforce

\* Every step preserves the strengthened invariant.
LEMMA NextCount == ASSUME CountInv, [Next]_vars PROVE CountInv'
<1>1. Inv'
  BY NextInv DEF CountInv
<1>2. CASE Tick \/ UNCHANGED vars
  <2>1. Debt' = Debt
    BY <1>2 DEF Tick, Debt
  <2> QED
    BY <1>1, <1>2, <2>1, QuietCount DEF Tick, CountInv
<1>3. ASSUME NEW t \in Threads, NEW r \in Requests, Call(t, r) PROVE CountInv'
  BY <1>1, <1>3, OtherCount DEF CountInv
<1>4. ASSUME NEW t \in Threads, Step(t) PROVE CountInv'
  <2>1. CASE Keyed(t)
    <3>1. drift' = drift
      BY <2>1, KeyedStep DEF CountInv
    <3> QED
      BY <1>1, <2>1, <3>1, KeyedCount DEF CountInv
  <2>2. CASE Flush(t)
    BY <1>1, <2>2, FlushCount DEF CountInv
  <2>3. CASE SweepShard(t)
    BY <1>1, <2>3, SweepShardCount DEF CountInv, SweepShard
  <2>4. CASE SweepSettle(t)
    BY <1>1, <2>4, SweepSettleCount DEF CountInv, SweepSettle
  <2>5. CASE \/ Acquire(t) \/ SnapshotShard(t) \/ SnapshotThrows(t)
             \/ TakeEvictedKeys(t) \/ Enforce(t)
    BY <1>1, <2>5, OtherCount DEF CountInv
  <2> QED
    BY <1>4, <2>1, <2>2, <2>3, <2>4, <2>5 DEF Step
<1> QED
  BY <1>2, <1>3, <1>4 DEF Next, Finished

\* The empty store satisfies it.
LEMMA InitCount == Init => CountInv
<1> SUFFICES ASSUME Init PROVE CountInv
  OBVIOUS
<1>1. Inv
  BY InitInv
<1>2. Present = {} /\ Debt = {}
  BY DEF Init, Present, Debt, Empty, Idle
<1>3. Cardinality(Present) = 0 /\ Cardinality(Debt) = 0
  BY <1>2, FS_EmptySet
<1>4. KeyCount
  BY <1>3 DEF Init, KeyCount, FetchSub
<1>5. Cardinality(Keys) \in Nat /\ Cardinality(Threads) \in Nat
  BY FiniteAssumption, FS_CardinalityType
<1>6. drift <= Cardinality(Threads) * Cardinality(Keys)
  BY <1>5 DEF Init
<1> QED
  BY <1>1, <1>4, <1>6 DEF CountInv

\* total_keys_ never loses track of a key on its own: whatever threads do,
\* it is the entries plus the debts of running sweeps, less the drift that
\* only a FLUSH in the middle of a sweep creates.
THEOREM KeyCountCorrect == Spec => []KeyCount
<1>1. CountInv => KeyCount
  BY DEF CountInv
<1> QED
  BY <1>1, InitCount, NextCount, PTL DEF Spec

\* As long as no FLUSH overlaps a sweep, KEYS and SAVE cannot fail to
\* reserve their result and take the process down.
THEOREM NoAbortWithoutDrift == Spec => []AbortsOnlyAfterDrift
<1>1. Init => AbortsOnlyAfterDrift
  BY DEF Init, AbortsOnlyAfterDrift
<1>2. ASSUME CountInv, AbortsOnlyAfterDrift, [Next]_vars PROVE AbortsOnlyAfterDrift'
  <2>1. CASE aborted
    BY <1>2, <2>1 DEF Next, Finished, AbortsOnlyAfterDrift
  <2>2. ASSUME NEW t \in Threads, SnapshotThrows(t) PROVE AbortsOnlyAfterDrift'
    <3>1. total_keys_ > MaxVectorSize /\ drift' = drift
      BY <2>2 DEF SnapshotThrows
    <3>2. total_keys_ = FetchSub(Cardinality(Present) + Cardinality(Debt), drift)
      BY <1>2 DEF CountInv, KeyCount
    <3>3. drift # 0
      BY <1>2, <3>1, <3>2, Bounds, SizeAssumption DEF FetchSub
    <3> QED
      BY <1>2, <3>1, <3>3, Bounds DEF AbortsOnlyAfterDrift
  <2>3. ASSUME ~aborted, aborted' PROVE \E t \in Threads : SnapshotThrows(t)
    BY <1>2, <2>3, KeyedStep
    DEF CountInv, Next, Finished, Tick, Call, Step, Acquire, Flush, SnapshotShard, SweepShard,
        SweepSettle, TakeEvictedKeys, Enforce, EnforceCheck, LockEviction, StartScan,
        Scan, Evict, Report, LeaveEnforce
  <2> QED
    BY <2>1, <2>2, <2>3 DEF AbortsOnlyAfterDrift
<1> QED
  BY <1>1, <1>2, InitCount, NextCount, PTL DEF Spec
=============================================================================
