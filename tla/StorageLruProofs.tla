------------------------- MODULE StorageLruProofs --------------------------
(***************************************************************************)
(* enforce_max_keys evicts a key that was the least recently used one,     *)
(* although it looks at the shards one after the other.                    *)
(*                                                                         *)
(* The invariant follows the scan: in the shards it has passed, a key is   *)
(* at least as recent as the victim found so far, or was stamped after the *)
(* scan began.  It survives the other threads because stamps only grow.    *)
(***************************************************************************)
EXTENDS StorageEngineProofs

USE DEF engine, world, aside, vars

Stamp(k) == entries[k].last_access_sequence

\* What holds of a frame f whose thread is looking for a victim.
ScanOK(f) ==
    f.pc \in {"scan", "evict"} =>
      /\ f.started <= access_sequence_
      /\ f.pc = "scan" => f.at \in Shards
      /\ f.pc = "evict" => f.at = ShardCount
      /\ \A k \in Present : shard_index[k] < f.at =>
           Stamp(k) > f.started \/ (f.victim # NoKey /\ Stamp(k) >= f.oldest)

LruInv == Inv /\ \A t \in Threads : ScanOK(th[t])

\* Stamps only grow: an entry is as it was, or was stamped by this step.
StampStep ==
    /\ access_sequence_' \in Nat /\ access_sequence_' >= access_sequence_
    /\ \A k \in Present' : \/ k \in Present /\ Stamp(k)' = Stamp(k)
                           \/ Stamp(k)' \in Nat /\ Stamp(k)' > access_sequence_

\* A step that only moves stamps on keeps every frame's claim.
LEMMA StampKeeps ==
    ASSUME Inv, StampStep, NEW f \in Frame, ScanOK(f)
    PROVE  ScanOK(f)'
<1> SUFFICES ASSUME f.pc \in {"scan", "evict"}
             PROVE  /\ f.started <= access_sequence_'
                    /\ f.pc = "scan" => f.at \in Shards
                    /\ f.pc = "evict" => f.at = ShardCount
                    /\ \A k \in Present' : shard_index[k] < f.at =>
                         Stamp(k)' > f.started \/ (f.victim # NoKey /\ Stamp(k)' >= f.oldest)
  BY DEF ScanOK
<1>1. f.started \in Nat /\ access_sequence_ \in Nat /\ f.started <= access_sequence_
  BY DEF ScanOK, Frame, Inv, TypeOK
<1>2. ASSUME NEW k \in Present', shard_index[k] < f.at
      PROVE  Stamp(k)' > f.started \/ (f.victim # NoKey /\ Stamp(k)' >= f.oldest)
  <2>1. CASE k \in Present /\ Stamp(k)' = Stamp(k)
    BY <1>2, <2>1 DEF ScanOK
  <2>2. CASE Stamp(k)' \in Nat /\ Stamp(k)' > access_sequence_
    BY <1>1, <2>2
  <2> QED
    BY <1>2, <2>1, <2>2 DEF StampStep
<1> QED
  BY <1>1, <1>2 DEF StampStep, ScanOK

\* One thread moves to a frame that makes no claim, or a claim that holds.
LEMMA BecomeScan ==
    ASSUME LruInv, StampStep, NEW t \in Threads, NEW f, Become(t, f), ScanOK(f)'
    PROVE  \A u \in Threads : ScanOK(th[u])'
<1>1. th \in [Threads -> Frame]
  BY DEF LruInv, Inv, TypeOK
<1>2. \A u \in Threads : th'[u] = IF u = t THEN f ELSE th[u]
  BY <1>1 DEF Become
<1>3. \A u \in Threads : ScanOK(th[u]) /\ th[u] \in Frame
  BY <1>1 DEF LruInv
<1> SUFFICES ASSUME NEW u \in Threads PROVE ScanOK(th[u])'
  OBVIOUS
<1>4. CASE u = t
  <2>1. th'[u] = f
    BY <1>2, <1>4
  <2> QED
    BY <2>1 DEF ScanOK
<1>5. CASE u # t
  <2>1. th'[u] = th[u]
    BY <1>2, <1>5
  <2>2. PICK g \in Frame : g = th[u]
    BY <1>3
  <2>3. ScanOK(g)
    BY <1>3, <2>2
  <2>4. ScanOK(g)'
    BY <2>3, StampKeeps DEF LruInv
  <2> QED
    BY <2>1, <2>2, <2>4 DEF ScanOK
<1> QED
  BY <1>4, <1>5

\* Leaving the entries alone leaves the stamps alone.
LEMMA QuietStamps ==
    ASSUME Inv, UNCHANGED <<entries, access_sequence_>>
    PROVE  StampStep
  BY DEF StampStep, Present, Stamp, Inv, TypeOK

\* Erasing a key leaves the other stamps alone.
LEMMA EraseStamps ==
    ASSUME Inv, NEW k \in Keys, Erase(k)
    PROVE  StampStep
  BY DEF StampStep, Present, Stamp, Inv, TypeOK, Erase

\* Storing a key gives it a stamp beyond all earlier ones.
LEMMA StoreStamps ==
    ASSUME Inv, NEW k \in Keys, NEW v, NEW e, Store(k, v, e)
    PROVE  StampStep
<1>1. access_sequence_ \in Nat /\ access_sequence_' = access_sequence_ + 1
  BY DEF Store, Inv, TypeOK
<1>2. entries'[k].last_access_sequence = access_sequence_ + 1
  BY DEF Store, Inv, TypeOK
<1>3. \A j \in Keys \ {k} : entries'[j] = entries[j]
  BY DEF Store, Inv, TypeOK
<1> QED
  BY <1>1, <1>2, <1>3 DEF StampStep, Present, Stamp

\* A frame that is not looking for a victim claims nothing.
LEMMA IdleScan ==
    ASSUME LruInv, StampStep, NEW t \in Threads, NEW f, Become(t, f),
           f.pc \notin {"scan", "evict"}
    PROVE  \A u \in Threads : ScanOK(th[u])'
<1>1. ScanOK(f)'
  BY DEF ScanOK
<1> QED
  BY <1>1, BecomeScan

\* A keyed call's next frame claims nothing.
LEMMA LeavesScan ==
    ASSUME LruInv, StampStep, NEW t \in Threads, Leaves(t)
    PROVE  \A u \in Threads : ScanOK(th[u])'
<1>1. PICK f : Become(t, f) /\ f.pc \notin {"scan", "evict"}
  BY DEF Leaves
<1> QED
  BY <1>1, IdleScan

\* Neither does the frame of a call that returns.
LEMMA ReturnScan ==
    ASSUME LruInv, UNCHANGED <<entries, access_sequence_>>, NEW t \in Threads, Return(t)
    PROVE  \A u \in Threads : ScanOK(th[u])'
  BY QuietStamps, ReturnLeaves, LeavesScan DEF LruInv

\* No frame moves.
LEMMA StayScan ==
    ASSUME LruInv, StampStep, UNCHANGED th
    PROVE  \A u \in Threads : ScanOK(th[u])'
<1> SUFFICES ASSUME NEW u \in Threads PROVE ScanOK(th[u])'
  OBVIOUS
<1>1. th \in [Threads -> Frame] /\ Become(u, th[u])
  BY DEF LruInv, Inv, TypeOK, Become
<1>2. PICK f \in Frame : f = th[u]
  BY <1>1
<1>3. ScanOK(f)'
  BY <1>2, StampKeeps DEF LruInv
<1> QED
  BY <1>1, <1>2, <1>3, BecomeScan

\* A search that has visited no shard claims nothing yet.
LEMMA StartScanOK ==
    ASSUME LruInv, NEW t \in Threads, StartScan(t)
    PROVE  \A u \in Threads : ScanOK(th[u])'
<1>1. PICK f : f = [th[t] EXCEPT !.pc = "scan", !.at = 0, !.victim = NoKey,
                                 !.oldest = 0, !.started = access_sequence_]
  OBVIOUS
<1>2. th[t] \in Frame /\ access_sequence_ \in Nat /\ access_sequence_' = access_sequence_
  BY DEF LruInv, Inv, TypeOK, StartScan
<1>3. f.pc = "scan" /\ f.at = 0 /\ f.started = access_sequence_
  BY <1>1, <1>2 DEF Frame
<1>4. \A k \in Keys : ~(shard_index[k] < 0)
  BY ShardAssumption DEF Shards
<1>5. ScanOK(f)'
  BY <1>2, <1>3, <1>4, ShardAssumption DEF ScanOK, Shards, Present
<1>6. StampStep
  BY QuietStamps DEF StartScan, LruInv
<1> QED
  BY <1>1, <1>5, <1>6, BecomeScan DEF StartScan

\* One more shard: the victim stays or is replaced by an older key, and the
\* claim now covers this shard too.
LEMMA ScanStepOK ==
    ASSUME LruInv, NEW t \in Threads, Scan(t)
    PROVE  \A u \in Threads : ScanOK(th[u])'
<1> DEFINE next == IF th[t].at = ShardCount - 1 THEN "evict" ELSE "scan"
           older == {k \in Present : /\ shard_index[k] = th[t].at
                                     /\ th[t].victim = NoKey \/ Stamp(k) < th[t].oldest}
<1>1. th[t] \in Frame /\ th[t].pc = "scan" /\ th[t].at \in Shards /\ ScanOK(th[t])
  BY DEF LruInv, Inv, TypeOK, Scan, ScanOK
<1>2. /\ Present' = Present /\ \A k \in Keys : Stamp(k)' = Stamp(k)
      /\ access_sequence_' = access_sequence_
  BY DEF Scan, Present, Stamp
<1>3. StampStep
  BY QuietStamps DEF Scan, LruInv
<1>4. \A k \in Present : k \in Keys /\ Stamp(k) \in Nat /\ shard_index[k] \in Shards
  BY ShardAssumption DEF LruInv, Inv, TypeOK, Present, ValueEntry, Stamp
<1>5. /\ th[t].started <= access_sequence_ /\ th[t].oldest \in Nat
      /\ \A k \in Present : shard_index[k] < th[t].at =>
           Stamp(k) > th[t].started \/ (th[t].victim # NoKey /\ Stamp(k) >= th[t].oldest)
  BY <1>1 DEF ScanOK, Frame
<1>6. /\ next = "evict" => th[t].at + 1 = ShardCount
      /\ next = "scan" => th[t].at + 1 \in Shards
      /\ next \in {"scan", "evict"}
      /\ \A k \in Present : shard_index[k] < th[t].at + 1 =>
           shard_index[k] < th[t].at \/ shard_index[k] = th[t].at
  BY <1>1, <1>4, ShardAssumption DEF Shards
<1>7. CASE older = {} /\ Become(t, [th[t] EXCEPT !.pc = next, !.at = @ + 1])
  <2>1. PICK f : f = [th[t] EXCEPT !.pc = next, !.at = @ + 1]
    OBVIOUS
  <2> HIDE DEF next
  <2>2. /\ f.pc = next /\ f.at = th[t].at + 1 /\ f.started = th[t].started
        /\ f.victim = th[t].victim /\ f.oldest = th[t].oldest
    BY <1>1, <2>1 DEF Frame
  <2>3. \A k \in Present : shard_index[k] = th[t].at =>
          th[t].victim # NoKey /\ Stamp(k) >= th[t].oldest
    BY <1>4, <1>5, <1>7
  <2>4. ScanOK(f)'
    BY <1>2, <1>5, <1>6, <2>2, <2>3 DEF ScanOK, Present
  <2> QED
    BY <1>3, <1>7, <2>1, <2>4, BecomeScan
<1>8. ASSUME NEW v \in older, \A j \in older : Stamp(v) <= Stamp(j),
             Become(t, [th[t] EXCEPT !.pc = next, !.at = @ + 1, !.victim = v,
                                     !.oldest = entries[v].last_access_sequence])
      PROVE  \A u \in Threads : ScanOK(th[u])'
  <2>1. PICK f : f = [th[t] EXCEPT !.pc = next, !.at = @ + 1, !.victim = v,
                                   !.oldest = entries[v].last_access_sequence]
    OBVIOUS
  <2> HIDE DEF next
  <2>2. /\ f.pc = next /\ f.at = th[t].at + 1 /\ f.started = th[t].started
        /\ f.victim = v /\ f.oldest = Stamp(v)
    BY <1>1, <2>1 DEF Frame, Stamp
  <2>3. v # NoKey /\ Stamp(v) \in Nat
    BY <1>4, <1>8, ValueAssumption
  <2>4. \A k \in Present : shard_index[k] = th[t].at => Stamp(k) >= Stamp(v)
    BY <1>4, <1>5, <1>8, <2>3
  <2>5. th[t].victim # NoKey => Stamp(v) < th[t].oldest
    BY <1>8
  <2>6. \A k \in Present : shard_index[k] < th[t].at + 1 =>
          Stamp(k) > th[t].started \/ Stamp(k) >= Stamp(v)
    BY <1>4, <1>5, <1>6, <2>3, <2>4, <2>5
  <2>7. ScanOK(f)'
    BY <1>2, <1>5, <1>6, <2>2, <2>3, <2>6 DEF ScanOK, Present
  <2> QED
    BY <1>3, <1>8, <2>1, <2>7, BecomeScan
<1> QED
  BY <1>7, <1>8 DEF Scan, Stamp

\* Every step preserves the claims of all searches.
LEMMA NextLru == ASSUME LruInv, [Next]_vars PROVE LruInv'
<1>1. Inv' /\ Inv
  BY NextInv DEF LruInv
<1> SUFFICES \A u \in Threads : ScanOK(th[u])'
  BY <1>1 DEF LruInv
<1>2. CASE Tick \/ UNCHANGED vars
  BY <1>1, <1>2, QuietStamps, StayScan DEF Tick
<1>3. ASSUME NEW t \in Threads, NEW r \in Requests, Call(t, r)
      PROVE  \A u \in Threads : ScanOK(th[u])'
  <2>1. th[t] \in Frame
    BY <1>1 DEF Inv, TypeOK
  <2> DEFINE g == [th[t] EXCEPT !.pc = FirstPc(r.op), !.req = r, !.now = clock,
                                !.at = IF r.op \in KeyOps THEN 1 ELSE 0]
  <2>2a. Become(t, g)
    BY <1>3 DEF Call
  <2>2b. g.pc = FirstPc(r.op)
    BY <2>1 DEF Frame
  <2> HIDE DEF g
  <2>2. PICK f : Become(t, f) /\ f.pc = FirstPc(r.op)
    BY <2>2a, <2>2b
  <2> QED
    BY <1>1, <1>3, <2>2, QuietStamps, IdleScan DEF Call, FirstPc
<1>4. ASSUME NEW t \in Threads, Step(t) PROVE \A u \in Threads : ScanOK(th[u])'
  <2>t. th[t] \in Frame
    BY <1>1 DEF Inv, TypeOK
  <2>1. CASE Keyed(t)
    <3>1. KeyedEffect /\ Leaves(t)
      BY <1>1, <2>1, KeyedStep
    <3>2. StampStep
      BY <1>1, <3>1, QuietStamps, EraseStamps, StoreStamps DEF KeyedEffect, Present
    <3> QED
      BY <3>1, <3>2, LeavesScan
  <2>2. CASE Acquire(t)
    <3> DEFINE g(s) == [th[t] EXCEPT !.held = @ \cup {s},
                 !.pc = IF LockSet(t) \subseteq th[t].held \cup {s} THEN "work" ELSE "acquire"]
    <3>a. PICK s : Become(t, g(s))
      BY <2>2 DEF Acquire
    <3>b. g(s).pc \in {"work", "acquire"}
      BY <2>t DEF Frame
    <3> HIDE DEF g
    <3>1. PICK f : Become(t, f) /\ f.pc \in {"work", "acquire"}
      BY <3>a, <3>b
    <3> QED
      BY <1>1, <2>2, <3>1, QuietStamps, IdleScan DEF Acquire
  <2>3. CASE Flush(t)
    <3>1. StampStep
      BY <1>1, <2>3 DEF Flush, StampStep, Present, Empty, Inv, TypeOK
    <3> QED
      BY <2>3, <3>1, ReturnLeaves, LeavesScan DEF Flush
  <2>4. CASE SnapshotShard(t)
    <3>1. PICK f : Become(t, f) /\ f.pc \in {"work", "idle"}
      BY <2>4, <2>t DEF SnapshotShard, Frame, Working, Return, Idle
    <3> QED
      BY <1>1, <2>4, <3>1, QuietStamps, IdleScan DEF SnapshotShard
  <2>5. CASE SnapshotThrows(t)
    BY <1>1, <2>5, QuietStamps, StayScan DEF SnapshotThrows
  <2>6. CASE SweepShard(t)
    <3>1. StampStep
      BY <1>1, <2>6 DEF SweepShard, StampStep, Present, Stamp, Inv, TypeOK
    <3> DEFINE g(gone) == [th[t] EXCEPT !.removed = @ \cup gone, !.at = @ + 1,
                 !.pc = IF th[t].at = ShardCount - 1 THEN "settle" ELSE "sweep"]
    <3>a. PICK gone : Become(t, g(gone))
      BY <2>6 DEF SweepShard
    <3>b. g(gone).pc \in {"sweep", "settle"}
      BY <2>t DEF Frame
    <3> HIDE DEF g
    <3>2. PICK f : Become(t, f) /\ f.pc \in {"sweep", "settle"}
      BY <3>a, <3>b
    <3> QED
      BY <3>1, <3>2, IdleScan
  <2>7. CASE SweepSettle(t) \/ TakeEvictedKeys(t)
    BY <2>7, ReturnScan DEF SweepSettle, TakeEvictedKeys
  <2>8. CASE EnforceCheck(t) \/ LockEviction(t) \/ Report(t) \/ LeaveEnforce(t)
    <3>1. CASE Return(t)
      BY <2>8, <3>1, ReturnScan DEF EnforceCheck, LockEviction, Report, LeaveEnforce
    <3>2. CASE ~Return(t)
      <4> DEFINE g(p) == [th[t] EXCEPT !.pc = p]
                 r == [th[t] EXCEPT !.pc = "loop", !.held = {}]
      <4>a. Become(t, g("lock_eviction")) \/ Become(t, g("loop")) \/ Become(t, r)
        BY <2>8, <3>2 DEF EnforceCheck, LockEviction, Report, LeaveEnforce
      <4>b. r.pc = "loop" /\ \A p : g(p).pc = p
        BY <2>t DEF Frame
      <4> HIDE DEF g, r
      <4>1. PICK f : Become(t, f) /\ f.pc \in {"lock_eviction", "loop"}
        BY <4>a, <4>b
      <4> QED
        BY <1>1, <2>8, <4>1, QuietStamps, IdleScan DEF EnforceCheck, LockEviction, Report, LeaveEnforce
    <3> QED
      BY <3>1, <3>2
  <2>9. CASE StartScan(t) \/ Scan(t)
    BY <2>9, StartScanOK, ScanStepOK
  <2>10. CASE Evict(t)
    <3>1. StampStep
      BY <1>1, <2>10, <2>t, QuietStamps, EraseStamps DEF Evict, Frame
    <3> DEFINE g == [th[t] EXCEPT !.pc = "report", !.held = {shard_index[th[t].victim]}]
               r == [th[t] EXCEPT !.pc = "loop"]
    <3>a. Become(t, g) \/ Become(t, r)
      BY <2>10 DEF Evict
    <3>b. g.pc = "report" /\ r.pc = "loop"
      BY <2>t DEF Frame
    <3> HIDE DEF g, r
    <3>2. PICK f : Become(t, f) /\ f.pc \in {"loop", "report"}
      BY <3>a, <3>b
    <3> QED
      BY <3>1, <3>2, IdleScan
  <2> QED
    BY <1>4, <2>1, <2>2, <2>3, <2>4, <2>5, <2>6, <2>7, <2>8, <2>9, <2>10 DEF Step, Enforce
<1> QED
  BY <1>2, <1>3, <1>4 DEF Next, Finished

\* Approximate LRU: no key that was left alone while enforce_max_keys was
\* searching is older than the victim it is about to erase.
THEOREM EvictsOldestCorrect == Spec => []EvictsOldest
<1>1. Init => LruInv
  BY InitInv DEF Init, LruInv, ScanOK, Idle
<1>2. LruInv => EvictsOldest
  <2> SUFFICES ASSUME LruInv, NEW t \in Threads, th[t].pc = "evict", th[t].victim # NoKey,
                      NEW k \in Present
               PROVE  Stamp(k) >= th[t].oldest \/ Stamp(k) > th[t].started
    BY DEF EvictsOldest, Stamp
  <2>1. shard_index[k] < th[t].at
    BY ShardAssumption DEF LruInv, ScanOK, Present, Shards
  <2> QED
    BY <2>1 DEF LruInv, ScanOK
<1> QED
  BY <1>1, <1>2, NextLru, PTL DEF Spec
=============================================================================
