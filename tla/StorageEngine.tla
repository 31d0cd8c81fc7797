--------------------------- MODULE StorageEngine ---------------------------
(***************************************************************************)
(* The sharded in-memory store of src/storage_engine.cpp under concurrent  *)
(* callers: command workers, the TTL sweeper and connection threads.       *)
(*                                                                         *)
(* One public call is a request a thread steps through.  A step is the     *)
(* code between two points at which another thread can observe the store:  *)
(* taking a shard mutex, an update of the unlocked atomic total_keys_, and *)
(* releasing the mutexes.  What a thread does to the entries of a shard    *)
(* whose mutex it holds is invisible to the others until it lets go, so it *)
(* is fused with the next visible effect.                                  *)
(***************************************************************************)
EXTENDS Integers, Sequences, FiniteSets

CONSTANTS
    Keys, Threads,
    ShardCount, shard_index,   \* shards_.size() and the hash of a key
    MaxKeys,                   \* max_keys_, 0 for no limit
    SizeMax,                   \* size_t holds 0 .. SizeMax
    MaxVectorSize,             \* vector::reserve throws above this
    MinLongLong, MaxLongLong,
    Text,                      \* any value from_chars rejects
    NoEntry, NoExpiry, NoKey, NoThread, NoRequest,
    Requests,                  \* calls clients issue: [op, keys, args]
    MaxCalls, MaxTime          \* bounds: calls begun, ticks of Clock

Shards == 0 .. ShardCount - 1
Values == MinLongLong .. MaxLongLong \cup {Text}
Expiries == Nat \cup {NoExpiry}

\* ValueEntry; created_at is never read and is left out.
ValueEntry == [value : Values, expires_at : Expiries, last_access_sequence : Nat]
SnapshotEntry == [value : Values, expires_at : Expiries]

SingleKeyOps == {"set", "get", "del", "expire_at", "ttl", "persist", "increment", "append"}
KeyOps == SingleKeyOps \cup {"mset", "mget"}
Ops == KeyOps \cup {"flush", "snapshot_entries", "cleanup_expired", "take_evicted_keys"}

\* A request as the command layer passes it on: as many arguments as keys
\* for SET and MSET, one timestamp for EXPIREAT, one delta for INCR and DECR.
WellFormed(r) ==
    /\ r.op \in Ops
    /\ r.keys \in Seq(Keys)
    /\ r.op \in KeyOps => Len(r.keys) > 0
    /\ r.op \in SingleKeyOps => Len(r.keys) = 1
    /\ r.op \in {"set", "mset"} => \A i \in 1 .. Len(r.keys) : r.args[i] \in Values
    /\ r.op = "expire_at" => r.args[1] \in Nat
    /\ r.op = "increment" => r.args[1] \in {-1, 1}

ASSUME FiniteAssumption == IsFiniteSet(Keys) /\ IsFiniteSet(Threads)

ASSUME ShardAssumption ==
    /\ ShardCount \in Nat \ {0}
    /\ shard_index \in [Keys -> Shards]

\* size_t is wide enough to count every key once per thread and once more.
ASSUME SizeAssumption ==
    /\ MaxKeys \in Nat
    /\ SizeMax \in Nat
    /\ MaxVectorSize \in Nat
    /\ Cardinality(Keys) + Cardinality(Threads) * Cardinality(Keys) <= SizeMax
    /\ Cardinality(Keys) + Cardinality(Threads) * Cardinality(Keys) <= MaxVectorSize

ASSUME ValueAssumption ==
    /\ MinLongLong \in Int /\ MaxLongLong \in Int
    /\ MinLongLong <= -1 /\ 1 <= MaxLongLong
    /\ Text \notin Int
    /\ NoExpiry \notin Nat
    /\ NoEntry \notin ValueEntry
    /\ NoEntry \notin SnapshotEntry
    /\ NoKey \notin Keys
    /\ NoThread \notin Threads

ASSUME RequestAssumption ==
    /\ NoRequest \notin Requests
    /\ \A r \in Requests : WellFormed(r)

ASSUME BoundAssumption == MaxCalls \in Nat /\ MaxTime \in Nat
-----------------------------------------------------------------------------
VARIABLES
    entries,             \* the entries of all shards, NoEntry where absent
    total_keys_, access_sequence_, eviction_mutex_, pending_evicted_keys_,
    aborted,             \* an exception left a worker: std::terminate
    th,                  \* what each thread is doing, see Frame
    snap,                \* the last snapshot each thread collected
    clock, calls,        \* system time; calls begun
    drift                \* history: keys a sweep in progress had erased, and
                         \* had yet to subtract, when FLUSH zeroed the count

engine == <<entries, total_keys_, access_sequence_>>
world == <<aborted, clock, calls>>
aside == <<eviction_mutex_, pending_evicted_keys_, snap, world, drift>>
vars == <<entries, total_keys_, access_sequence_, eviction_mutex_,
          pending_evicted_keys_, aborted, th, snap, clock, calls, drift>>

PCs == {"idle", "acquire", "work", "sweep", "settle", "take",
        "check", "lock_eviction", "loop", "scan", "evict", "report"}

\* A thread's stack: where it is, its call, the time the call read, its place
\* in a loop over keys or shards, the shard mutexes it holds, the keys its
\* sweep erased and has not subtracted yet, the locals of enforce_max_keys,
\* and (history) access_sequence_ when its search for a victim began.
Frame == [pc : PCs, req : Requests \cup {NoRequest}, now : Nat, at : Nat,
          held : SUBSET Shards, removed : SUBSET Keys,
          victim : Keys \cup {NoKey}, oldest : Nat, started : Nat]

Idle == [pc |-> "idle", req |-> NoRequest, now |-> 0, at |-> 0, held |-> {},
         removed |-> {}, victim |-> NoKey, oldest |-> 0, started |-> 0]

Empty == [k \in Keys |-> NoEntry]

Init ==
    /\ entries = Empty
    /\ total_keys_ = 0 /\ access_sequence_ = 0
    /\ eviction_mutex_ = NoThread /\ pending_evicted_keys_ = <<>>
    /\ aborted = FALSE
    /\ th = [t \in Threads |-> Idle]
    /\ snap = [t \in Threads |-> Empty]
    /\ clock = 0 /\ calls = 0 /\ drift = 0
-----------------------------------------------------------------------------
Present == {k \in Keys : entries[k] # NoEntry}

\* Keys erased by sweeps whose fetch_sub is still to come.
Debt == {d \in Threads \X Keys : d[2] \in th[d[1]].removed}

\* fetch_add and fetch_sub on a size_t, for n <= SizeMax.
FetchAdd(x, n) == IF x + n <= SizeMax THEN x + n ELSE x + n - SizeMax - 1
FetchSub(x, n) == IF n <= x THEN x - n ELSE x + SizeMax + 1 - n

is_expired(entry, time) == entry.expires_at # NoExpiry /\ entry.expires_at <= time
Expired(k, time) == k \in Present /\ is_expired(entries[k], time)

\* The key, argument and start time of t's call; op with its locks held.
Op(t) == th[t].req.op
Key(t) == th[t].req.keys[th[t].at]
Arg(t) == th[t].req.args[th[t].at]
Gone(t) == Expired(Key(t), th[t].now)
OnLastKey(t) == th[t].at = Len(th[t].req.keys)
Working(t, op) == th[t].pc = "work" /\ Op(t) = op

\* erase(it) and its fetch_sub(1)
Erase(k) ==
    /\ entries' = [entries EXCEPT ![k] = NoEntry]
    /\ total_keys_' = FetchSub(total_keys_, 1)
    /\ UNCHANGED access_sequence_

\* emplace, overwrite or touch: each takes a fresh stamp.
Store(k, value, expires_at) ==
    /\ entries' = [entries EXCEPT ![k] =
                     [value |-> value, expires_at |-> expires_at,
                      last_access_sequence |-> access_sequence_ + 1]]
    /\ access_sequence_' = access_sequence_ + 1
    /\ total_keys_' = IF k \in Present THEN total_keys_ ELSE FetchAdd(total_keys_, 1)

Become(t, frame) == th' = [th EXCEPT ![t] = frame]
Return(t) == Become(t, Idle)

\* Slip: the call to enforce_max_keys() is left out.
UnlockOnly(t) == Return(t)

\* The shard locks go out of scope and enforce_max_keys() follows.
UnlockAndEnforce(t) == Become(t, [th[t] EXCEPT !.pc = "check", !.held = {}])
-----------------------------------------------------------------------------
(***************************************************************************)
(* Calling and locking                                                     *)
(***************************************************************************)
CanLock(t, s) == \A u \in Threads \ {t} : s \notin th[u].held
CanLockShared(t, s) ==
    \A u \in Threads \ {t} : s \in th[u].held => Op(u) = "snapshot_entries"

\* The mutexes a call holds together: all of them for flush and snapshots,
\* those of its keys for mset, that of the current key otherwise.
LockSet(t) ==
    IF Op(t) \in {"flush", "snapshot_entries"} THEN Shards
    ELSE IF Op(t) = "mset"
         THEN {shard_index[th[t].req.keys[i]] : i \in 1 .. Len(th[t].req.keys)}
         ELSE {shard_index[Key(t)]}

FirstPc(op) == IF op = "cleanup_expired" THEN "sweep"
               ELSE IF op = "take_evicted_keys" THEN "take" ELSE "acquire"

Call(t, r) ==
    /\ th[t].pc = "idle"
    /\ calls < MaxCalls
    /\ calls' = calls + 1
    /\ Become(t, [th[t] EXCEPT !.pc = FirstPc(r.op), !.req = r, !.now = clock,
                         !.at = IF r.op \in KeyOps THEN 1 ELSE 0])
    /\ snap' = [snap EXCEPT ![t] = Empty]
    /\ UNCHANGED <<engine, eviction_mutex_, pending_evicted_keys_, aborted, clock, drift>>

\* Block on the lowest mutex of the lock set not yet held.
Acquire(t) ==
    /\ th[t].pc = "acquire"
    /\ \E s \in LockSet(t) \ th[t].held :
          /\ \A u \in LockSet(t) \ th[t].held : s <= u
          /\ IF Op(t) = "snapshot_entries" THEN CanLockShared(t, s) ELSE CanLock(t, s)
          /\ Become(t, [th[t] EXCEPT !.held = @ \cup {s},
                !.pc = IF LockSet(t) \subseteq th[t].held \cup {s} THEN "work" ELSE "acquire"])
    /\ UNCHANGED <<engine, aside>>
-----------------------------------------------------------------------------
(***************************************************************************)
(* Bodies of the keyed calls, run with their mutexes held                  *)
(***************************************************************************)
\* set, mset, increment and append first erase an expired entry: the count
\* is one short until the new entry is added.
PurgeExpired(t) ==
    /\ th[t].pc = "work"
    /\ Op(t) \in {"set", "mset", "increment", "append"}
    /\ Gone(t)
    /\ Erase(Key(t))
    /\ UNCHANGED <<th, aside>>

Set(t) ==
    /\ Working(t, "set") /\ ~Gone(t)
    /\ Store(Key(t), Arg(t), NoExpiry)
    /\ UnlockAndEnforce(t)
    /\ UNCHANGED aside

\* Slip: mset lets go of the mutexes between two pairs.
MsetInPieces(t) ==
    /\ Working(t, "mset") /\ ~Gone(t)
    /\ Store(Key(t), Arg(t), NoExpiry)
    /\ \/ OnLastKey(t) /\ UnlockAndEnforce(t)
       \/ ~OnLastKey(t) /\ Become(t, [th[t] EXCEPT !.pc = "acquire", !.held = {}, !.at = @ + 1])
    /\ UNCHANGED aside

\* One pair of the loop; the mutexes are released after the last one.
Mset(t) ==
    /\ Working(t, "mset") /\ ~Gone(t)
    /\ Store(Key(t), Arg(t), NoExpiry)
    /\ \/ OnLastKey(t) /\ UnlockAndEnforce(t)
       \/ ~OnLastKey(t) /\ Become(t, [th[t] EXCEPT !.at = @ + 1])
    /\ UNCHANGED aside

\* A read looks the key up, erases it if expired, and touches it otherwise.
Miss(t) == Key(t) \notin Present /\ UNCHANGED engine
Lapse(t) == Gone(t) /\ Erase(Key(t))
Live(t) == Key(t) \in Present /\ ~Gone(t)
Hit(t) == Live(t) /\ Store(Key(t), entries[Key(t)].value, entries[Key(t)].expires_at)
Lookup(t) == Miss(t) \/ Lapse(t) \/ Hit(t)

Get(t) == Working(t, "get") /\ Lookup(t) /\ Return(t) /\ UNCHANGED aside

Ttl(t) == Working(t, "ttl") /\ Lookup(t) /\ Return(t) /\ UNCHANGED aside

\* One get per key: each reads the clock and takes its shard mutex anew.
Mget(t) ==
    /\ Working(t, "mget")
    /\ Lookup(t)
    /\ \/ OnLastKey(t) /\ Return(t)
       \/ /\ ~OnLastKey(t)
          /\ Become(t, [th[t] EXCEPT !.pc = "acquire", !.held = {},
                                !.now = clock, !.at = @ + 1])
    /\ UNCHANGED aside

\* del does not look at the expiry.
Del(t) ==
    /\ Working(t, "del")
    /\ Miss(t) \/ (Key(t) \in Present /\ Erase(Key(t)))
    /\ Return(t)
    /\ UNCHANGED aside

ExpireAt(t) ==
    /\ Working(t, "expire_at")
    /\ \/ Miss(t)
       \/ Key(t) \in Present /\ (Gone(t) \/ Arg(t) <= th[t].now) /\ Erase(Key(t))
       \/ Live(t) /\ Arg(t) > th[t].now /\ Store(Key(t), entries[Key(t)].value, Arg(t))
    /\ Return(t)
    /\ UNCHANGED aside

Persist(t) ==
    /\ Working(t, "persist")
    /\ Miss(t) \/ Lapse(t) \/ (Live(t) /\ Store(Key(t), entries[Key(t)].value, NoExpiry))
    /\ Return(t)
    /\ UNCHANGED aside

\* Where an increment or append starts from.
Current(t) == IF Key(t) \in Present THEN entries[Key(t)].value ELSE 0
KeptExpiry(t) == IF Key(t) \in Present THEN entries[Key(t)].expires_at ELSE NoExpiry

\* Only an insertion enforces.
LeaveUpdate(t) == IF Key(t) \in Present THEN Return(t) ELSE UnlockAndEnforce(t)

\* Slip: the range check is left out.
NeverOverflows(current, delta) == FALSE

Overflows(current, delta) ==
    \/ delta > 0 /\ current > MaxLongLong - delta
    \/ delta < 0 /\ current < MinLongLong - delta

\* INCR and DECR: two errors leave the entry alone.
Increment(t) ==
    /\ Working(t, "increment") /\ ~Gone(t)
    /\ \/ Current(t) = Text /\ Return(t) /\ UNCHANGED engine
       \/ /\ Current(t) # Text /\ Overflows(Current(t), Arg(t))
          /\ Return(t) /\ UNCHANGED engine
       \/ /\ Current(t) # Text /\ ~Overflows(Current(t), Arg(t))
          /\ Store(Key(t), Current(t) + Arg(t), KeptExpiry(t))
          /\ LeaveUpdate(t)
    /\ UNCHANGED aside

\* The suffixes appended are no digits: the result is a text.
AppendTo(t) ==
    /\ Working(t, "append") /\ ~Gone(t)
    /\ Store(Key(t), Text, KeptExpiry(t))
    /\ LeaveUpdate(t)
    /\ UNCHANGED aside

\* exchange(0), then clear every shard, all mutexes held.
Flush(t) ==
    /\ Working(t, "flush")
    /\ total_keys_' = 0
    /\ entries' = Empty
    /\ drift' = Cardinality(Debt)
    /\ Return(t)
    /\ UNCHANGED <<access_sequence_, eviction_mutex_, pending_evicted_keys_, snap, world>>
-----------------------------------------------------------------------------
(***************************************************************************)
(* Calls that visit the shards one by one                                  *)
(***************************************************************************)
\* snapshot_entries, behind KEYS and SAVE: one shard of the collecting loop
\* with all mutexes held shared.
SnapshotShard(t) ==
    /\ Working(t, "snapshot_entries")
    /\ th[t].at = 0 => total_keys_ <= MaxVectorSize
    /\ snap' = [snap EXCEPT ![t] = [k \in Keys |->
          IF shard_index[k] # th[t].at THEN snap[t][k]
          ELSE IF k \in Present /\ ~Expired(k, th[t].now)
               THEN [value |-> entries[k].value, expires_at |-> entries[k].expires_at]
               ELSE NoEntry]]
    /\ IF th[t].at = ShardCount - 1 THEN Return(t) ELSE Become(t, [th[t] EXCEPT !.at = @ + 1])
    /\ UNCHANGED <<engine, eviction_mutex_, pending_evicted_keys_, world, drift>>

\* result.reserve(total_keys_) throws; nothing catches it in a worker thread.
SnapshotThrows(t) ==
    /\ Working(t, "snapshot_entries") /\ th[t].at = 0
    /\ total_keys_ > MaxVectorSize
    /\ aborted' = TRUE
    /\ UNCHANGED <<engine, th, eviction_mutex_, pending_evicted_keys_, snap, clock, calls, drift>>

\* One shard of cleanup_expired, called by the TTL thread and by size().
SweepShard(t) ==
    /\ th[t].pc = "sweep"
    /\ CanLock(t, th[t].at)
    /\ LET gone == {k \in Keys : shard_index[k] = th[t].at /\ Expired(k, th[t].now)}
       IN  /\ entries' = [k \in Keys |-> IF k \in gone THEN NoEntry ELSE entries[k]]
           /\ Become(t, [th[t] EXCEPT !.removed = @ \cup gone, !.at = @ + 1,
                           !.pc = IF th[t].at = ShardCount - 1 THEN "settle" ELSE "sweep"])
    /\ UNCHANGED <<total_keys_, access_sequence_, aside>>

\* Slips: the sweep does not subtract what it erased, or does so twice.
SweepForgets(t) ==
    /\ th[t].pc = "settle"
    /\ Return(t)
    /\ UNCHANGED <<engine, aside>>

SweepSettlesTwice(t) ==
    /\ th[t].pc = "settle"
    /\ total_keys_' = FetchSub(total_keys_, 2 * Cardinality(th[t].removed))
    /\ Return(t)
    /\ UNCHANGED <<entries, access_sequence_, aside>>

\* The sweep's single fetch_sub, after the last mutex is released.
SweepSettle(t) ==
    /\ th[t].pc = "settle"
    /\ total_keys_' = FetchSub(total_keys_, Cardinality(th[t].removed))
    /\ Return(t)
    /\ UNCHANGED <<entries, access_sequence_, aside>>

TakeEvictedKeys(t) ==
    /\ th[t].pc = "take"
    /\ pending_evicted_keys_' = <<>>
    /\ Return(t)
    /\ UNCHANGED <<engine, eviction_mutex_, snap, world, drift>>
-----------------------------------------------------------------------------
(***************************************************************************)
(* enforce_max_keys                                                        *)
(***************************************************************************)
OverLimit == MaxKeys # 0 /\ total_keys_ > MaxKeys

EnforceCheck(t) ==
    /\ th[t].pc = "check"
    /\ \/ ~OverLimit /\ Return(t)
       \/ OverLimit /\ Become(t, [th[t] EXCEPT !.pc = "lock_eviction"])
    /\ UNCHANGED <<engine, aside>>

LockEviction(t) ==
    /\ th[t].pc = "lock_eviction"
    /\ eviction_mutex_ = NoThread
    /\ eviction_mutex_' = t
    /\ Become(t, [th[t] EXCEPT !.pc = "loop"])
    /\ UNCHANGED <<engine, pending_evicted_keys_, snap, world, drift>>

\* The while condition holds: look for a victim, from the first shard.
StartScan(t) ==
    /\ th[t].pc = "loop" /\ OverLimit
    /\ Become(t, [th[t] EXCEPT !.pc = "scan", !.at = 0, !.victim = NoKey,
                         !.oldest = 0, !.started = access_sequence_])
    /\ UNCHANGED <<engine, aside>>

\* Slip: a later shard takes over the search whatever its stamps.
ScanForgets(t) ==
    /\ th[t].pc = "scan"
    /\ CanLockShared(t, th[t].at)
    /\ LET here == {k \in Present : shard_index[k] = th[t].at}
           next == IF th[t].at = ShardCount - 1 THEN "evict" ELSE "scan"
       IN  \/ here = {} /\ Become(t, [th[t] EXCEPT !.pc = next, !.at = @ + 1])
           \/ \E k \in here :
                 Become(t, [th[t] EXCEPT !.pc = next, !.at = @ + 1, !.victim = k,
                                         !.oldest = entries[k].last_access_sequence])
    /\ UNCHANGED <<engine, aside>>

\* One shard of the search, under its shared lock only.
Scan(t) ==
    /\ th[t].pc = "scan"
    /\ CanLockShared(t, th[t].at)
    /\ LET stamp(k) == entries[k].last_access_sequence
           older == {k \in Present : /\ shard_index[k] = th[t].at
                                     /\ th[t].victim = NoKey \/ stamp(k) < th[t].oldest}
           next == IF th[t].at = ShardCount - 1 THEN "evict" ELSE "scan"
       IN  \/ older = {} /\ Become(t, [th[t] EXCEPT !.pc = next, !.at = @ + 1])
           \/ \E k \in older :
                 /\ \A j \in older : stamp(k) <= stamp(j)
                 /\ Become(t, [th[t] EXCEPT !.pc = next, !.at = @ + 1,
                                      !.victim = k, !.oldest = stamp(k)])
    /\ UNCHANGED <<engine, aside>>

\* Slip: the victim is looked at again and spared unless it became older.
EvictOlder(t) ==
    /\ th[t].pc = "evict" /\ th[t].victim # NoKey
    /\ CanLock(t, shard_index[th[t].victim])
    /\ LET k == th[t].victim
       IN  IF k \in Present /\ entries[k].last_access_sequence < th[t].oldest
           THEN Erase(k) /\ Become(t, [th[t] EXCEPT !.pc = "report", !.held = {shard_index[k]}])
           ELSE UNCHANGED engine /\ Become(t, [th[t] EXCEPT !.pc = "loop"])
    /\ UNCHANGED aside

\* Take the victim's mutex and erase it if it is still there.
Evict(t) ==
    /\ th[t].pc = "evict" /\ th[t].victim # NoKey
    /\ CanLock(t, shard_index[th[t].victim])
    /\ \/ /\ th[t].victim \in Present
          /\ Erase(th[t].victim)
          /\ Become(t, [th[t] EXCEPT !.pc = "report", !.held = {shard_index[th[t].victim]}])
       \/ /\ th[t].victim \notin Present
          /\ UNCHANGED engine
          /\ Become(t, [th[t] EXCEPT !.pc = "loop"])
    /\ UNCHANGED aside

\* Leave the victim for take_evicted_keys, under evicted_keys_mutex_, and let
\* go of the shard.
Report(t) ==
    /\ th[t].pc = "report"
    /\ pending_evicted_keys_' = Append(pending_evicted_keys_, th[t].victim)
    /\ Become(t, [th[t] EXCEPT !.pc = "loop", !.held = {}])
    /\ UNCHANGED <<engine, eviction_mutex_, snap, world, drift>>

\* The count is back within the limit, or every shard was empty when scanned.
LeaveEnforce(t) ==
    /\ \/ th[t].pc = "loop" /\ ~OverLimit
       \/ th[t].pc = "evict" /\ th[t].victim = NoKey
    /\ eviction_mutex_' = NoThread
    /\ Return(t)
    /\ UNCHANGED <<engine, pending_evicted_keys_, snap, world, drift>>
-----------------------------------------------------------------------------
Tick ==
    /\ clock < MaxTime
    /\ clock' = clock + 1
    /\ UNCHANGED <<engine, th, eviction_mutex_, pending_evicted_keys_, snap,
                   calls, aborted, drift>>

Keyed(t) ==
    \/ PurgeExpired(t) \/ Set(t) \/ Mset(t) \/ Get(t) \/ Ttl(t) \/ Mget(t)
    \/ Del(t) \/ ExpireAt(t) \/ Persist(t) \/ Increment(t) \/ AppendTo(t)

Enforce(t) ==
    \/ EnforceCheck(t) \/ LockEviction(t) \/ StartScan(t) \/ Scan(t)
    \/ Evict(t) \/ Report(t) \/ LeaveEnforce(t)

\* What thread t does once it is in a call.
Step(t) ==
    \/ Acquire(t) \/ Keyed(t) \/ Flush(t) \/ SnapshotShard(t) \/ SnapshotThrows(t)
    \/ SweepShard(t) \/ SweepSettle(t) \/ TakeEvictedKeys(t) \/ Enforce(t)

AllIdle == \A t \in Threads : th[t].pc = "idle"

\* The bounded workload is used up, or the process is gone.
Finished ==
    /\ aborted \/ (AllIdle /\ calls = MaxCalls)
    /\ UNCHANGED vars

Next ==
    \/ /\ ~aborted
       /\ \/ Tick
          \/ \E t \in Threads : (\E r \in Requests : Call(t, r)) \/ Step(t)
    \/ Finished

Spec == Init /\ [][Next]_vars

\* The operating system runs every thread, and a mutex is handed over once
\* its holder has let go: enough here because the workload is bounded.
FairSpec == Spec /\ \A t \in Threads : WF_vars(~aborted /\ Step(t))
-----------------------------------------------------------------------------
(***************************************************************************)
(* Properties                                                              *)
(***************************************************************************)
\* Every variable keeps its type: values fit a long long, the count a size_t.
TypeOK ==
    /\ entries \in [Keys -> ValueEntry \cup {NoEntry}]
    /\ total_keys_ \in 0 .. SizeMax
    /\ access_sequence_ \in Nat
    /\ eviction_mutex_ \in Threads \cup {NoThread}
    /\ pending_evicted_keys_ \in Seq(Keys)
    /\ aborted \in BOOLEAN
    /\ th \in [Threads -> Frame]
    /\ snap \in [Threads -> [Keys -> SnapshotEntry \cup {NoEntry}]]
    /\ clock \in Nat /\ calls \in Nat /\ drift \in Nat

\* total_keys_ is the number of entries plus the keys running sweeps have
\* erased and not yet subtracted, less what a flush in the middle of a sweep
\* made the sweep subtract twice (cleanup_expired's late fetch_sub).
KeyCount ==
    total_keys_ = FetchSub(Cardinality(Present) + Cardinality(Debt), drift)

\* snapshot_entries never reserves an absurd size, and KEYS or SAVE never
\* brings the process down, unless a flush overlapped a sweep.
AbortsOnlyAfterDrift == aborted => drift > 0

\* When enforce_max_keys is about to erase its victim, every key with an
\* older stamp than the victim had was written or read after the search
\* began: no key left alone during the search is older than the victim.
EvictsOldest ==
    \A t \in Threads : th[t].pc = "evict" /\ th[t].victim # NoKey =>
        \A k \in Present : \/ entries[k].last_access_sequence >= th[t].oldest
                           \/ entries[k].last_access_sequence > th[t].started

\* Once every call has returned, the store is back within --max-keys however
\* the calls interleaved: the last inserter's enforce_max_keys saw them all.
WithinLimit ==
    AllIdle /\ drift = 0 /\ MaxKeys # 0 => Cardinality(Present) <= MaxKeys

\* Every call returns: multi-shard locking in index order cannot deadlock,
\* and the eviction loop ends even when its victims vanish under it.
CallsReturn == \A t \in Threads : th[t].pc # "idle" ~> (th[t].pc = "idle" \/ aborted)

\* docs/architecture.md:33: "Global atomics track live keys".  With no call
\* in progress the counter should be the number of entries.
CountTracksKeys == AllIdle => total_keys_ = Cardinality(Present)
=============================================================================
