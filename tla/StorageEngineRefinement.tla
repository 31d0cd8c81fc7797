---------------------- MODULE StorageEngineRefinement ----------------------
(***************************************************************************)
(* The sharded engine implements the atomic map of KVStore.                *)
(*                                                                         *)
(* SET and MSET take effect when the last of their mutexes is taken: from  *)
(* then on nobody else can look at their keys, so the pairs still to be    *)
(* written already count as written.  A snapshot counts as taken when its  *)
(* last shard has been read.                                               *)
(***************************************************************************)
EXTENDS StorageEngine

\* Positions at which thread t is still to write key k.
ToWrite(t, k) ==
    IF Working(t, "set") \/ Working(t, "mset")
    THEN {i \in th[t].at .. Len(th[t].req.keys) : th[t].req.keys[i] = k}
    ELSE {}

Last(S) == CHOOSE i \in S : \A j \in S : j <= i

\* What is stored under key k, and what counts as stored.
Stored(k) ==
    IF k \in Present
    THEN [value |-> entries[k].value, expires_at |-> entries[k].expires_at]
    ELSE NoEntry

Writers(k) == {t \in Threads : ToWrite(t, k) # {}}
Pending(t, k) == [value |-> th[t].req.args[Last(ToWrite(t, k))], expires_at |-> NoExpiry]

AbstractEntry(k) ==
    IF Writers(k) # {} THEN Pending(CHOOSE t \in Writers(k) : TRUE, k) ELSE Stored(k)

AbstractStore == [k \in Keys |-> AbstractEntry(k)]

AbstractView ==
    [t \in Threads |-> IF Working(t, "snapshot_entries") THEN Empty ELSE snap[t]]

\* What a SET or MSET writes: the last of several values for a key counts.
PositionsOf(r, k) == {i \in 1 .. Len(r.keys) : r.keys[i] = k}
Batch(r) == [k \in {r.keys[i] : i \in 1 .. Len(r.keys)} |-> r.args[Last(PositionsOf(r, k))]]

Store_ == INSTANCE KVStore WITH
    Batches <- {Batch(r) : r \in {q \in Requests : q.op \in {"set", "mset"}}},
    Times <- {r.args[1] : r \in {q \in Requests : q.op = "expire_at"}},
    store <- AbstractStore,
    view <- AbstractView

\* Every step of the engine is one atomic operation on the map, or none:
\* MSET and FLUSH are atomic across shards, INCR, DECR and APPEND take the
\* value they find one step on and keep its expiry, KEYS and SAVE see one
\* instant of the whole map, and several keys vanish at once only if all have
\* expired or by FLUSH.  The map does not say whose call a step belongs to.
ImplementsKVStore == Store_!Spec
=============================================================================
