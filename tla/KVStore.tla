------------------------------ MODULE KVStore ------------------------------
(***************************************************************************)
(* What the storage engine promises its callers: a map from keys to values *)
(* with optional expiry times, changed by atomic operations.               *)
(* docs/concurrency.md:37-40 and README.md:124-131 state it in prose.      *)
(***************************************************************************)
EXTENDS Integers

CONSTANTS Keys, Threads, NoEntry, NoExpiry, Text, MinLongLong, MaxLongLong,
          Batches,        \* what SET and MSET may write: partial maps to values
          Times           \* timestamps EXPIREAT may set

VARIABLES store, view, clock

abstract == <<store, view, clock>>

Nothing == [k \in Keys |-> NoEntry]
IsExpired(k, time) ==
    store[k] # NoEntry /\ store[k].expires_at # NoExpiry /\ store[k].expires_at <= time

Init ==
    /\ store = Nothing
    /\ view = [t \in Threads |-> Nothing]
    /\ clock = 0

\* SET and MSET: all pairs of a batch appear together and without expiry.
Write(b) ==
    /\ store' = [k \in Keys |-> IF k \in DOMAIN b
                                THEN [value |-> b[k], expires_at |-> NoExpiry]
                                ELSE store[k]]
    /\ UNCHANGED <<view, clock>>

\* INCR, DECR and APPEND build on the present value and keep its expiry.
Edit(k) ==
    /\ \E v \in {store[k].value + d : d \in IF store[k].value = Text THEN {} ELSE {-1, 1}} \cup {Text} :
          /\ v = Text \/ v \in MinLongLong .. MaxLongLong
          /\ store' = [store EXCEPT ![k].value = v]
    /\ UNCHANGED <<view, clock>>

\* ... and start from zero or from the empty text when there is none.
Create(k) ==
    /\ store[k] = NoEntry
    /\ \E v \in {-1, 1, Text} :
          store' = [store EXCEPT ![k] = [value |-> v, expires_at |-> NoExpiry]]
    /\ UNCHANGED <<view, clock>>

\* EXPIREAT with a time to come, PERSIST.
SetExpiry(k) ==
    /\ \E e \in Times \cup {NoExpiry} : store' = [store EXCEPT ![k].expires_at = e]
    /\ UNCHANGED <<view, clock>>

\* DEL, EXPIREAT with a time gone by, eviction.
Remove(k) ==
    /\ store' = [store EXCEPT ![k] = NoEntry]
    /\ UNCHANGED <<view, clock>>

\* Several keys vanish together only if all of them have expired.
Lapse(S) ==
    /\ \A k \in S : IsExpired(k, clock)
    /\ store' = [k \in Keys |-> IF k \in S THEN NoEntry ELSE store[k]]
    /\ UNCHANGED <<view, clock>>

Clear ==
    /\ store' = Nothing
    /\ UNCHANGED <<view, clock>>

\* KEYS and SAVE see the whole map at one instant, less the keys that had
\* expired at some earlier time.
Capture(t) ==
    /\ \E time \in 0 .. clock :
          view' = [view EXCEPT ![t] =
                     [k \in Keys |-> IF IsExpired(k, time) THEN NoEntry ELSE store[k]]]
    /\ UNCHANGED <<store, clock>>

Forget(t) ==
    /\ view' = [view EXCEPT ![t] = Nothing]
    /\ UNCHANGED <<store, clock>>

Tick ==
    /\ clock' = clock + 1
    /\ UNCHANGED <<store, view>>

Next ==
    \/ \E b \in Batches : Write(b)
    \/ \E k \in Keys : Create(k) \/ Remove(k)
    \/ \E k \in Keys : store[k] # NoEntry /\ (Edit(k) \/ SetExpiry(k))
    \/ \E S \in SUBSET Keys : Lapse(S)
    \/ \E t \in Threads : Capture(t) \/ Forget(t)
    \/ Clear \/ Tick

Spec == Init /\ [][Next]_abstract
=============================================================================
