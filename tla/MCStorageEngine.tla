-------------------------- MODULE MCStorageEngine --------------------------
(***************************************************************************)
(* Small instances of StorageEngine: two shards, and one set of requests   *)
(* per question.                                                           *)
(***************************************************************************)
EXTENDS StorageEngineRefinement, TLC

MCShardIndex == [k \in Keys |-> IF k = "b" THEN 1 ELSE 0]

MCMinLongLong == -1

\* Threads are told apart only by what they do.
ThreadSymmetry == Permutations(Threads)

Request(op, keys, args) == [op |-> op, keys |-> keys, args |-> args]
Global(op) == Request(op, <<>>, <<>>)

CountRequests == {
    Request("set", <<"a">>, <<1>>), Request("expire_at", <<"a">>, <<1>>),
    Global("cleanup_expired"), Global("flush")}

EvictionRequests == {
    Request("mset", <<"b", "a">>, <<1, 1>>), Request("set", <<"c">>, <<1>>),
    Request("increment", <<"b">>, <<1>>), Request("expire_at", <<"a">>, <<1>>),
    Global("flush"), Global("cleanup_expired")}

MapRequests == {
    Request("mset", <<"b", "a">>, <<1, 1>>), Request("set", <<"b">>, <<0>>),
    Request("increment", <<"a">>, <<-1>>), Request("append", <<"a">>, <<>>),
    Request("ttl", <<"a">>, <<>>), Request("mget", <<"a", "b">>, <<>>), Request("del", <<"b">>, <<>>),
    Request("get", <<"a">>, <<>>), Request("expire_at", <<"a">>, <<1>>), Request("persist", <<"a">>, <<>>),
    Global("snapshot_entries"), Global("flush"), Global("cleanup_expired"),
    Global("take_evicted_keys")}
=============================================================================
