-------------------------- MODULE MCAppendOnlyFile -------------------------
(***************************************************************************)
(* Small instances of AppendOnlyFile: one set of commands per question.    *)
(***************************************************************************)
EXTENDS AppendOnlyFile

Command(op, keys, args) == [op |-> op, keys |-> keys, args |-> args]
Set(k, v) == Command("SET", <<k>>, <<v>>)
On(op, k) == Command(op, <<k>>, <<>>)
Bare(op) == Command(op, <<>>, <<>>)

AB == <<"a", "b">>
ABC == <<"a", "b", "c">>
ABStray == <<"a", "b", Stray>>

\* Half-millisecond ticks: EXPIRE sets a time no record can express exactly.
\* A second is 4 ticks, and 31 the last tick of the clock: 8 seconds wrap.
RestartCommands == {
    Command("MSET", <<"b", "a">>, <<1, 6>>), On("INCR", "a"),
    Bare("SAVE"), Command("EXPIRE", <<"a">>, <<1>>), Command("EXPIRE", <<"a">>, <<2>>),
    Command("EXPIRE", <<"a">>, <<8>>),
    Command("EXPIREAT", <<"b">>, <<18>>),
    On("PERSIST", "a"), On("TTL", "a")}

VictimCommands == {
    Set("a", 1), Set("b", 1), On("DECR", "c"), Command("APPEND", <<"a">>, <<Text>>), Bare("FLUSH"), On("GET", "a"),
    Bare("SAVE")}

FaultCommands == {Set("a", 1), On("INCR", "b"), Bare("FLUSH"), Bare("SAVE")}

ExtendCommands == {Set("a", 5), Command("EXPIRE", <<"a">>, <<1>>), On("INCR", "a")}

EvictionCommands == {Set("a", 5), Set("b", 5), On("INCR", "a")}

TornCommands == {Set("a", 1), Set("b", 1), Bare("SAVE")}
=============================================================================
