--------------------------- MODULE MCCommandText ---------------------------
(***************************************************************************)
(* The streams for TLC: a SET of every short value, quoted and not, and    *)
(* every pair of lines of a few kinds.                                     *)
(***************************************************************************)
EXTENDS CommandText

Characters == {"x", "n", "r", "t", " ", "\"", "\\", "TAB", "CR"}
Values(n) == UNION {[1 .. m -> Characters] : m \in 0 .. n}

Ended(line) == line \o <<"LF">>
Quoted(value) == <<"\"">> \o value \o <<"\"">>
Set(value) == <<"SET", " ", "x", " ">> \o value

OneLine == {Ended(Set(v)) : v \in Values(3)} \cup {Ended(Set(Quoted(v))) : v \in Values(4)}

SomeLines == {
    Set(<<"x">>), Set(Quoted(<<>>)), Set(Quoted(<<"\\", "\"">>)), Set(Quoted(<<"\\", "\\">>)),
    Set(Quoted(<<"\\", "n">>)), Set(Quoted(<<" ">>)),
    <<"set", " ", "x", " ", "n", "CR">>,
    <<"MSET", " ", "x", " ", "n", " ", "r", " ", "t">>,
    <<"MSET", " ", "x", " ", "n", " ", "r">>,
    <<"DEL", " ", "x">>, <<"GET", " ", "x">>, <<"FLUSH">>, <<"SAVE">>, <<"x">>, <<>>, <<"CR">>,
    <<"APPEND", " ", "x", " ", "\"", "\\", "t", "\\", "r", "\"">>,
    <<"DEL", " ", "x", "x", "x", "x", "x", "x", "x", "x", "x">>}

TwoLines == {Ended(a) \o Ended(b) : a \in SomeLines, b \in SomeLines}
Unfinished == {Ended(a) \o b : a \in {<<"FLUSH">>}, b \in SomeLines}

AllStreams == OneLine \cup TwoLines \cup Unfinished
=============================================================================
