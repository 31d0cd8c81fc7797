---------------------------- MODULE CommandText ----------------------------
(***************************************************************************)
(* The text of commands: lines cut out of a connection's bytes             *)
(* (ClientHandler::handle), CommandParser (src/command_parser.cpp), and    *)
(* the records of the append-only file, written with quote and serialize   *)
(* and read back by replay_after (src/persistence.cpp).                    *)
(*                                                                         *)
(* A text is a sequence of characters.  A command name counts as one       *)
(* character; "LF", "CR" and "TAB" are the control characters.             *)
(***************************************************************************)
EXTENDS Integers, Sequences, SequencesExt

CONSTANTS
    Streams,           \* what a client may send on one connection
    max_line_bytes_,
    sequence_          \* the last number given before the connection

ASSUME TextAssumption == max_line_bytes_ \in Nat /\ sequence_ \in Nat

VARIABLES
    stream, received,  \* what the client sends; how much of it recv has returned
    buffer,
    open,              \* handle() has not returned
    replies,           \* the command answered, or Invalid, or TooLarge
    logged, file       \* the commands logged, and the text they were logged as

vars == <<stream, received, buffer, open, replies, logged, file>>
-----------------------------------------------------------------------------
(***************************************************************************)
(* CommandParser                                                           *)
(***************************************************************************)
Spaces == {" ", "TAB", "CR", "LF"}
Digits == {ToString(d) : d \in 0 .. 9}

NoArguments == {"PING", "KEYS", "FLUSH", "INFO", "SAVE"}
OneArgument == {"GET", "DEL", "EXISTS", "TTL", "PERSIST", "INCR", "DECR", "STRLEN"}
TwoArguments == {"SET", "EXPIRE", "EXPIREAT", "APPEND"}
CommandTypes == NoArguments \cup OneArgument \cup TwoArguments \cup {"MGET", "MSET"}

is_mutating(type) ==
    type \in {"SET", "DEL", "EXPIRE", "EXPIREAT", "PERSIST", "FLUSH", "MSET", "INCR", "DECR",
              "APPEND", "SAVE"}

\* A name in lower or mixed case stands for itself in upper case.
uppercase(c) == IF c = "set" THEN "SET" ELSE c

type_from_token(token) ==
    IF Len(token) = 1 /\ uppercase(token[1]) \in CommandTypes THEN uppercase(token[1]) ELSE "UNKNOWN"

\* The character an escape stands for.
Unescaped(c) ==
    CASE c = "n" -> "LF" [] c = "r" -> "CR" [] c = "t" -> "TAB" [] OTHER -> c

\* One round of tokenize's loop.
Scan(s, c) ==
    CASE s.escaping ->
           [s EXCEPT !.token = Append(@, Unescaped(c)), !.escaping = FALSE]
      [] ~s.escaping /\ s.in_quotes /\ c = "\\" ->
           [s EXCEPT !.escaping = TRUE]
      [] ~s.escaping /\ c = "\"" ->
           [s EXCEPT !.in_quotes = ~@, !.token_started = TRUE]
      [] ~s.escaping /\ ~s.in_quotes /\ c \in Spaces ->
           IF s.token_started
           THEN [s EXCEPT !.tokens = Append(@, s.token), !.token = <<>>, !.token_started = FALSE]
           ELSE s
      [] OTHER ->
           [s EXCEPT !.token = Append(@, c), !.token_started = TRUE]

Scanned(text) ==
    FoldLeft(Scan, [tokens |-> <<>>, token |-> <<>>, token_started |-> FALSE,
                    in_quotes |-> FALSE, escaping |-> FALSE], text)

WithoutCR(line) == IF line # <<>> /\ Last(line) = "CR" THEN Front(line) ELSE line

tokenize(line) ==
    LET s == Scanned(WithoutCR(line))
    IN  [ok |-> ~s.escaping /\ ~s.in_quotes,
         tokens |-> IF s.token_started THEN Append(s.tokens, s.token) ELSE s.tokens]

\* Slip: one argument is enough for the commands that take two.
OneIsEnough(type, count) ==
    \/ type \in NoArguments /\ count = 0
    \/ type \in OneArgument /\ count = 1
    \/ type \in TwoArguments /\ count \in {1, 2}
    \/ type = "MGET" /\ count >= 1
    \/ type = "MSET" /\ count >= 2 /\ count % 2 = 0

validate_argument_count(type, count) ==
    \/ type \in NoArguments /\ count = 0
    \/ type \in OneArgument /\ count = 1
    \/ type \in TwoArguments /\ count = 2
    \/ type = "MGET" /\ count >= 1
    \/ type = "MSET" /\ count >= 2 /\ count % 2 = 0

Command(type, args) == [type |-> type, args |-> args]
Invalid == Command("UNKNOWN", <<>>)     \* for any of the errors of parse
TooLarge == Command("TOO_LARGE", <<>>)

parse(line) ==
    LET t == tokenize(line)
        type == type_from_token(t.tokens[1])
    IN  IF /\ t.ok /\ t.tokens # <<>>
           /\ type # "UNKNOWN" /\ validate_argument_count(type, Len(t.tokens) - 1)
        THEN Command(type, Tail(t.tokens)) ELSE Invalid
-----------------------------------------------------------------------------
(***************************************************************************)
(* Records                                                                 *)
(***************************************************************************)
Escape(c) ==
    CASE c \in {"\\", "\""} -> <<"\\", c>>
      [] c = "LF" -> <<"\\", "n">> [] c = "CR" -> <<"\\", "r">> [] c = "TAB" -> <<"\\", "t">>
      [] OTHER -> <<c>>

\* Slip: backslashes are written as they are.
QuoteOnly(value) ==
    LET escape(c) == IF c = "\\" THEN <<c>> ELSE Escape(c)
    IN  <<"\"">> \o FlattenSeq([i \in DOMAIN value |-> escape(value[i])]) \o <<"\"">>

quote(value) ==
    <<"\"">> \o FlattenSeq([i \in DOMAIN value |-> Escape(value[i])]) \o <<"\"">>

serialize(command) ==
    <<command.type>>
      \o FlattenSeq([i \in DOMAIN command.args |-> <<" ">> \o quote(command.args[i])])

DigitsOf(n) ==
    LET size == CHOOSE d \in 1 .. 9 : 10 ^ (d - 1) <= n /\ n < 10 ^ d
    IN  [i \in 1 .. size |-> ToString((n \div 10 ^ (size - i)) % 10)]

\* append_line, without and with the newline.
RecordText(sequence, command) == DigitsOf(sequence) \o <<"TAB">> \o serialize(command)
Record(sequence, command) == RecordText(sequence, command) \o <<"LF">>

\* from_chars over all of a text of digits
Number(digits) ==
    FoldLeft(LAMBDA n, c : 10 * n + (CHOOSE d \in 0 .. 9 : ToString(d) = c), 0, digits)

\* Slip: the command is looked for behind the last tab.
ReadLastTab(line, line_number) ==
    LET tab == SelectInSeq(line, LAMBDA c : c = "TAB")
        last == SelectLastInSeq(line, LAMBDA c : c = "TAB")
        prefix == SubSeq(line, 1, tab - 1)
    IN  IF tab > 1 /\ ToSet(prefix) \subseteq Digits
        THEN [sequence |-> Number(prefix), command |-> parse(SubSeq(line, last + 1, Len(line)))]
        ELSE [sequence |-> line_number, command |-> parse(line)]

\* parse_sequence_prefix and the parsing of the rest; a line without a
\* sequence counts as a command with the line's number.
ReadLine(line, line_number) ==
    LET tab == SelectInSeq(line, LAMBDA c : c = "TAB")
        prefix == SubSeq(line, 1, tab - 1)
    IN  IF tab > 1 /\ ToSet(prefix) \subseteq Digits
        THEN [sequence |-> Number(prefix), command |-> parse(SubSeq(line, tab + 1, Len(line)))]
        ELSE [sequence |-> line_number, command |-> parse(line)]

\* The lines of a text, the last one ended or not.
Split(text) ==
    FoldLeft(LAMBDA s, c : IF c = "LF" THEN [lines |-> Append(s.lines, s.rest), rest |-> <<>>]
                                       ELSE [s EXCEPT !.rest = Append(@, c)],
             [lines |-> <<>>, rest |-> <<>>], text)
LinesOf(text) == IF Split(text).rest = <<>> THEN Split(text).lines
                 ELSE Append(Split(text).lines, Split(text).rest)

\* The records replay_after sees; the first that is Invalid ends it.
ReadBack(text) ==
    LET lines == LinesOf(text) IN [i \in DOMAIN lines |-> ReadLine(lines[i], i)]
-----------------------------------------------------------------------------
(***************************************************************************)
(* ClientHandler::handle                                                   *)
(***************************************************************************)
Init ==
    /\ stream \in Streams
    /\ received = 0 /\ buffer = <<>> /\ open = TRUE
    /\ replies = <<>> /\ logged = <<>> /\ file = <<>>

HasLine(text) == Contains(text, "LF")

\* Slip: a short read is asked for again from its start.
RecvAgain ==
    /\ open /\ ~HasLine(buffer)
    /\ \E n \in received + 1 .. Len(stream) :
          /\ buffer' = buffer \o SubSeq(stream, received + 1, n)
          /\ received' = IF n < Len(stream) THEN received ELSE n
          /\ UNCHANGED <<open, replies>>
    /\ Len(buffer') <= Len(stream)
    /\ UNCHANGED <<stream, logged, file>>

\* recv returns any part of what is on its way, once the lines it had are
\* handled; a line that grows too large before it ends closes the connection.
Recv ==
    /\ open /\ ~HasLine(buffer)
    /\ \E n \in received + 1 .. Len(stream) :
          /\ buffer' = buffer \o SubSeq(stream, received + 1, n)
          /\ received' = n
          /\ IF Len(buffer') > max_line_bytes_ /\ ~HasLine(buffer')
             THEN open' = FALSE /\ replies' = Append(replies, TooLarge)
             ELSE UNCHANGED <<open, replies>>
    /\ UNCHANGED <<stream, logged, file>>

\* The client is done, and recv returns 0.
RecvEnds ==
    /\ open /\ ~HasLine(buffer)
    /\ received = Len(stream)
    /\ open' = FALSE
    /\ UNCHANGED <<stream, received, buffer, replies, logged, file>>

\* What execute may set should_log to: some mutations may have changed nothing.
\* EXPIRE, which is logged as another command with a number, is left to
\* AppendOnlyFile; no stream here holds one.
MayLog(command) ==
    IF ~is_mutating(command.type) \/ command.type = "SAVE" THEN {FALSE}
    ELSE IF command.type \in {"SET", "MSET", "APPEND", "FLUSH"} THEN {TRUE} ELSE BOOLEAN

\* execute_ordered: the command is logged, as append_line writes it.
Execute(command) ==
    \E should_log \in MayLog(command) :
        /\ logged' = IF should_log THEN Append(logged, command) ELSE logged
        /\ file' = IF should_log THEN file \o Record(sequence_ + Len(logged) + 1, command) ELSE file

Answer(line) == IF Len(line) > max_line_bytes_ THEN TooLarge ELSE parse(line)

\* Slip: what follows the line in the buffer is forgotten.
HandleOnly ==
    /\ open /\ HasLine(buffer)
    /\ LET line == SubSeq(buffer, 1, SelectInSeq(buffer, LAMBDA c : c = "LF") - 1)
       IN  /\ buffer' = <<>>
           /\ replies' = Append(replies, Answer(line))
           /\ IF Answer(line) \in {TooLarge, Invalid} THEN UNCHANGED <<logged, file>>
              ELSE Execute(Answer(line))
    /\ UNCHANGED <<stream, received, open>>

\* The first line of the buffer is cut off and answered.
HandleLine ==
    /\ open /\ HasLine(buffer)
    /\ LET newline_pos == SelectInSeq(buffer, LAMBDA c : c = "LF")
           line == SubSeq(buffer, 1, newline_pos - 1)
       IN  /\ buffer' = SubSeq(buffer, newline_pos + 1, Len(buffer))
           /\ replies' = Append(replies, Answer(line))
           /\ IF Answer(line) \in {TooLarge, Invalid} THEN UNCHANGED <<logged, file>>
              ELSE Execute(Answer(line))
    /\ UNCHANGED <<stream, received, open>>

Next == Recv \/ RecvEnds \/ HandleLine \/ (~open /\ UNCHANGED vars)

Spec == Init /\ [][Next]_vars
-----------------------------------------------------------------------------
(***************************************************************************)
(* Properties                                                              *)
(***************************************************************************)
\* The variables have their types, and the buffer is the end of what was
\* received.
TypeOK ==
    /\ stream \in Streams /\ received \in 0 .. Len(stream)
    /\ IsSuffix(buffer, SubSeq(stream, 1, received))
    /\ open \in BOOLEAN
    /\ \A i \in DOMAIN replies : replies[i].type \in CommandTypes \cup {"UNKNOWN", "TOO_LARGE"}
    /\ \A i \in DOMAIN logged : is_mutating(logged[i].type)

\* docs/protocol.md:3: "one text command per `\n` or `\r\n` terminated line".
\* However the bytes arrive, the replies are those to the lines sent, one for
\* each and in order; only a line too large may end them early.
RepliesMatchLines ==
    LET lines == LinesOf(stream)
        complete == Len(Split(stream).lines)
        last == replies # <<>> /\ Last(replies) = TooLarge
    IN  /\ Len(replies) <= Len(lines)
        /\ \A i \in DOMAIN replies : replies[i] = Answer(lines[i])
        /\ Len(replies) > complete => last
        /\ ~open => Len(replies) >= complete \/ last

Logged(i) == [sequence |-> sequence_ + i, command |-> logged[i]]

\* README.md:42: "Quoted values with spaces and escaped quotes, slashes, tabs,
\* and newlines".  Recovery reads from the file the commands that were logged,
\* with their numbers, whatever their arguments hold.
LogReadsBack == ReadBack(file) = [i \in DOMAIN logged |-> Logged(i)]

\* A file that ends anywhere, as a crash may leave it, gives the commands that
\* were logged up to there, with their numbers, and the last line is Invalid,
\* or is the command it was, or an MSET of fewer pairs.
CutInventsNothing ==
    \A n \in 0 .. Len(file) :
        LET records == ReadBack(SubSeq(file, 1, n))
        IN  \A i \in DOMAIN records :
              LET was == Logged(i).command
                  is == records[i].command
              IN  \/ records[i] = Logged(i)
                  \/ /\ i = Len(records)
                     /\ \/ is = Invalid
                        \/ /\ records[i].sequence = Logged(i).sequence
                           /\ is.type = "MSET" /\ was.type = "MSET" /\ IsPrefix(is.args, was.args)

\* The arguments of a command, with more of them behind the first j; the first
\* of these begins an argument or is glued to the one before it.
Continued(args, j, more) ==
    {SubSeq(args, 1, j) \o more}
      \cup (IF j = 0 THEN {} ELSE {SubSeq(args, 1, j - 1) \o <<args[j] \o Head(more)>> \o Tail(more)})

\* A record that write_all cut, with the next one behind it on its line, is
\* read by replay_after as the next one with a number that nobody gave, if
\* the cut is in the number; else it has its own number and is Invalid, or is
\* its own command with arguments that go on with the number, the name and
\* the arguments of the next, this only if the cut is in no argument.  Quotes
\* among the arguments of the next record are left out: they may end a cut one.
JoinedReads ==
    \A i \in 1 .. Len(logged) - 1 :
        LET own == Logged(i)
            next == Logged(i + 1)
            torn == RecordText(own.sequence, own.command)
            number == DigitsOf(next.sequence)
            more == <<number, <<next.command.type>>>> \o next.command.args
            inside(n) == Scanned(SubSeq(torn, Len(DigitsOf(own.sequence)) + 2, n)).in_quotes
            read(n) == ReadLine(SubSeq(torn, 1, n) \o RecordText(next.sequence, next.command), 1)
        IN  (\A j \in DOMAIN next.command.args : ~Contains(next.command.args[j], "\"")) =>
              \A n \in DOMAIN torn :
                 IF ~Contains(SubSeq(torn, 1, n), "TAB")
                 THEN read(n) = [sequence |-> Number(SubSeq(torn, 1, n) \o number),
                                 command |-> next.command]
                 ELSE /\ read(n).sequence = own.sequence
                      /\ \/ read(n).command = Invalid
                         \/ /\ ~inside(n)
                            /\ \E j \in 0 .. Len(own.command.args) :
                                 \E args \in Continued(own.command.args, j, more) :
                                    read(n).command = Command(own.command.type, args)
=============================================================================
