--------------------------- MODULE AppendOnlyFile --------------------------
(***************************************************************************)
(* Durability: the append-only file, the snapshot, restarts and recovery.   *)
(* Models src/persistence.cpp with the ordered write path of               *)
(* src/client_handler.cpp above it.                                        *)
(*                                                                         *)
(* Storage calls are atomic here, as StorageEngineRefinement shows they    *)
(* are: the keyspace is a value that Apply turns into the next one, both   *)
(* when a command runs and when its record is replayed.  Time is counted   *)
(* in ticks of the clock, TicksPerMilli of them to a logged millisecond;   *)
(* a time out of range wraps, as the compiled additions do.                *)
(*                                                                         *)
(* A record may be cut anywhere, and the next one then continues its line, *)
(* so a line is kept as text, in pieces as large as no cut can tell apart. *)
(* CommandText has the same text by its characters.                        *)
(***************************************************************************)
EXTENDS Integers, Sequences, SequencesExt

CONSTANTS
    SortedKeys,            \* the keys, in the order snapshots list them
    Commands,              \* what clients send: [op, keys, args]
    fsync_policy_,         \* "always", "everysec" or "never"
    AofModes,              \* values --enable-aof may have at a start
    MaxKeys,               \* max_keys_, 0 for no limit
    MaxLongLong, TicksPerMilli, MillisPerSecond,
    ClockBits,             \* width of a time_point's count of ticks
    DiskMayFail,           \* write and fsync may fail, a crash may tear a record
    Stray,                 \* the key that stands for names no client sent
    Text, NoEntry, NoExpiry, Garbled,
    MaxCommands, MaxRestarts, MaxTime    \* bounds

Keys == ToSet(SortedKeys)

ASSUME ConfigAssumption ==
    /\ fsync_policy_ \in {"always", "everysec", "never"}
    /\ AofModes \subseteq BOOLEAN
    /\ MaxKeys \in Nat
    /\ TicksPerMilli \in Nat \ {0} /\ MillisPerSecond \in Nat \ {0}
    /\ ClockBits \in Nat \ {0}
    /\ Garbled \notin Commands
    /\ DiskMayFail => Stray \in Keys

VARIABLES
    status,          \* of the process: "down", "up" or "refused" to start
    enabled_,        \* --enable-aof of this run
    mem,             \* the keyspace, see Keyspace
    aof, synced,     \* lines of the file; how many survive a power failure
    dirty_, sequence_,
    snapshot, older, \* the published snapshot; ones a power failure may bring back
    cur,             \* the command that holds write_path_mutex_
    unsure,          \* history: keys of mutations answered with an error
    acked,           \* history: lines in the file at the last reply of success
    stamp,           \* history: how many records were written, in all or in part
    clock, commands, restarts

disk == <<aof, synced, snapshot, older>>
history == <<unsure, acked, stamp>>
vars == <<status, enabled_, mem, aof, synced, dirty_, sequence_, snapshot, older,
          cur, unsure, acked, stamp, clock, commands, restarts>>
-----------------------------------------------------------------------------
(***************************************************************************)
(* The keyspace: entries, and the present keys by last access, oldest      *)
(* first, which is what the access stamps are compared for.                *)
(***************************************************************************)
Nothing == [map |-> [k \in Keys |-> NoEntry], order |-> <<>>]

Put(s, k, value, expires_at) ==
    [map |-> [s.map EXCEPT ![k] = [value |-> value, expires_at |-> expires_at]],
     order |-> Append(Remove(s.order, k), k)]

Drop(s, k) == [map |-> [s.map EXCEPT ![k] = NoEntry], order |-> Remove(s.order, k)]

is_expired(entry, now) == entry.expires_at # NoExpiry /\ entry.expires_at <= now
Alive(s, k, now) == s.map[k] # NoEntry /\ ~is_expired(s.map[k], now)

\* Slip: the logged millisecond is the next one.
MillisRoundedUp(time) == (time + TicksPerMilli - 1) \div TicksPerMilli

\* duration_cast rounds towards zero.
to_epoch_millis(time) ==
    IF time >= 0 THEN time \div TicksPerMilli ELSE -((-time) \div TicksPerMilli)

Wrapped(time) == ((time + 2 ^ (ClockBits - 1)) % 2 ^ ClockBits) - 2 ^ (ClockBits - 1)

from_epoch_millis(millis) == Wrapped(millis * TicksPerMilli)

\* ttl: a key in its last millisecond is answered like a missing one.
TtlReply(s, k, now) ==
    LET remaining_ms == to_epoch_millis(s.map[k].expires_at - now)
    IN  IF ~Alive(s, k, now) THEN -2
        ELSE IF s.map[k].expires_at = NoExpiry THEN -1
        ELSE IF remaining_ms <= 0 THEN -2
        ELSE (remaining_ms + MillisPerSecond - 1) \div MillisPerSecond

\* enforce_max_keys keeps the MaxKeys youngest.
Victims(s) ==
    IF MaxKeys = 0 THEN <<>> ELSE SubSeq(s.order, 1, Len(s.order) - MaxKeys)
EvictDown(s) == FoldLeft(Drop, s, Victims(s))

\* The expiry a command sets: in seconds from now, or at a millisecond.
ExpiryOf(c, now) ==
    IF c.op = "EXPIRE" THEN Wrapped(now + c.args[1] * MillisPerSecond * TicksPerMilli)
    ELSE from_epoch_millis(c.args[1])

Steps == [INCR |-> 1, DECR |-> -1]
LongLong == -MaxLongLong - 1 .. MaxLongLong

\* Slip: only a value that is no number is refused.
OverflowUnseen(s, c, now) ==
    /\ c.op \in DOMAIN Steps /\ Alive(s, c.keys[1], now)
    /\ s.map[c.keys[1]].value = Text

\* The value is no number, or the result does not fit.
IncrementFails(s, c, now) ==
    LET value == s.map[c.keys[1]].value
    IN  /\ c.op \in DOMAIN Steps /\ Alive(s, c.keys[1], now)
        /\ value = Text \/ value + Steps[c.op] \notin LongLong

\* The storage call of a command, short of eviction.
Apply(s, c, now) ==
    LET k == c.keys[1]
        old == s.map[k]
        alive == Alive(s, k, now)
        write(st, i) == Put(st, c.keys[i], c.args[i], NoExpiry)
    IN CASE c.op \in {"SET", "MSET"} -> FoldLeft(write, s, [i \in DOMAIN c.keys |-> i])
         [] c.op = "DEL" -> Drop(s, k)
         [] c.op = "FLUSH" -> Nothing
         [] c.op = "PERSIST" ->
              IF alive THEN Put(s, k, old.value, NoExpiry) ELSE Drop(s, k)
         [] c.op \in {"EXPIRE", "EXPIREAT"} ->
              IF alive /\ ExpiryOf(c, now) > now
              THEN Put(s, k, old.value, ExpiryOf(c, now)) ELSE Drop(s, k)
         [] c.op \in DOMAIN Steps ->
              IF ~alive THEN Put(s, k, Steps[c.op], NoExpiry)
              ELSE IF IncrementFails(s, c, now) THEN s
              ELSE Put(s, k, old.value + Steps[c.op], old.expires_at)
         [] c.op = "APPEND" ->
              Put(s, k, Text, IF alive THEN old.expires_at ELSE NoExpiry)
         [] c.op \in {"GET", "TTL"} ->
              IF alive THEN Put(s, k, old.value, old.expires_at) ELSE Drop(s, k)

\* should_log: the command was a mutation and changed something.
ShouldLog(s, c, now) ==
    LET present == s.map[c.keys[1]] # NoEntry
        alive == Alive(s, c.keys[1], now)
    IN  CASE c.op = "DEL" -> present
          [] c.op \in {"EXPIRE", "EXPIREAT"} -> present /\ (ExpiryOf(c, now) <= now \/ alive)
          [] c.op = "PERSIST" -> alive /\ s.map[c.keys[1]].expires_at # NoExpiry
          [] c.op \in DOMAIN Steps -> ~IncrementFails(s, c, now)
          [] OTHER -> TRUE

\* Slip: a relative expiry is logged as it came.
LogAsIs(c, now) == c

\* log_command: a relative expiry is logged as an absolute one.
LogCommand(c, now) ==
    IF c.op = "EXPIRE"
    THEN [op |-> "EXPIREAT", keys |-> c.keys, args |-> <<to_epoch_millis(ExpiryOf(c, now))>>]
    ELSE c
-----------------------------------------------------------------------------
(***************************************************************************)
(* The text of the file                                                    *)
(***************************************************************************)
\* A token: the command, the key and the value it is taken for by its place.
\* No argument holds a quote, and no key is a number or a command's name.
Word(name, key, value) == [name |-> name, key |-> key, value |-> value]
Unnamed(value) == Word("UNKNOWN", Stray, value)
AsValue(n) == IF n \in LongLong THEN n ELSE Text

\* A command is its name, and for each argument a space, the quote with the
\* argument behind it, and the closing quote.
Piece(kind, word) == [kind |-> kind, word |-> word]
Mark(kind) == Piece(kind, Unnamed(Text))

\* Digits: whose sequence number they are, and whether they are those of
\* several records, or not all of one (glued).
Number(n, record, glued) ==
    [kind |-> "number", word |-> Unnamed(AsValue(n)), number |-> n, record |-> record,
     glued |-> glued]

Words(c) ==
    [i \in 1 .. Len(c.keys) + Len(c.args) |->
        IF i % 2 = 1 THEN Word("UNKNOWN", c.keys[(i + 1) \div 2], Text)
                     ELSE Unnamed(c.args[i \div 2])]

serialize(c) ==
    <<Piece("name", Word(c.op, Stray, Text))>>
      \o FlattenSeq([i \in DOMAIN Words(c) |->
                       <<Mark("space"), Piece("open", Words(c)[i]), Mark("close")>>])

\* The digits of n behind those of m; sequences stay below 10^9.
Size(n) == Cardinality({d \in 0 .. 8 : 10 ^ d <= n})
Digits(m, n) == IF m < 0 THEN m * 10 ^ Size(n) - n ELSE m * 10 ^ Size(n) + n

\* What is added to a token that has begun: digits, or something else.
Glue(word, piece) ==
    Unnamed(IF piece.kind = "number" /\ word.value # Text
            THEN AsValue(Digits(word.value, piece.number)) ELSE Text)

\* tokenize, over pieces.
Scan(s, piece) ==
    IF piece.kind \in {"tab", "space"} /\ ~s.in_quotes THEN [s EXCEPT !.started = FALSE]
    ELSE [words |-> IF piece.kind = "close" THEN s.words
                    ELSE IF s.started
                    THEN Append(Front(s.words), Glue(Last(s.words), piece))
                    ELSE Append(s.words, piece.word),
          started |-> TRUE,
          in_quotes |-> s.in_quotes # (piece.kind \in {"open", "close"})]

validate_argument_count(op, count) ==
    \/ op = "FLUSH" /\ count = 0
    \/ op \in {"DEL", "PERSIST", "INCR", "DECR"} /\ count = 1
    \/ op \in {"SET", "EXPIREAT", "APPEND"} /\ count = 2
    \/ op = "MSET" /\ count >= 2 /\ count % 2 = 0

\* The command in the text behind the first tab, as parse and stoll take it.
ParsedCommand(text) ==
    LET s == FoldLeft(Scan, [words |-> <<>>, started |-> FALSE, in_quotes |-> FALSE], text)
        op == s.words[1].name
        count == Len(s.words) - 1
        keys == [i \in 1 .. (count + 1) \div 2 |-> s.words[2 * i].key]
        args == [i \in 1 .. count \div 2 |-> s.words[2 * i + 1].value]
    IN  IF /\ s.words # <<>> /\ ~s.in_quotes /\ validate_argument_count(op, count)
           /\ op = "EXPIREAT" => args[1] # Text
        THEN [op |-> op, keys |-> keys, args |-> args] ELSE Garbled

\* A line: the digits it begins with, whether the tab behind them is there,
\* the text that follows and the command it reads as, and the newline.
Line(prefix, tab, text, whole) ==
    [prefix |-> prefix, tab |-> tab, text |-> text, command |-> ParsedCommand(text),
     whole |-> whole]

\* write_record_locked.
Record(sequence, c, record) == Line(Number(sequence, record, FALSE), TRUE, serialize(c), TRUE)

\* Digits behind digits are one number.
Glued(m, n) == Number(Digits(m.number, n.number), n.record, TRUE)

\* The text of a line with another line behind it.
Joined(text, line) ==
    LET rest == IF line.tab THEN <<Mark("tab")>> \o line.text ELSE <<>>
    IN  IF text # <<>> /\ Last(text).kind = "number"
        THEN Append(Front(text), Glued(Last(text), line.prefix)) \o rest
        ELSE Append(text, line.prefix) \o rest

\* What is written continues a line that has no newline.
Written(lines, line) ==
    LET last == Last(lines)
    IN  IF lines = <<>> \/ last.whole THEN Append(lines, line)
        ELSE Append(Front(lines),
                    IF last.tab THEN Line(last.prefix, TRUE, Joined(last.text, line), line.whole)
                    ELSE Line(Glued(last.prefix, line.prefix), line.tab, line.text, line.whole))

\* What may be left of a line: write_all and the disk may stop anywhere, in
\* the number, between two tokens, or just before the newline.
CutNumbers(n) ==
    {Number(p, n.record, TRUE) : p \in {q \in 1 .. n.number - 1 :
                                          \E d \in 1 .. 8 : q = n.number \div 10 ^ d}}
CutTexts(text) ==
    LET before(n) == SubSeq(text, 1, n - 1)
        numbers == {n \in DOMAIN text : text[n].kind = "number"}
    IN  {before(n) : n \in 1 .. Len(text) + 1}
          \cup UNION {{Append(before(n), p) : p \in CutNumbers(text[n])} : n \in numbers}
Torn(line) ==
    {Line(p, FALSE, <<>>, FALSE) : p \in {line.prefix} \cup CutNumbers(line.prefix)}
      \cup {Line(line.prefix, TRUE, t, FALSE) : t \in IF line.tab THEN CutTexts(line.text) ELSE {}}
-----------------------------------------------------------------------------
(***************************************************************************)
(* The files                                                               *)
(***************************************************************************)
\* The first start finds no snapshot and reads this one.
NoSnapshot == [sequence |-> 0, entries |-> Nothing.map, covers |-> 0]

\* An entry as its snapshot lines put it: the expiry in whole milliseconds.
Rounded(entry) ==
    IF entry.expires_at = NoExpiry THEN entry
    ELSE [entry EXCEPT !.expires_at = from_epoch_millis(to_epoch_millis(@))]

\* snapshot_entries, written out by save_snapshot.
SnapshotEntries(map, now) ==
    [k \in Keys |-> IF map[k] = NoEntry \/ is_expired(map[k], now)
                    THEN NoEntry ELSE Rounded(map[k])]

\* The entries a restart at time now leaves to be seen.
Visible(map, now) ==
    [k \in Keys |-> IF map[k] = NoEntry \/ is_expired(Rounded(map[k]), now)
                    THEN NoEntry ELSE Rounded(map[k])]

\* load_snapshot: a SET, and an EXPIREAT where there is an expiry, per entry.
LoadSnapshot(snap, now) ==
    LET map == Visible(snap.entries, now)
    IN  [map |-> map, order |-> SelectSeq(SortedKeys, LAMBDA k : map[k] # NoEntry)]

\* parse_sequence_prefix; a line without a tab has its line number.
Sequence(line, line_number) ==
    IF line.tab THEN line.prefix.number ELSE line_number

\* replay_after: records newer than the snapshot, in file order.
Newer(snap, lines) ==
    LET records == [i \in DOMAIN lines |-> [sequence |-> Sequence(lines[i], i),
                                            command |-> lines[i].command]]
    IN  SelectSeq(records, LAMBDA r : r.sequence > snap.sequence)

Replay(snap, records, now) ==
    FoldLeft(LAMBDA s, r : Apply(s, r.command, now), LoadSnapshot(snap, now), records)

\* A record that does not parse, or an INCR that fails, ends the recovery.
Refuses(snap, lines, now) ==
    LET newer == Newer(snap, lines)
        before(i) == Replay(snap, SubSeq(newer, 1, i - 1), now)
    IN  \E i \in DOMAIN newer :
          \/ newer[i].command = Garbled
          \/ /\ \A j \in 1 .. i : newer[j].command # Garbled
             /\ IncrementFails(before(i), newer[i].command, now)

\* recover: eviction is off until the replay is over.
Recovered(snap, lines, now) == EvictDown(Replay(snap, Newer(snap, lines), now))

\* Slip: numbering goes on from the snapshot, whatever the file holds.
SnapshotSequence(snap, lines) == snap.sequence

MaxSequence(snap, lines) ==
    Max({snap.sequence} \cup {Sequence(lines[i], i) : i \in DOMAIN lines})
-----------------------------------------------------------------------------
(***************************************************************************)
(* The process                                                             *)
(***************************************************************************)
Quiet == [stage |-> "idle", todo |-> <<>>, keys |-> {}, ok |-> TRUE]

Init ==
    /\ status = "down" /\ enabled_ = FALSE
    /\ mem = Nothing
    /\ aof = <<>> /\ synced = 0 /\ dirty_ = FALSE /\ sequence_ = 0
    /\ snapshot = NoSnapshot /\ older = {}
    /\ cur = Quiet /\ unsure = {} /\ acked = 0 /\ stamp = 0
    /\ clock = 0 /\ commands = 0 /\ restarts = 0

\* Server::start: recover, then open.
Start(enabled) ==
    LET lines == IF enabled THEN aof ELSE <<>>
    IN  /\ status = "down"
        /\ enabled_' = enabled
        /\ \/ Refuses(snapshot, lines, clock) /\ status' = "refused" /\ UNCHANGED <<mem, sequence_>>
           \/ /\ ~Refuses(snapshot, lines, clock)
              /\ status' = "up"
              /\ mem' = Recovered(snapshot, lines, clock)
              /\ sequence_' = MaxSequence(snapshot, lines)
        /\ dirty_' = FALSE
        /\ UNCHANGED <<disk, cur, history, clock, commands, restarts>>

\* Slip: evictions are not logged.
NoDelRecords(victims) == <<>>

\* take_evicted_keys: each victim is logged as a DEL.
DelRecords(victims) ==
    [i \in DOMAIN victims |-> [op |-> "DEL", keys |-> <<victims[i]>>, args |-> <<>>]]

Request(c) ==
    /\ status = "up" /\ c \in Commands
    /\ commands < MaxCommands
    /\ commands' = commands + 1

\* execute under write_path_mutex_; what is to be appended follows.
Execute(c) ==
    LET after == Apply(mem, c, clock)
        victims == Victims(after)
    IN  /\ Request(c) /\ c.op \notin {"GET", "TTL", "SAVE"}
        /\ enabled_ /\ cur = Quiet
        /\ mem' = EvictDown(after)
        /\ cur' = IF ShouldLog(mem, c, clock)
                  THEN [stage |-> "log", todo |-> <<LogCommand(c, clock)>> \o DelRecords(victims),
                        keys |-> ToSet(victims) \cup (IF c.op = "FLUSH" THEN Keys ELSE ToSet(c.keys)),
                        ok |-> TRUE]
                  ELSE Quiet
        /\ UNCHANGED <<status, enabled_, disk, dirty_, sequence_, history, clock, restarts>>

\* append_line and write_record_locked up to the fsync.
AppendRecord ==
    /\ status = "up" /\ cur.stage \in {"log", "append"} /\ cur.todo # <<>>
    /\ sequence_' = sequence_ + 1
    /\ stamp' = stamp + 1
    /\ LET line == Record(sequence_ + 1, Head(cur.todo), stamp + 1)
       IN  \/ /\ aof' = Written(aof, line)
              /\ dirty_' = TRUE
              /\ cur' = [cur EXCEPT !.todo = Tail(@),
                                    !.stage = IF fsync_policy_ = "always" THEN "sync" ELSE "append"]
           \/ /\ DiskMayFail
              /\ aof' = aof \/ \E torn \in Torn(line) : aof' = Written(aof, torn)
              /\ cur' = [cur EXCEPT !.todo = Tail(@), !.stage = "append", !.ok = FALSE]
              /\ UNCHANGED dirty_
    /\ synced' = IF aof' = aof THEN synced ELSE Min({synced, Len(aof') - 1})
    /\ UNCHANGED <<status, enabled_, mem, snapshot, older, unsure, acked, clock, commands, restarts>>

\* Slip: a failed fsync is not reported.
SyncIgnored ==
    /\ status = "up" /\ cur.stage = "sync"
    /\ \/ synced' = Len(aof) /\ dirty_' = FALSE
       \/ DiskMayFail /\ UNCHANGED <<synced, dirty_>>
    /\ cur' = [cur EXCEPT !.stage = "append"]
    /\ UNCHANGED <<status, enabled_, mem, aof, sequence_, snapshot, older, history,
                   clock, commands, restarts>>

\* sync_locked for --fsync always, before the next record or the reply.
SyncRecord ==
    /\ status = "up" /\ cur.stage = "sync"
    /\ \/ /\ synced' = Len(aof) /\ dirty_' = FALSE
          /\ cur' = [cur EXCEPT !.stage = "append"]
       \/ /\ DiskMayFail
          /\ cur' = [cur EXCEPT !.stage = "append", !.ok = FALSE]
          /\ UNCHANGED <<synced, dirty_>>
    /\ UNCHANGED <<status, enabled_, mem, aof, sequence_, snapshot, older, history,
                   clock, commands, restarts>>

\* persist_if_needed returns and the mutex is released.
Reply ==
    /\ status = "up" /\ cur.stage = "append" /\ cur.todo = <<>>
    /\ cur' = Quiet
    /\ \/ cur.ok /\ acked' = Len(aof) /\ UNCHANGED unsure
       \/ ~cur.ok /\ unsure' = unsure \cup cur.keys /\ UNCHANGED acked
    /\ UNCHANGED <<status, enabled_, mem, disk, dirty_, sequence_, stamp, clock, commands, restarts>>

\* Without AOF a mutation takes no mutex and writes nothing.
ExecuteUnlogged(c) ==
    /\ Request(c) /\ c.op \notin {"GET", "TTL", "SAVE"}
    /\ ~enabled_
    /\ mem' = EvictDown(Apply(mem, c, clock))
    /\ UNCHANGED <<status, enabled_, disk, dirty_, sequence_, cur, history, clock, restarts>>

\* Reads need no mutex: they touch the key, or erase it if it has expired.
Read(c) ==
    /\ Request(c) /\ c.op \in {"GET", "TTL"}
    /\ mem' = Apply(mem, c, clock)
    /\ UNCHANGED <<status, enabled_, disk, dirty_, sequence_, cur, history, clock, restarts>>

\* The TTL thread.
Sweep ==
    LET gone == SelectSeq(mem.order, LAMBDA k : ~Alive(mem, k, clock))
    IN  /\ status = "up" /\ gone # <<>>
        /\ mem' = FoldLeft(Drop, mem, gone)
        /\ UNCHANGED <<status, enabled_, disk, dirty_, sequence_, cur, history,
                       clock, commands, restarts>>

\* save_snapshot, under write_path_mutex_: nothing shows before the rename,
\* and a failure leaves the published snapshot alone.  History: the records
\* its number stands for, in a run that has read the file all of them.
Save(c) ==
    /\ Request(c) /\ c.op = "SAVE"
    /\ cur = Quiet
    /\ snapshot' = [sequence |-> sequence_, entries |-> SnapshotEntries(mem.map, clock),
                    covers |-> IF enabled_ THEN stamp ELSE snapshot.covers]
    /\ older' = older \cup {snapshot}
    /\ UNCHANGED <<status, enabled_, mem, aof, synced, dirty_, sequence_, cur, history,
                   clock, restarts>>

\* Slip: the flag is cleared although nothing was synced.
SyncLoopForgets ==
    /\ status = "up" /\ enabled_
    /\ fsync_policy_ = "everysec" /\ dirty_
    /\ dirty_' = FALSE
    /\ UNCHANGED <<status, enabled_, mem, disk, sequence_, cur, history,
                   clock, commands, restarts>>

\* One round of sync_loop.
SyncLoop ==
    /\ status = "up" /\ enabled_
    /\ fsync_policy_ = "everysec" /\ dirty_
    /\ synced' = Len(aof) /\ dirty_' = FALSE
    /\ UNCHANGED <<status, enabled_, mem, aof, sequence_, snapshot, older, cur, history,
                   clock, commands, restarts>>

\* Server::stop drains the workers, then close() syncs and ignores a failure.
Stop ==
    /\ status = "up" /\ cur = Quiet
    /\ restarts < MaxRestarts /\ restarts' = restarts + 1
    /\ status' = "down"
    /\ mem' = Nothing
    /\ dirty_' = FALSE
    /\ \/ synced' = IF dirty_ /\ fsync_policy_ # "never" THEN Len(aof) ELSE synced
       \/ DiskMayFail /\ UNCHANGED synced
    /\ UNCHANGED <<enabled_, aof, sequence_, snapshot, older, cur, history, clock, commands>>

\* The machine fails: lines not yet synced may be lost from the end of the
\* file, the last of them in part, and a rename may be undone.  Losing
\* nothing is what happens when only the process is killed.
Crash ==
    /\ status = "up"
    /\ restarts < MaxRestarts /\ restarts' = restarts + 1
    /\ status' = "down"
    /\ mem' = Nothing /\ cur' = Quiet
    /\ \E n \in synced .. Len(aof) :
          \/ aof' = SubSeq(aof, 1, n)
          \/ /\ DiskMayFail /\ n < Len(aof)
             /\ \E torn \in Torn(aof[n + 1]) : aof' = Append(SubSeq(aof, 1, n), torn)
    /\ snapshot' \in older \cup {snapshot}
    /\ older' = {}
    /\ UNCHANGED <<enabled_, synced, dirty_, sequence_, history, clock, commands>>

Tick ==
    /\ clock < MaxTime
    /\ clock' = clock + 1
    /\ UNCHANGED <<status, enabled_, mem, disk, dirty_, sequence_, cur, history,
                   commands, restarts>>

\* The bounded workload is used up, or the server would not start.
Finished ==
    /\ status = "refused" \/ (status = "up" /\ cur = Quiet /\ commands = MaxCommands)
    /\ UNCHANGED vars

Next ==
    \/ \E e \in AofModes : Start(e)
    \/ \E c \in Commands : Execute(c) \/ ExecuteUnlogged(c) \/ Read(c) \/ Save(c)
    \/ AppendRecord \/ SyncRecord \/ Reply \/ Sweep \/ SyncLoop
    \/ Stop \/ Crash \/ Tick \/ Finished

Spec == Init /\ [][Next]_vars

\* sync_loop comes back every second.
FairSpec == Spec /\ WF_vars(SyncLoop)
-----------------------------------------------------------------------------
(***************************************************************************)
(* Properties                                                              *)
(***************************************************************************)
Times == -(2 ^ (ClockBits - 1)) .. 2 ^ (ClockBits - 1) - 1
Entry == [value : LongLong \cup {Text}, expires_at : Times \cup {NoExpiry}] \cup {NoEntry}
Snapshots == older \cup {snapshot}

\* The variables have their types, values fit a long long and expiries the
\* clock (increment, expire_at), and the access order lists the keys present.
TypeOK ==
    /\ status \in {"down", "up", "refused"} /\ enabled_ \in BOOLEAN /\ dirty_ \in BOOLEAN
    /\ mem.map \in [Keys -> Entry]
    /\ ToSet(mem.order) = {k \in Keys : mem.map[k] # NoEntry}
    /\ \A i \in DOMAIN aof : Sequence(aof[i], i) \in Nat /\ aof[i].whole \in BOOLEAN
    /\ synced \in 0 .. Len(aof) /\ {sequence_, acked, stamp} \subseteq Nat
    /\ \A s \in Snapshots : s.sequence \in Nat /\ s.entries \in [Keys -> Entry]
    /\ cur.stage \in {"idle", "log", "append", "sync"} /\ cur.keys \subseteq Keys
    /\ unsure \subseteq Keys
    /\ clock \in Nat /\ commands \in Nat /\ restarts \in Nat

\* No mutation is under way, so all of them have been logged.
Settled == status = "up" /\ enabled_ /\ cur = Quiet

\* A restart that finds snapshot s shows clients the keys K as they are now.
Restores(s, K) ==
    \A k \in K :
      Visible(Recovered(s, aof, clock).map, clock)[k] = Visible(mem.map, clock)[k]

\* Whenever no mutation is under way, a restart would rebuild what clients
\* see now, whichever of the snapshots it finds: recover forgets and repeats
\* nothing (README.md:135: "Durability is strict only with `--fsync always`").
\* Keys whose mutation was answered with an error are not promised.
RestartRestores ==
    Settled => \A s \in Snapshots : ~Refuses(s, aof, clock) /\ Restores(s, Keys \ unsure)

\* A restart either restores every key whose mutations were acknowledged or
\* refuses to start; nothing acknowledged disappears in silence.
NoSilentLoss ==
    Settled => \A s \in Snapshots :
        Refuses(s, aof, clock) \/ Restores(s, Keys \ (unsure \cup {Stray}))

\* Key k has an expiry in the log that has passed by now, and a later record
\* that changed the entry rather than replacing it.
Edited(s, k, now) ==
    LET records == Newer(s, aof)
        op(i) == records[i].command.op
        touches(i) == op(i) = "FLUSH" \/ k \in ToSet(records[i].command.keys)
        lapses(i) == IF i = 0 THEN s.entries[k] # NoEntry /\ is_expired(s.entries[k], now)
                     ELSE /\ touches(i) /\ op(i) = "EXPIREAT"
                          /\ from_epoch_millis(records[i].command.args[1]) <= now
    IN  \E i \in 0 .. Len(records), j \in DOMAIN records :
          /\ i < j /\ lapses(i)
          /\ touches(j) /\ op(j) \in {"EXPIREAT", "PERSIST", "INCR", "DECR", "APPEND"}
          /\ \A m \in i + 1 .. j - 1 :
               ~(touches(m) /\ op(m) \in {"SET", "MSET", "DEL", "FLUSH"})

\* RestartRestores for every key whose expiry was not edited: what
\* apply_replay_command does with an expiry that has passed meanwhile, with
\* EXPIRE logged as EXPIREAT in whole milliseconds, and with keys the sweeper
\* and readers erased unlogged, comes to the same.
RestartRestoresUnedited ==
    Settled => \A s \in Snapshots :
        /\ ~Refuses(s, aof, clock)
        /\ Restores(s, {k \in Keys \ unsure : ~Edited(s, k, clock)})

\* README.md:113: "`fsync` before acknowledging every logged mutation".  No
\* record of an acknowledged command can be lost to a power failure.
AckedOnDisk == fsync_policy_ = "always" => acked <= synced

\* The line begins with the number of one record, all of it.
Numbered(line) == line.tab /\ ~line.prefix.glued

\* README.md:132: "Snapshot checkpoints and subsequent AOF records are
\* separated by sequence number."  A record that begins a line with its whole
\* number is replayed if it was appended after the SAVE and skipped if it was
\* in the file before, whatever was lost, torn, or continues its line.  A SAVE
\* with AOF off takes over the checkpoint of the snapshot before it, also for
\* records that were in the file when it was made.
Separated ==
    \A s \in Snapshots, i \in DOMAIN aof :
        Numbered(aof[i]) => (aof[i].prefix.record > s.covers <=> Sequence(aof[i], i) > s.sequence)

\* docs/protocol.md:48: "`-1` for a live key without expiry and `-2` for a
\* missing/expired key".  A restart leaves the TTL a client is told as it is or
\* shortens it by one second, its last one to -2, for keys whose expiry was
\* not edited.
TtlAcrossRestart ==
    Settled => \A s \in Snapshots, k \in Keys \ unsure :
        LET before == TtlReply(mem, k, clock)
            after == TtlReply(Recovered(s, aof, clock), k, clock)
        IN  Edited(s, k, clock) \/ after = before
              \/ (before > 1 /\ after = before - 1) \/ (before = 1 /\ after = -2)

\* README.md:107: "`EXPIRE` is logged as an absolute `EXPIREAT` timestamp so a
\* restart never extends a TTL", whatever was done to the key before and after.
NeverExtends ==
    Settled => \A s \in Snapshots, k \in Keys \ unsure :
        LET before == TtlReply(mem, k, clock)
            after == TtlReply(Recovered(s, aof, clock), k, clock)
        IN  Refuses(s, aof, clock) \/ after = before \/ (after # -1 /\ after < before)
              \/ before = -1

\* README.md:114: with everysec the background thread brings every record to
\* the disk, unless the server is stopped first.  A process that is killed
\* leaves its records to the operating system: dirty_ dies with it.
EventuallySynced ==
    \A n \in 1 .. MaxCommands : (status = "up" /\ enabled_ /\ restarts = 0 /\ Len(aof) >= n)
                                  ~> (synced >= n \/ status # "up")
=============================================================================
