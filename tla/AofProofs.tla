------------------------------ MODULE AofProofs ------------------------------
(***************************************************************************)
(* With --fsync always no record of an acknowledged command can be lost,   *)
(* for any commands, limits and number of restarts, and with a disk that   *)
(* fails.                                                                  *)
(*                                                                         *)
(* A torn line is the danger: the next record joins it, and the file then  *)
(* has fewer lines on the disk than before.  So AckInv also says that only *)
(* the last line can be torn, and that it is then not acknowledged.        *)
(*                                                                         *)
(* The second part shows that recovery, which skips the records numbered   *)
(* up to the snapshot's sequence, skips those that the snapshot holds: a   *)
(* cut that leaves a line its number leaves the comparison right.          *)
(***************************************************************************)
EXTENDS AppendOnlyFile, SequenceTheorems, FiniteSetTheorems, TLAPS

IsSequence(s) == \E S : s \in Seq(S)

CurOK ==
    /\ cur = [stage |-> cur.stage, todo |-> cur.todo, keys |-> cur.keys, ok |-> cur.ok]
    /\ cur.ok \in BOOLEAN

\* The last line of the file is complete.
LastWhole(lines) == lines # <<>> => lines[Len(lines)].whole

FileOK ==
    /\ IsSequence(aof)
    /\ \A i \in 1 .. Len(aof) : aof[i].whole \in BOOLEAN
    /\ \A i \in 1 .. Len(aof) - 1 : aof[i].whole
    /\ synced \in Nat /\ synced <= Len(aof)

AckInv ==
    /\ CurOK /\ FileOK
    /\ acked \in Nat /\ acked <= synced
    /\ ~LastWhole(aof) => acked < Len(aof)
    /\ cur.stage = "sync" => LastWhole(aof)
    /\ cur.stage = "append" /\ cur.ok => LastWhole(aof) /\ synced = Len(aof)

USE DEF disk, history

\* What Min is used for.
LEMMA MinOfTwo ==
    ASSUME NEW a \in Nat, NEW b \in Nat
    PROVE  Min({a, b}) \in {a, b} /\ Min({a, b}) <= a /\ Min({a, b}) <= b
<1>1. \E x \in {a, b} : \A y \in {a, b} : x <= y
  <2>1. CASE a <= b
    BY <2>1
  <2>2. CASE b <= a
    BY <2>2
  <2> QED
    BY <2>1, <2>2
<1>2. Min({a, b}) \in {a, b} /\ \A y \in {a, b} : Min({a, b}) <= y
  BY <1>1 DEF Min
<1> QED
  BY <1>2

\* The first n lines, which a crash leaves and Front takes.
LEMMA Prefix ==
    ASSUME NEW S, NEW s \in Seq(S), NEW n \in 0 .. Len(s)
    PROVE  /\ SubSeq(s, 1, n) \in Seq(S) /\ Len(SubSeq(s, 1, n)) = n
           /\ \A i \in 1 .. n : SubSeq(s, 1, n)[i] = s[i]
<1>1. Len(s) \in Nat
  OBVIOUS
<1>2. 1 \in 1 .. Len(s) + 1 /\ n \in 1 - 1 .. Len(s)
  BY <1>1
<1> QED
  BY <1>1, <1>2, SubSeqProperties

\* A torn line has no newline.
LEMMA TornWhole == ASSUME NEW line, NEW torn \in Torn(line) PROVE torn.whole = FALSE
<1>1. PICK p, b, t : torn = Line(p, b, t, FALSE)
  BY DEF Torn
<1> QED
  BY <1>1 DEF Line

\* A record written to the file follows the last line, or joins it.
LEMMA WrittenLines ==
    ASSUME FileOK, NEW line, line.whole \in BOOLEAN
    PROVE  LET new == Written(aof, line)
           IN  /\ IsSequence(new)
               /\ \A i \in 1 .. Len(new) - 1 : new[i].whole
               /\ \A i \in 1 .. Len(new) : new[i].whole \in BOOLEAN
               /\ Len(new) \in Nat \ {0} /\ new[Len(new)].whole = line.whole
               /\ Len(new) = IF LastWhole(aof) THEN Len(aof) + 1 ELSE Len(aof)
<1>1. PICK S : aof \in Seq(S)
  BY DEF FileOK, IsSequence
<1>2. CASE LastWhole(aof)
  <2>1. Written(aof, line) = Append(aof, line)
    BY <1>1, <1>2, Zenon DEF Written, Last, LastWhole
  <2>2. aof \in Seq(S \cup {line}) /\ line \in S \cup {line}
    BY <1>1
  <2>3. Append(aof, line) \in Seq(S \cup {line}) /\ Len(Append(aof, line)) = Len(aof) + 1
        /\ Append(aof, line)[Len(aof) + 1] = line
        /\ \A i \in 1 .. Len(aof) : Append(aof, line)[i] = aof[i]
    BY <2>2
  <2>4. \A i \in 1 .. Len(aof) : aof[i].whole
    BY <1>1, <1>2 DEF FileOK, LastWhole
  <2> DEFINE new == Append(aof, line)
  <2> HIDE DEF new
  <2>5. new \in Seq(S \cup {line}) /\ Len(new) = Len(aof) + 1 /\ new[Len(aof) + 1] = line
        /\ \A i \in 1 .. Len(aof) : new[i] = aof[i]
    BY <2>3 DEF new
  <2>6. IsSequence(new)
    BY <2>5 DEF IsSequence
  <2>7. Len(aof) \in Nat
    BY <1>1
  <2>8. \A i \in 1 .. Len(new) - 1 : new[i].whole
    BY <2>4, <2>5, <2>7
  <2>9. \A i \in 1 .. Len(new) : new[i].whole \in BOOLEAN
    <3> TAKE i \in 1 .. Len(new)
    <3>1. i \in 1 .. Len(aof) \/ i = Len(aof) + 1
      BY <2>5, <2>7
    <3> QED
      BY <3>1, <2>5 DEF FileOK
  <2>10. Len(new) \in Nat \ {0} /\ new[Len(new)].whole = line.whole
    BY <2>5, <2>7
  <2> QED
    BY <1>2, <2>1, <2>5, <2>6, <2>8, <2>9, <2>10 DEF new
<1>3. CASE ~LastWhole(aof)
  <2>1. aof # <<>> /\ Len(aof) \in Nat \ {0} /\ ~aof[Len(aof)].whole
    BY <1>1, <1>3 DEF LastWhole
  <2>2. PICK last : /\ Written(aof, line) = Append(Front(aof), last)
                    /\ \E p, b, t : last = Line(p, b, t, line.whole)
    BY <2>1, Zenon DEF Written, Last
  <2> DEFINE new == Append(Front(aof), last)
  <2>3. last.whole = line.whole
    <3>1. PICK p, b, t : last = Line(p, b, t, line.whole)
      BY <2>2
    <3> QED
      BY <3>1 DEF Line
  <2>4. Front(aof) \in Seq(S \cup {last}) /\ Len(Front(aof)) = Len(aof) - 1
        /\ \A i \in 1 .. Len(aof) - 1 : Front(aof)[i] = aof[i]
    <3>1. Front(aof) = SubSeq(aof, 1, Len(aof) - 1)
      BY DEF Front
    <3> DEFINE T == S \cup {last}
    <3>2. aof \in Seq(T)
      BY <1>1
    <3> HIDE DEF T
    <3>3. Len(aof) - 1 \in 0 .. Len(aof)
      BY <2>1
    <3>4. SubSeq(aof, 1, Len(aof) - 1) \in Seq(T)
          /\ Len(SubSeq(aof, 1, Len(aof) - 1)) = Len(aof) - 1
          /\ \A i \in 1 .. Len(aof) - 1 : SubSeq(aof, 1, Len(aof) - 1)[i] = aof[i]
      BY <3>2, <3>3, Prefix, Zenon
    <3> QED
      BY <3>1, <3>4 DEF T
  <2>5. new \in Seq(S \cup {last}) /\ Len(new) = Len(aof) /\ new[Len(aof)] = last
        /\ \A i \in 1 .. Len(aof) - 1 : new[i] = aof[i]
    BY <1>1, <2>1, <2>4
  <2> HIDE DEF new
  <2>6. IsSequence(new)
    BY <2>5 DEF IsSequence
  <2>7. \A i \in 1 .. Len(new) - 1 : new[i].whole
    BY <2>1, <2>5 DEF FileOK
  <2>8. \A i \in 1 .. Len(new) : new[i].whole \in BOOLEAN
    <3> TAKE i \in 1 .. Len(new)
    <3>1. i \in 1 .. Len(aof) - 1 \/ i = Len(aof)
      BY <2>1, <2>5
    <3>2. CASE i \in 1 .. Len(aof) - 1
      BY <2>5, <2>7, <3>2, <2>1 DEF FileOK
    <3> QED
      BY <2>3, <2>5, <3>1, <3>2
  <2>9. Len(new) \in Nat \ {0} /\ new[Len(new)].whole = line.whole
    BY <2>1, <2>3, <2>5
  <2> QED
    BY <1>3, <2>2, <2>5, <2>6, <2>7, <2>8, <2>9 DEF new
<1> QED
  BY <1>2, <1>3

USE DEF Quiet

\* Steps that touch neither the file, the command under way nor acked.
LEMMA Frame ==
    ASSUME AckInv, UNCHANGED <<aof, synced, cur, acked>>
    PROVE  AckInv'
  BY DEF AckInv, CurOK, FileOK, LastWhole

\* A whole record is the last line of the file, not yet synced; a failed
\* write leaves the file alone or a torn line, which is not acknowledged.
LEMMA AppendStep ==
    ASSUME AckInv, AppendRecord, fsync_policy_ = "always"
    PROVE  AckInv'
<1> DEFINE line == Record(sequence_ + 1, Head(cur.todo), stamp + 1)
<1>1. acked' = acked /\ synced' = IF aof' = aof THEN synced ELSE Min({synced, Len(aof') - 1})
  BY DEF AppendRecord
<1>2. line.whole = TRUE /\ \A torn \in Torn(line) : torn.whole = FALSE
  BY TornWhole, Zenon DEF Line, Record
<1>3. Len(aof) \in Nat
  BY DEF AckInv, FileOK, IsSequence
<1> HIDE DEF line
<1>4. ASSUME NEW l, l.whole \in BOOLEAN, aof' = Written(aof, l)
      PROVE  /\ FileOK' /\ acked <= synced'
             /\ Len(aof') \in Nat \ {0} /\ aof'[Len(aof')].whole = l.whole
             /\ acked < Len(aof')
  <2>1. /\ IsSequence(aof') /\ \A i \in 1 .. Len(aof') - 1 : aof'[i].whole
        /\ \A i \in 1 .. Len(aof') : aof'[i].whole \in BOOLEAN
        /\ Len(aof') \in Nat \ {0} /\ aof'[Len(aof')].whole = l.whole
        /\ Len(aof') = IF LastWhole(aof) THEN Len(aof) + 1 ELSE Len(aof)
    BY <1>4, WrittenLines DEF AckInv
  <2>2. acked \in Nat /\ synced \in Nat /\ acked <= synced /\ synced <= Len(aof)
        /\ (~LastWhole(aof) => acked < Len(aof))
    BY DEF AckInv, FileOK
  <2>3. acked < Len(aof') /\ synced <= Len(aof')
    BY <1>3, <2>1, <2>2
  <2>4. CASE aof' = aof
    BY <1>1, <2>1, <2>2, <2>3, <2>4 DEF FileOK
  <2>5. CASE aof' # aof
    <3>1. synced' = Min({synced, Len(aof') - 1}) /\ Len(aof') - 1 \in Nat
      BY <1>1, <2>1, <2>5
    <3>2. synced' \in {synced, Len(aof') - 1} /\ synced' <= Len(aof') - 1
      BY <2>2, <3>1, MinOfTwo
    <3>3. synced' \in Nat /\ synced' <= Len(aof') /\ acked <= synced'
      BY <2>1, <2>2, <2>3, <3>1, <3>2
    <3> QED
      BY <2>1, <2>3, <3>3 DEF FileOK
  <2> QED
    BY <2>4, <2>5
<1>5. CASE /\ aof' = Written(aof, line)
           /\ cur' = [cur EXCEPT !.todo = Tail(@), !.stage = "sync"]
  <2>1. line.whole \in BOOLEAN
    BY <1>2, Zenon
  <2>2. FileOK' /\ acked <= synced' /\ aof'[Len(aof')].whole = line.whole
    <3>1. aof' = Written(aof, line)
      BY <1>5
    <3> QED
      BY <1>4, <2>1, <3>1
  <2>3. aof'[Len(aof')].whole
    BY <1>2, <2>2, Zenon
  <2>4. FileOK' /\ acked <= synced' /\ LastWhole(aof')
    BY <2>2, <2>3 DEF LastWhole
  <2>5. CurOK' /\ cur'.stage = "sync"
    BY <1>5, Zenon DEF AckInv, CurOK
  <2>6. acked' \in Nat /\ acked' <= synced'
    BY <1>1, <2>4 DEF AckInv
  <2> QED
    BY <2>4, <2>5, <2>6 DEF AckInv
<1>6. CASE /\ aof' = aof \/ \E torn \in Torn(line) : aof' = Written(aof, torn)
           /\ cur' = [cur EXCEPT !.todo = Tail(@), !.stage = "append", !.ok = FALSE]
  <2>1. CurOK' /\ cur'.stage = "append" /\ ~cur'.ok
    BY <1>6, Zenon DEF AckInv, CurOK
  <2>2. CASE aof' = aof
    BY <1>1, <2>1, <2>2 DEF AckInv, FileOK, LastWhole
  <2>3. ASSUME NEW torn \in Torn(line), aof' = Written(aof, torn) PROVE AckInv'
    <3>1. torn.whole \in BOOLEAN
      BY <1>2, Zenon
    <3>2. FileOK' /\ acked <= synced' /\ acked < Len(aof')
      BY <1>4, <2>3, <3>1
    <3>3. acked' \in Nat /\ acked' <= synced' /\ acked' < Len(aof')
      BY <1>1, <3>2 DEF AckInv
    <3> QED
      BY <2>1, <3>2, <3>3 DEF AckInv
  <2> QED
    BY <1>6, <2>2, <2>3
<1> QED
  BY <1>5, <1>6, Zenon DEF AppendRecord, line

\* After an fsync that succeeds every line of the file is on the disk.
LEMMA SyncStep ==
    ASSUME AckInv, SyncRecord
    PROVE  AckInv'
<1>1. aof' = aof /\ acked' = acked /\ Len(aof) \in Nat /\ LastWhole(aof)
  BY DEF SyncRecord, AckInv, FileOK, IsSequence
<1>2. CASE synced' = Len(aof) /\ cur' = [cur EXCEPT !.stage = "append"]
  <2>1. CurOK'
    BY <1>2 DEF AckInv, CurOK
  <2> QED
    BY <1>1, <1>2, <2>1 DEF AckInv, FileOK, LastWhole
<1>3. CASE synced' = synced /\ cur' = [cur EXCEPT !.stage = "append", !.ok = FALSE]
  <2>1. CurOK' /\ cur'.stage = "append" /\ ~cur'.ok
    BY <1>3, Zenon DEF AckInv, CurOK
  <2> QED
    BY <1>1, <1>3, <2>1 DEF AckInv, FileOK, LastWhole
<1> QED
  BY <1>2, <1>3 DEF SyncRecord

\* A command is acknowledged only when its records were written and synced.
LEMMA ReplyStep ==
    ASSUME AckInv, Reply
    PROVE  AckInv'
<1>1. aof' = aof /\ synced' = synced /\ cur.stage = "append" /\ cur' = Quiet
  BY DEF Reply
<1>2. CurOK' /\ cur'.stage = "idle"
  BY <1>1 DEF CurOK
<1>3. Len(aof) \in Nat
  BY DEF AckInv, FileOK, IsSequence
<1>4. CASE cur.ok /\ acked' = Len(aof)
  BY <1>1, <1>2, <1>3, <1>4 DEF AckInv, FileOK, LastWhole
<1>5. CASE acked' = acked
  BY <1>1, <1>2, <1>5 DEF AckInv, FileOK, LastWhole
<1> QED
  BY <1>4, <1>5 DEF Reply

\* A new command: nothing of it is written yet.
LEMMA ExecuteStep ==
    ASSUME AckInv, NEW c, Execute(c)
    PROVE  AckInv'
<1>1. aof' = aof /\ synced' = synced /\ acked' = acked
  BY DEF Execute
<1>2. \E t, k : cur' = [stage |-> "log", todo |-> t, keys |-> k, ok |-> TRUE] \/ cur' = Quiet
  BY Zenon DEF Execute
<1>3. CurOK' /\ cur'.stage \in {"log", "idle"}
  <2>1. PICK t, k : cur' = [stage |-> "log", todo |-> t, keys |-> k, ok |-> TRUE] \/ cur' = Quiet
    BY <1>2
  <2>2. CASE cur' = [stage |-> "log", todo |-> t, keys |-> k, ok |-> TRUE]
    BY <2>2 DEF CurOK
  <2>3. CASE cur' = Quiet
    BY <2>3 DEF CurOK
  <2> QED
    BY <2>1, <2>2, <2>3
<1> QED
  BY <1>1, <1>3 DEF AckInv, FileOK, LastWhole

\* A machine that fails keeps the synced lines, and may keep a torn one.
LEMMA CrashStep ==
    ASSUME AckInv, Crash
    PROVE  AckInv'
<1>1. synced' = synced /\ acked' = acked /\ CurOK' /\ cur'.stage = "idle"
  BY DEF Crash, CurOK
<1>2. PICK n \in synced .. Len(aof) :
         \/ aof' = SubSeq(aof, 1, n)
         \/ n < Len(aof) /\ \E torn \in Torn(aof[n + 1]) : aof' = Append(SubSeq(aof, 1, n), torn)
  BY DEF Crash
<1>3. PICK S : aof \in Seq(S)
  BY DEF AckInv, FileOK, IsSequence
<1>4. /\ synced \in Nat /\ acked \in Nat /\ acked <= synced /\ synced <= Len(aof)
      /\ Len(aof) \in Nat /\ n \in 0 .. Len(aof) /\ synced <= n
  BY <1>3 DEF AckInv, FileOK
<1> DEFINE kept == SubSeq(aof, 1, n)
<1>5. kept \in Seq(S) /\ Len(kept) = n /\ \A i \in 1 .. n : kept[i] = aof[i]
  BY <1>3, <1>4, Prefix, Zenon
<1> HIDE DEF kept
<1>6. CASE aof' = kept
  <2>1. IsSequence(aof')
    BY <1>5, <1>6 DEF IsSequence
  <2>2. FileOK'
    BY <1>1, <1>4, <1>5, <1>6, <2>1 DEF AckInv, FileOK
  <2>3. ~LastWhole(aof') => acked < Len(aof')
    <3>1. CASE n = Len(aof)
      BY <1>3, <1>4, <1>5, <1>6, <3>1 DEF AckInv, LastWhole
    <3>2. CASE n < Len(aof)
      BY <1>3, <1>4, <1>5, <1>6, <3>2 DEF AckInv, FileOK, LastWhole
    <3> QED
      BY <1>4, <3>1, <3>2
  <2> QED
    BY <1>1, <1>4, <2>2, <2>3 DEF AckInv
<1>7. ASSUME n < Len(aof), NEW torn \in Torn(aof[n + 1]), aof' = Append(kept, torn) PROVE AckInv'
  <2>1. torn.whole = FALSE
    BY TornWhole
  <2>2. aof' \in Seq(S \cup {torn}) /\ Len(aof') = n + 1 /\ aof'[n + 1] = torn
        /\ \A i \in 1 .. n : aof'[i] = kept[i]
    <3>1. kept \in Seq(S \cup {torn}) /\ aof' = Append(kept, torn)
      BY <1>5, <1>7
    <3> QED
      BY <1>4, <1>5, <3>1
  <2>3. \A i \in 1 .. n : aof'[i] = aof[i] /\ aof[i].whole
    BY <1>4, <1>5, <1>7, <2>2 DEF AckInv, FileOK
  <2>4. \A i \in 1 .. n + 1 : aof'[i].whole \in BOOLEAN
    <3> TAKE i \in 1 .. n + 1
    <3>1. CASE i = n + 1
      BY <2>1, <2>2, <3>1, Zenon
    <3>2. CASE i \in 1 .. n
      BY <1>4, <2>3, <3>2 DEF AckInv, FileOK
    <3> QED
      BY <1>4, <3>1, <3>2
  <2>5. FileOK'
    BY <1>1, <1>4, <2>2, <2>3, <2>4 DEF FileOK, IsSequence
  <2> QED
    BY <1>1, <1>4, <2>2, <2>5 DEF AckInv
<1> QED
  BY <1>2, <1>6, <1>7 DEF kept

\* close() syncs the file or not, with no command under way.
LEMMA StopStep ==
    ASSUME AckInv, Stop
    PROVE  AckInv'
<1>1. aof' = aof /\ acked' = acked /\ cur' = cur /\ cur.stage = "idle"
      /\ synced' \in {Len(aof), synced} /\ Len(aof) \in Nat
  BY DEF Stop, AckInv, FileOK, IsSequence
<1> QED
  BY <1>1 DEF AckInv, CurOK, FileOK, LastWhole

\* Every step preserves AckInv under --fsync always.
LEMMA AckStep ==
    ASSUME AckInv, [Next]_vars, fsync_policy_ = "always"
    PROVE  AckInv'
<1>1. CASE UNCHANGED vars
  BY <1>1, Frame DEF vars
<1>2. CASE AppendRecord
  BY <1>2, AppendStep
<1>3. CASE SyncRecord
  BY <1>3, SyncStep
<1>4. CASE Reply
  BY <1>4, ReplyStep
<1>5. ASSUME NEW c \in Commands, Execute(c)
      PROVE  AckInv'
  BY <1>5, ExecuteStep
<1>6. CASE Crash
  BY <1>6, CrashStep
<1>7. CASE Stop
  BY <1>7, StopStep
<1>8. ASSUME NEW c \in Commands, ExecuteUnlogged(c) \/ Read(c) \/ Save(c)
      PROVE  AckInv'
  BY <1>8, Frame DEF ExecuteUnlogged, Read, Save
<1>9. CASE Sweep \/ SyncLoop \/ Tick \/ Finished
  BY <1>9, Frame DEF Sweep, SyncLoop, Tick, Finished, vars
<1>10. ASSUME NEW on \in AofModes, Start(on)
       PROVE  AckInv'
  BY <1>10, Frame DEF Start
<1> QED
  BY <1>1, <1>2, <1>3, <1>4, <1>5, <1>6, <1>7, <1>8, <1>9, <1>10 DEF Next

\* With --fsync always every record behind an acknowledged command is on the
\* disk (ClientHandler::persist_if_needed, write_record_locked), whatever
\* writes and syncs fail and wherever the machine does.
THEOREM AcknowledgedIsDurable == Spec => []AckedOnDisk
<1>1. CASE fsync_policy_ = "always"
  <2>1. Init => AckInv
    BY DEF Init, AckInv, CurOK, FileOK, IsSequence, LastWhole
  <2>2. AckInv /\ [Next]_vars => AckInv'
    BY <1>1, AckStep
  <2>3. AckInv => AckedOnDisk
    BY DEF AckInv, AckedOnDisk
  <2> QED
    BY <2>1, <2>2, <2>3, PTL DEF Spec
<1>2. CASE fsync_policy_ # "always"
  <2>1. AckedOnDisk
    BY <1>2 DEF AckedOnDisk
  <2> QED
    BY <2>1, PTL
<1> QED
  BY <1>1, <1>2

-----------------------------------------------------------------------------
(***************************************************************************)
(* Snapshots and records are told apart by sequence number.                *)
(***************************************************************************)
\* The sequence numbers, not cut and not glued, that lines begin with.
Heads(lines) == {lines[i].prefix : i \in {j \in 1 .. Len(lines) : Numbered(lines[j])}}

\* Every line begins with a number, and there is a largest one.
LinesOK ==
    /\ IsSequence(aof)
    /\ \E b \in Nat : \A i \in 1 .. Len(aof) :
         aof[i].prefix.number \in Int /\ aof[i].prefix.number <= b

SnapshotsOK ==
    \A s \in Snapshots : /\ s.sequence \in Nat /\ s.sequence <= snapshot.sequence
                         /\ s.covers \in Nat /\ s.covers <= stamp

\* A snapshot's number lies between those of the records before and after it.
HeadsOK ==
    /\ \A h \in Heads(aof) : h.number \in Nat /\ h.record \in Nat /\ h.record <= stamp
    /\ \A s \in Snapshots, h \in Heads(aof) :
         h.record > s.covers <=> h.number > s.sequence

SepInv ==
    /\ LinesOK /\ SnapshotsOK /\ HeadsOK
    /\ sequence_ \in Nat /\ synced \in Nat /\ stamp \in Nat
    /\ status = "up" => snapshot.sequence <= sequence_
    /\ status = "up" /\ enabled_ => \A h \in Heads(aof) : h.number <= sequence_
    /\ status = "up" /\ ~enabled_ => sequence_ = snapshot.sequence
    /\ cur # Quiet => status = "up" /\ enabled_

\* Steps that leave the file, the snapshots and the numbering alone.
LEMMA SepFrame ==
    ASSUME SepInv, UNCHANGED <<status, enabled_, aof, snapshot, older, sequence_, stamp>>,
           synced' \in {synced, Len(aof)},
           cur' = cur \/ cur' = Quiet \/ (status = "up" /\ enabled_)
    PROVE  SepInv'
<1>1. Len(aof) \in Nat
  BY DEF SepInv, LinesOK, IsSequence
<1>2. Snapshots' = Snapshots /\ Heads(aof)' = Heads(aof)
  BY DEF Snapshots, Heads, Numbered
<1>3. LinesOK' /\ SnapshotsOK' /\ HeadsOK'
  BY <1>2 DEF SepInv, LinesOK, SnapshotsOK, HeadsOK
<1> QED
  BY <1>1, <1>2, <1>3 DEF SepInv

\* Digits behind digits are a number.
LEMMA DigitsNumber == ASSUME NEW m \in Int, NEW n \in Int PROVE Digits(m, n) \in Int
<1> DEFINE D == {d \in 0 .. 8 : 10 ^ d <= n}
<1>1. D \in SUBSET (0 .. 8)
  OBVIOUS
<1> HIDE DEF D
<1>2. Cardinality(D) \in Nat
  <2>1. 0 \in Int /\ 8 \in Int
    OBVIOUS
  <2>2. IsFiniteSet(0 .. 8)
    BY <2>1, FS_Interval, Zenon
  <2>3. IsFiniteSet(D)
    BY <1>1, <2>2, FS_Subset, Zenon
  <2> QED
    BY <2>3, FS_CardinalityType, Zenon
<1>3. Size(n) \in Nat
  BY <1>2 DEF Size, D
<1> DEFINE shift == 10 ^ Size(n)
<1>4. shift \in Int
  BY <1>3
<1> HIDE DEF shift
<1>5. m * shift \in Int
  BY <1>4
<1> QED
  BY <1>5 DEF Digits, shift

\* A cut leaves a line its number, or no number that counts.
LEMMA TornHead ==
    ASSUME NEW line, line.prefix.number \in Int, NEW torn \in Torn(line)
    PROVE  /\ torn.prefix.number \in Int
           /\ Numbered(torn) => Numbered(line) /\ torn.prefix = line.prefix
<1>1. CASE \E q \in {line.prefix} \cup CutNumbers(line.prefix) : torn = Line(q, FALSE, <<>>, FALSE)
  <2>1. PICK q \in {line.prefix} \cup CutNumbers(line.prefix) : torn = Line(q, FALSE, <<>>, FALSE)
    BY <1>1
  <2>2. torn.prefix = q /\ torn.tab = FALSE
    BY <2>1 DEF Line
  <2>3. q.number \in Int
    <3>1. CASE q \in CutNumbers(line.prefix)
      <4>1. PICK n \in 1 .. line.prefix.number - 1 : q = Number(n, line.prefix.record, TRUE)
        BY <3>1 DEF CutNumbers
      <4>2. q.number = n
        BY <4>1 DEF Number
      <4> QED
        BY <4>2
    <3> QED
      BY <2>1, <3>1
  <2> QED
    BY <2>2, <2>3 DEF Numbered
<1>2. CASE line.tab /\ \E t : torn = Line(line.prefix, TRUE, t, FALSE)
  <2>1. PICK t : torn = Line(line.prefix, TRUE, t, FALSE)
    BY <1>2
  <2>2. torn.prefix = line.prefix
    BY <2>1 DEF Line
  <2> QED
    BY <1>2, <2>2 DEF Numbered
<1> QED
  BY <1>1, <1>2 DEF Torn

\* The lines are those of before, and possibly another one.
LEMMA LinesChanged ==
    ASSUME LinesOK, NEW x, x.prefix.number \in Int, IsSequence(aof'),
           \A i \in 1 .. Len(aof') : aof'[i] = x \/ \E j \in 1 .. Len(aof) : aof'[i] = aof[j]
    PROVE  /\ LinesOK'
           /\ \A h \in Heads(aof') : h \in Heads(aof) \/ (Numbered(x) /\ h = x.prefix)
<1>1. PICK b \in Nat : \A i \in 1 .. Len(aof) :
         aof[i].prefix.number \in Int /\ aof[i].prefix.number <= b
  BY DEF LinesOK
<1>2. PICK m \in Nat : b <= m /\ x.prefix.number <= m
  <2>1. CASE x.prefix.number <= b
    BY <2>1
  <2>2. CASE b <= x.prefix.number
    BY <2>2
  <2> QED
    BY <2>1, <2>2
<1>3. \A i \in 1 .. Len(aof') : aof'[i].prefix.number \in Int /\ aof'[i].prefix.number <= m
  BY <1>1, <1>2
<1>4. LinesOK'
  BY <1>3 DEF LinesOK
<1>5. ASSUME NEW h \in Heads(aof') PROVE h \in Heads(aof) \/ (Numbered(x) /\ h = x.prefix)
  <2>1. PICK i \in 1 .. Len(aof') : Numbered(aof'[i]) /\ h = aof'[i].prefix
    BY DEF Heads
  <2> QED
    BY <2>1 DEF Heads
<1> QED
  BY <1>4, <1>5

\* A record that joins a line leaves it its number, or makes it one that does
\* not count.
LEMMA WrittenHeads ==
    ASSUME LinesOK, NEW line, line.prefix.number \in Int, aof' = Written(aof, line)
    PROVE  /\ LinesOK' /\ Len(aof') \in Nat \ {0}
           /\ \A h \in Heads(aof') : h \in Heads(aof) \/ (Numbered(line) /\ h = line.prefix)
<1>1. PICK S : aof \in Seq(S)
  BY DEF LinesOK, IsSequence
<1>2. Len(aof) \in Nat
  BY <1>1
<1>3. CASE aof' = Append(aof, line)
  <2>1. aof \in Seq(S \cup {line}) /\ line \in S \cup {line}
    BY <1>1
  <2>2. /\ aof' \in Seq(S \cup {line}) /\ Len(aof') = Len(aof) + 1
        /\ aof'[Len(aof) + 1] = line
        /\ \A i \in 1 .. Len(aof) : aof'[i] = aof[i]
    BY <1>3, <2>1
  <2>3. \A i \in 1 .. Len(aof') : i \in 1 .. Len(aof) \/ i = Len(aof) + 1
    BY <1>2, <2>2
  <2>4. IsSequence(aof')
    BY <2>2 DEF IsSequence
  <2> QED
    BY <1>2, <2>2, <2>3, <2>4, LinesChanged
<1>4. ASSUME aof # <<>>, NEW x, aof' = Append(Front(aof), x)
      PROVE  /\ IsSequence(aof') /\ Len(aof') \in Nat \ {0}
             /\ \A i \in 1 .. Len(aof') : aof'[i] = x \/ \E j \in 1 .. Len(aof) : aof'[i] = aof[j]
  <2> DEFINE T == S \cup {x}
  <2>1. Len(aof) \in Nat \ {0} /\ Front(aof) = SubSeq(aof, 1, Len(aof) - 1)
    BY <1>1, <1>4 DEF Front
  <2>2. aof \in Seq(T) /\ x \in T
    BY <1>1
  <2> HIDE DEF T
  <2>3. Len(aof) - 1 \in 0 .. Len(aof)
    BY <2>1
  <2>4. /\ SubSeq(aof, 1, Len(aof) - 1) \in Seq(T)
        /\ Len(SubSeq(aof, 1, Len(aof) - 1)) = Len(aof) - 1
        /\ \A i \in 1 .. Len(aof) - 1 : SubSeq(aof, 1, Len(aof) - 1)[i] = aof[i]
    BY <2>2, <2>3, Prefix, Zenon
  <2>5. /\ aof' \in Seq(T) /\ Len(aof') = Len(aof) /\ aof'[Len(aof)] = x
        /\ \A i \in 1 .. Len(aof) - 1 : aof'[i] = aof[i]
    BY <1>4, <2>1, <2>2, <2>4
  <2>6. IsSequence(aof')
    BY <2>5 DEF IsSequence
  <2>7. \A i \in 1 .. Len(aof') : i = Len(aof) \/ i \in 1 .. Len(aof) - 1
    BY <2>1, <2>5
  <2> QED
    BY <2>1, <2>5, <2>6, <2>7
<1>5. ASSUME aof # <<>> PROVE Len(aof) \in 1 .. Len(aof) /\ Last(aof) = aof[Len(aof)]
  BY <1>1, <1>5 DEF Last
<1> DEFINE last == Last(aof)
<1>6. ASSUME aof # <<>>, last.tab, NEW t,
             aof' = Append(Front(aof), Line(last.prefix, TRUE, t, line.whole))
      PROVE  /\ LinesOK' /\ Len(aof') \in Nat \ {0}
             /\ \A h \in Heads(aof') : h \in Heads(aof)
  <2> DEFINE x == Line(last.prefix, TRUE, t, line.whole)
  <2>1. x.prefix = last.prefix /\ (Numbered(x) => Numbered(last))
    BY <1>6 DEF Line, Numbered
  <2> HIDE DEF x
  <2>2. aof' = Append(Front(aof), x)
    BY <1>6 DEF x
  <2>3. last.prefix.number \in Int /\ (Numbered(last) => last.prefix \in Heads(aof))
    BY <1>5, <1>6 DEF LinesOK, Heads
  <2>4. /\ IsSequence(aof') /\ Len(aof') \in Nat \ {0}
        /\ \A i \in 1 .. Len(aof') : aof'[i] = x \/ \E j \in 1 .. Len(aof) : aof'[i] = aof[j]
    BY <1>4, <1>6, <2>2
  <2>5. x.prefix.number \in Int
    BY <2>1, <2>3
  <2>6. LinesOK' /\ \A h \in Heads(aof') : h \in Heads(aof) \/ (Numbered(x) /\ h = x.prefix)
    BY <2>4, <2>5, LinesChanged
  <2> QED
    BY <2>1, <2>3, <2>4, <2>6
<1>7. ASSUME aof # <<>>,
             aof' = Append(Front(aof), Line(Glued(last.prefix, line.prefix), line.tab, line.text, line.whole))
      PROVE  /\ LinesOK' /\ Len(aof') \in Nat \ {0}
             /\ \A h \in Heads(aof') : h \in Heads(aof)
  <2> DEFINE x == Line(Glued(last.prefix, line.prefix), line.tab, line.text, line.whole)
  <2>1. x.prefix = Glued(last.prefix, line.prefix)
    BY DEF Line
  <2>2. x.prefix.number = Digits(last.prefix.number, line.prefix.number) /\ x.prefix.glued
    BY <2>1 DEF Glued, Number
  <2> HIDE DEF x
  <2>3. aof' = Append(Front(aof), x)
    BY <1>7 DEF x
  <2>4. last.prefix.number \in Int
    BY <1>5, <1>7 DEF LinesOK
  <2>5. x.prefix.number \in Int /\ ~Numbered(x)
    BY <2>2, <2>4, DigitsNumber DEF Numbered
  <2>6. /\ IsSequence(aof') /\ Len(aof') \in Nat \ {0}
        /\ \A i \in 1 .. Len(aof') : aof'[i] = x \/ \E j \in 1 .. Len(aof) : aof'[i] = aof[j]
    BY <1>4, <1>7, <2>3
  <2> QED
    BY <2>5, <2>6, LinesChanged
<1> QED
  BY <1>3, <1>6, <1>7, Zenon DEF Written

\* A new record is numbered above every line and every snapshot.
LEMMA AppendNumbers == ASSUME SepInv, AppendRecord PROVE SepInv'
<1> DEFINE line == Record(sequence_ + 1, Head(cur.todo), stamp + 1)
           new == line.prefix
<1>1. /\ status = "up" /\ enabled_ /\ LinesOK /\ SnapshotsOK /\ HeadsOK
      /\ sequence_ \in Nat /\ synced \in Nat /\ stamp \in Nat
      /\ snapshot.sequence <= sequence_ /\ \A h \in Heads(aof) : h.number <= sequence_
  BY DEF AppendRecord, SepInv
<1>2. /\ status' = status /\ enabled_' = enabled_ /\ sequence_' = sequence_ + 1
      /\ snapshot' = snapshot /\ older' = older /\ stamp' = stamp + 1
      /\ synced' = IF aof' = aof THEN synced ELSE Min({synced, Len(aof') - 1})
  BY DEF AppendRecord
<1>3. new.number = sequence_ + 1 /\ new.record = stamp + 1
  BY DEF Record, Line, Number
<1>4. aof' = aof \/ aof' = Written(aof, line) \/ \E torn \in Torn(line) : aof' = Written(aof, torn)
  BY Zenon DEF AppendRecord
<1> HIDE DEF line
<1>5. ASSUME NEW l, l.prefix.number \in Int, Numbered(l) => l.prefix = new,
             aof' = Written(aof, l)
      PROVE  /\ LinesOK' /\ Len(aof') \in Nat \ {0}
             /\ \A h \in Heads(aof') : h \in Heads(aof) \/ h = new
  BY <1>1, <1>5, WrittenHeads
<1>6. /\ LinesOK' /\ (aof' = aof \/ Len(aof') \in Nat \ {0})
      /\ \A h \in Heads(aof') : h \in Heads(aof) \/ h = new
  <2>1. CASE aof' = aof
    BY <1>1, <2>1 DEF LinesOK, Heads, Numbered
  <2>2. CASE aof' = Written(aof, line)
    BY <1>1, <1>3, <1>5, <2>2
  <2>3. ASSUME NEW torn \in Torn(line), aof' = Written(aof, torn)
        PROVE  /\ LinesOK' /\ Len(aof') \in Nat \ {0}
               /\ \A h \in Heads(aof') : h \in Heads(aof) \/ h = new
    <3>1. line.prefix.number \in Int
      BY <1>1, <1>3
    <3>2. torn.prefix.number \in Int /\ (Numbered(torn) => torn.prefix = new)
      BY <3>1, TornHead
    <3> QED
      BY <1>5, <2>3, <3>2
  <2> QED
    BY <1>4, <2>1, <2>2, <2>3
<1> HIDE DEF new
<1>7. snapshot \in Snapshots /\ Snapshots' = Snapshots
  BY <1>2 DEF Snapshots
<1>8. SnapshotsOK'
  BY <1>1, <1>2, <1>7 DEF SnapshotsOK
<1>9. \A s \in Snapshots : s.sequence \in Nat /\ s.sequence <= sequence_
                          /\ s.covers \in Nat /\ s.covers <= stamp
  BY <1>1, <1>7 DEF SnapshotsOK
<1>10. \A h \in Heads(aof)' : /\ h.number \in Nat /\ h.record \in Nat
                             /\ h.record <= stamp + 1 /\ h.number <= sequence_ + 1
  BY <1>1, <1>3, <1>6 DEF HeadsOK
<1>11. ASSUME NEW s \in Snapshots, NEW h \in Heads(aof)'
       PROVE  h.record > s.covers <=> h.number > s.sequence
  <2>1. CASE h \in Heads(aof)
    BY <1>1, <2>1 DEF HeadsOK
  <2>2. CASE h = new
    BY <1>1, <1>3, <1>9, <2>2
  <2> QED
    BY <1>6, <2>1, <2>2
<1>12. HeadsOK'
  BY <1>2, <1>7, <1>10, <1>11 DEF HeadsOK
<1>13. synced' \in Nat
  <2>1. CASE aof' = aof
    BY <1>1, <1>2, <2>1
  <2>2. CASE aof' # aof
    <3>1. Len(aof') - 1 \in Nat
      BY <1>6, <2>2
    <3> QED
      BY <1>1, <1>2, <2>2, <3>1, MinOfTwo
  <2> QED
    BY <2>1, <2>2
<1>14. snapshot.sequence \in Nat
  BY <1>7, <1>9
<1>15. snapshot'.sequence <= sequence_' /\ \A h \in Heads(aof)' : h.number <= sequence_'
  BY <1>1, <1>2, <1>10, <1>14
<1>16. status' = "up" /\ enabled_' /\ sequence_' \in Nat /\ stamp' \in Nat
  BY <1>1, <1>2
<1> QED
  BY <1>6, <1>8, <1>12, <1>13, <1>15, <1>16, Zenon DEF SepInv

\* What Max is used for: numbers with a bound, one of them natural, have a
\* largest.
LEMMA MaxFound ==
    ASSUME NEW S \in SUBSET Int, NEW a \in S, a \in Nat,
           NEW b \in Nat, \A x \in S : x <= b
    PROVE  Max(S) \in S /\ \A x \in S : x <= Max(S)
<1> DEFINE U == {u \in Nat : \A x \in S : x <= u}
           R == OpToRel(<, Nat)
<1>1. U \subseteq Nat /\ U # {}
  OBVIOUS
<1>2. \E u \in U : \A v \in U : ~(<<v, u>> \in R)
  <2> HIDE DEF U, R
  <2>1. IsWellFoundedOn(R, Nat)
    BY NatLessThanWellFounded DEF R
  <2> QED
    BY <1>1, <2>1, WFMin, Zenon
<1>3. PICK u \in U : \A v \in U : ~(v < u)
  BY <1>2 DEF OpToRel
<1>4. u \in S
  <2> SUFFICES ASSUME u \notin S PROVE FALSE
    OBVIOUS
  <2>1. \A x \in S : x < u
    BY <1>3
  <2>2. u - 1 \in Nat
    BY <2>1
  <2>3. u - 1 \in U
    BY <2>1, <2>2
  <2> QED
    BY <1>3, <2>3
<1>5. \E y \in S : \A x \in S : y >= x
  BY <1>3, <1>4
<1>6. Max(S) \in S /\ \A x \in S : Max(S) >= x
  BY <1>5 DEF Max
<1> QED
  BY <1>6

\* recover goes on numbering above the snapshot and the lines it has read.
LEMMA StartNumbers == ASSUME SepInv, NEW on \in AofModes, Start(on) PROVE SepInv'
<1>1. /\ UNCHANGED <<aof, synced, snapshot, older, cur, stamp>> /\ cur = Quiet /\ enabled_' = on
      /\ LinesOK /\ SnapshotsOK /\ HeadsOK
      /\ sequence_ \in Nat /\ synced \in Nat /\ stamp \in Nat
  BY DEF Start, SepInv
<1>2. snapshot.sequence \in Nat
  BY <1>1 DEF SnapshotsOK, Snapshots
<1>3. Snapshots' = Snapshots /\ Heads(aof)' = Heads(aof)
  BY <1>1 DEF Snapshots, Heads, Numbered
<1>4. LinesOK' /\ SnapshotsOK' /\ HeadsOK'
  BY <1>1, <1>3 DEF LinesOK, SnapshotsOK, HeadsOK
<1>5. CASE status' = "refused" /\ sequence_' = sequence_
  BY <1>1, <1>4, <1>5 DEF SepInv
<1>6. CASE status' = "up" /\ sequence_' = MaxSequence(snapshot, IF on THEN aof ELSE <<>>)
  <2> DEFINE lines == IF on THEN aof ELSE <<>>
             S == {snapshot.sequence} \cup {Sequence(lines[i], i) : i \in DOMAIN lines}
  <2>1. sequence_' = Max(S)
    BY <1>6 DEF MaxSequence
  <2>2. PICK b \in Nat : \A i \in 1 .. Len(aof) :
          aof[i].prefix.number \in Int /\ aof[i].prefix.number <= b
    BY <1>1 DEF LinesOK
  <2>3. DOMAIN aof = 1 .. Len(aof) /\ Len(aof) \in Nat
    BY <1>1 DEF LinesOK, IsSequence
  <2>4. \A i \in DOMAIN lines : i \in 1 .. Len(aof) /\ lines[i] = aof[i]
    BY <2>3
  <2>5. \A i \in 1 .. Len(aof) : /\ Sequence(aof[i], i) \in Int
                                /\ Sequence(aof[i], i) <= b + Len(aof)
    BY <2>2, <2>3 DEF Sequence
  <2> HIDE DEF lines
  <2>6. /\ S \in SUBSET Int /\ snapshot.sequence \in S
        /\ \A x \in S : x <= snapshot.sequence + b + Len(aof)
    BY <1>2, <2>2, <2>3, <2>4, <2>5
  <2>7. \A i \in DOMAIN lines : Sequence(lines[i], i) \in S
    OBVIOUS
  <2> HIDE DEF S
  <2>8. snapshot.sequence + b + Len(aof) \in Nat
    BY <1>2, <2>2, <2>3
  <2>9. Max(S) \in S /\ \A x \in S : x <= Max(S)
    BY <1>2, <2>6, <2>8, MaxFound
  <2>10. sequence_' \in Nat /\ snapshot.sequence <= sequence_'
    <3>1. sequence_' \in S /\ \A x \in S : x <= sequence_'
      BY <2>1, <2>9, Zenon
    <3> QED
      BY <1>2, <2>6, <3>1
  <2>11. ASSUME on, NEW h \in Heads(aof) PROVE h.number <= sequence_'
    <3>1. PICK i \in 1 .. Len(aof) : Numbered(aof[i]) /\ h = aof[i].prefix
      BY DEF Heads
    <3>2. Sequence(aof[i], i) = h.number
      BY <3>1 DEF Sequence, Numbered
    <3>3. Sequence(aof[i], i) \in S
      BY <2>3, <2>7, <2>11, <3>1 DEF lines
    <3> QED
      BY <2>1, <2>9, <3>2, <3>3
  <2>12. ASSUME ~on PROVE sequence_' = snapshot.sequence
    <3>1. S = {snapshot.sequence}
      BY <2>12 DEF S, lines
    <3> QED
      BY <2>1, <2>9, <3>1
  <2> QED
    BY <1>1, <1>3, <1>4, <1>6, <2>10, <2>11, <2>12 DEF SepInv
<1> QED
  BY <1>5, <1>6 DEF Start

\* SAVE numbers its snapshot with the last record; with AOF off nothing has
\* been numbered since the snapshot before it.
LEMMA SaveNumbers == ASSUME SepInv, NEW c, Save(c) PROVE SepInv'
<1>1. /\ UNCHANGED <<status, enabled_, aof, synced, sequence_, cur, stamp>> /\ status = "up"
      /\ older' = Snapshots
      /\ LinesOK /\ SnapshotsOK /\ HeadsOK
      /\ sequence_ \in Nat /\ stamp \in Nat /\ snapshot.sequence <= sequence_
      /\ enabled_ => \A h \in Heads(aof) : h.number <= sequence_
      /\ ~enabled_ => sequence_ = snapshot.sequence
  BY Zenon DEF Save, Request, SepInv, Snapshots
<1>2. /\ snapshot'.sequence = sequence_
      /\ snapshot'.covers = IF enabled_ THEN stamp ELSE snapshot.covers
  BY DEF Save
<1>3. Snapshots' = Snapshots \cup {snapshot'} /\ Heads(aof)' = Heads(aof)
  BY <1>1 DEF Snapshots, Heads, Numbered
<1>4. \A s \in Snapshots : s.sequence \in Nat /\ s.sequence <= sequence_
                          /\ s.covers \in Nat /\ s.covers <= stamp
  <2>1. snapshot \in Snapshots
    BY DEF Snapshots
  <2> QED
    BY <1>1, <2>1 DEF SnapshotsOK
<1>5. SnapshotsOK'
  <2>1. snapshot \in Snapshots
    BY DEF Snapshots
  <2>2. snapshot'.covers \in Nat /\ snapshot'.covers <= stamp
    BY <1>1, <1>2, <1>4, <2>1
  <2> QED
    BY <1>1, <1>2, <1>3, <1>4, <2>2 DEF SnapshotsOK
<1>6. ASSUME NEW s \in Snapshots', NEW h \in Heads(aof)
      PROVE  h.record > s.covers <=> h.number > s.sequence
  <2>1. CASE s \in Snapshots
    BY <1>1, <2>1 DEF HeadsOK
  <2>2. CASE s = snapshot' /\ enabled_
    BY <1>1, <1>2, <2>2 DEF HeadsOK
  <2>3. CASE s = snapshot' /\ ~enabled_
    <3>1. snapshot \in Snapshots /\ s.sequence = snapshot.sequence /\ s.covers = snapshot.covers
      BY <1>1, <1>2, <2>3 DEF Snapshots
    <3> QED
      BY <1>1, <3>1 DEF HeadsOK
  <2> QED
    BY <1>3, <2>1, <2>2, <2>3
<1>7. HeadsOK'
  BY <1>1, <1>3, <1>6 DEF HeadsOK
<1>8. LinesOK'
  BY <1>1 DEF LinesOK
<1> QED
  BY <1>1, <1>2, <1>3, <1>5, <1>7, <1>8 DEF SepInv

\* A crash leaves the first lines, possibly one cut, and one snapshot.
LEMMA CrashNumbers == ASSUME SepInv, Crash PROVE SepInv'
<1>1. /\ status' = "down" /\ cur' = Quiet /\ older' = {} /\ UNCHANGED <<sequence_, synced, stamp>>
      /\ LinesOK /\ SnapshotsOK /\ HeadsOK
      /\ sequence_ \in Nat /\ synced \in Nat /\ stamp \in Nat
  BY DEF Crash, SepInv
<1>2. PICK S : aof \in Seq(S)
  BY <1>1 DEF LinesOK, IsSequence
<1>3. PICK n \in synced .. Len(aof) :
         \/ aof' = SubSeq(aof, 1, n)
         \/ n < Len(aof) /\ \E torn \in Torn(aof[n + 1]) : aof' = Append(SubSeq(aof, 1, n), torn)
  BY DEF Crash
<1>4. Len(aof) \in Nat /\ n \in 0 .. Len(aof)
  BY <1>1, <1>2
<1> DEFINE kept == SubSeq(aof, 1, n)
<1>5. kept \in Seq(S) /\ Len(kept) = n /\ \A i \in 1 .. n : kept[i] = aof[i]
  BY <1>2, <1>4, Prefix, Zenon
<1> HIDE DEF kept
<1>6. LinesOK' /\ \A h \in Heads(aof') : h \in Heads(aof)
  <2>1. CASE aof' = kept
    <3> DEFINE none == Line(Number(0, 0, TRUE), FALSE, <<>>, FALSE)
    <3>1. none.prefix.number \in Int /\ ~Numbered(none)
      BY DEF Line, Number, Numbered
    <3> HIDE DEF none
    <3>2. IsSequence(aof') /\ \A i \in 1 .. Len(aof') : \E j \in 1 .. Len(aof) : aof'[i] = aof[j]
      BY <1>4, <1>5, <2>1 DEF IsSequence
    <3> QED
      BY <1>1, <3>1, <3>2, LinesChanged
  <2>2. ASSUME n < Len(aof), NEW torn \in Torn(aof[n + 1]), aof' = Append(kept, torn)
        PROVE  LinesOK' /\ \A h \in Heads(aof') : h \in Heads(aof)
    <3>1. n + 1 \in 1 .. Len(aof)
      BY <1>4, <2>2
    <3>2. aof[n + 1].prefix.number \in Int
      BY <1>1, <3>1 DEF LinesOK
    <3>3. /\ torn.prefix.number \in Int
          /\ Numbered(torn) => torn.prefix \in Heads(aof)
      BY <3>1, <3>2, TornHead DEF Heads
    <3>4. kept \in Seq(S \cup {torn})
      BY <1>5
    <3>5. /\ aof' \in Seq(S \cup {torn}) /\ Len(aof') = n + 1 /\ aof'[n + 1] = torn
          /\ \A i \in 1 .. n : aof'[i] = kept[i]
      BY <1>4, <1>5, <2>2, <3>4
    <3>6. IsSequence(aof')
      BY <3>5 DEF IsSequence
    <3>7. \A i \in 1 .. Len(aof') : aof'[i] = torn \/ \E j \in 1 .. Len(aof) : aof'[i] = aof[j]
      <4> TAKE i \in 1 .. Len(aof')
      <4>1. i = n + 1 \/ i \in 1 .. n
        BY <1>4, <3>5
      <4>2. CASE i \in 1 .. n
        BY <1>4, <1>5, <3>5, <4>2
      <4> QED
        BY <3>5, <4>1, <4>2
    <3> QED
      BY <1>1, <3>3, <3>6, <3>7, LinesChanged
  <2> QED
    BY <1>3, <2>1, <2>2 DEF kept
<1>7. snapshot' \in Snapshots /\ Snapshots' = {snapshot'}
  BY <1>1 DEF Crash, Snapshots
<1>8. SnapshotsOK'
  BY <1>1, <1>7 DEF SnapshotsOK
<1>9. HeadsOK'
  BY <1>1, <1>6, <1>7 DEF HeadsOK
<1> QED
  BY <1>1, <1>6, <1>8, <1>9 DEF SepInv

\* Every step preserves SepInv.
LEMMA SepStep == ASSUME SepInv, [Next]_vars PROVE SepInv'
<1>1. CASE UNCHANGED vars
  BY <1>1, SepFrame DEF vars
<1>2. ASSUME NEW on \in AofModes, Start(on) PROVE SepInv'
  BY <1>2, StartNumbers
<1>3. ASSUME NEW c \in Commands, Save(c) PROVE SepInv'
  BY <1>3, SaveNumbers
<1>4. ASSUME NEW c \in Commands, Execute(c) \/ ExecuteUnlogged(c) \/ Read(c) PROVE SepInv'
  BY <1>4, SepFrame, Zenon DEF Execute, ExecuteUnlogged, Read, Request
<1>5. CASE AppendRecord
  BY <1>5, AppendNumbers
<1>6. CASE Crash
  BY <1>6, CrashNumbers
<1>7. CASE SyncRecord \/ Reply \/ Sweep \/ SyncLoop \/ Tick \/ Finished
  <2>1. cur.stage # "idle" => status = "up" /\ enabled_
    BY SMTT(30) DEF SepInv
  <2> QED
    BY <1>7, <2>1, SepFrame DEF SyncRecord, Reply, Sweep, SyncLoop, Tick, Finished, vars
<1>8. CASE Stop
  <2>1. /\ UNCHANGED <<aof, snapshot, older, sequence_, stamp, cur>> /\ cur = Quiet
        /\ status' = "down" /\ synced' \in {synced, Len(aof)}
    BY <1>8 DEF Stop
  <2>2. Len(aof) \in Nat
    BY DEF SepInv, LinesOK, IsSequence
  <2>3. Snapshots' = Snapshots /\ Heads(aof)' = Heads(aof)
    BY <2>1 DEF Snapshots, Heads, Numbered
  <2>4. LinesOK' /\ SnapshotsOK' /\ HeadsOK'
    BY <2>1, <2>3 DEF SepInv, LinesOK, SnapshotsOK, HeadsOK
  <2> QED
    BY <2>1, <2>2, <2>4 DEF SepInv
<1> QED
  BY <1>1, <1>2, <1>3, <1>4, <1>5, <1>6, <1>7, <1>8 DEF Next

\* A snapshot has a sequence number at or above those of the records written
\* before it and below those of the records written after it (append_line,
\* replay_after, save_snapshot), so a restart replays the lines that begin with
\* the one and skips those that begin with the other, wherever records are cut,
\* whichever continues a cut one and whatever a machine loses.  One saved with
\* AOF off stands where the one before it did.
THEOREM SnapshotsSeparate == Spec => []Separated
<1>1. Init => SepInv
  <2> SUFFICES ASSUME Init PROVE SepInv
    OBVIOUS
  <2>1. aof = <<>> /\ Snapshots = {NoSnapshot} /\ snapshot = NoSnapshot
    BY DEF Init, Snapshots
  <2>2. LinesOK /\ Heads(aof) = {}
    BY <2>1 DEF LinesOK, IsSequence, Heads
  <2>3. SnapshotsOK
    BY <2>1 DEF Init, SnapshotsOK, NoSnapshot
  <2> QED
    BY <2>2, <2>3 DEF Init, SepInv, HeadsOK
<1>2. SepInv /\ [Next]_vars => SepInv'
  BY SepStep
<1>3. SepInv => Separated
  <2> SUFFICES ASSUME SepInv, NEW s \in Snapshots, NEW i \in DOMAIN aof, Numbered(aof[i])
               PROVE  aof[i].prefix.record > s.covers <=> Sequence(aof[i], i) > s.sequence
    BY DEF Separated
  <2>1. i \in 1 .. Len(aof)
    BY DEF SepInv, LinesOK, IsSequence
  <2>2. aof[i].prefix \in Heads(aof)
    BY <2>1 DEF Heads
  <2>3. Sequence(aof[i], i) = aof[i].prefix.number
    BY DEF Sequence, Numbered
  <2> QED
    BY <2>2, <2>3 DEF SepInv, HeadsOK
<1> QED
  BY <1>1, <1>2, <1>3, PTL DEF Spec
=============================================================================
