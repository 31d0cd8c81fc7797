---------------------------- MODULE ServerProofs ----------------------------
(***************************************************************************)
(* Replies come in the order of the requests, for any number of            *)
(* connections, lines and workers.                                         *)
(*                                                                         *)
(* The order itself is not inductive: it rests on a reader waiting for the *)
(* one command it has given to the pool.  ReaderOK says what each place in *)
(* handle() implies, PoolOK that every task is the one its reader waits    *)
(* for and that no reader has two.                                         *)
(***************************************************************************)
EXTENDS Server, TLAPS

AnyTask == [conn : Conns, line : Nat]

AnyReader == [pc : {"none", "accepted", "read", "wait", "send", "close", "erase", "gone"},
              fd : Fds \cup {None}, sock : {"open", "shut", "hung", "closed"},
              sent : Nat, got : Nat, next : Nat, result : Nat, then : {"read", "close", "leave"},
              replies : Seq(Nat)]

ReaderOK(r) ==
    /\ r \in AnyReader
    /\ \A i \in 1 .. Len(r.replies) : r.replies[i] = i
    /\ r.pc \in {"none", "accepted", "read"} => r.result = 0 /\ r.next = Len(r.replies)
    /\ r.pc = "wait" => r.result \in {0, r.next} /\ r.next = Len(r.replies) + 1
    /\ r.pc = "send" => r.result = r.next /\ r.next = Len(r.replies) + 1

ReadersOK == DOMAIN conn = Conns /\ \A c \in Conns : ReaderOK(conn[c])

\* The reader of task t waits for it, in the connections cn.
Waits(cn, t) ==
    cn[t.conn].pc = "wait" /\ cn[t.conn].next = t.line /\ cn[t.conn].result = 0

PoolOK ==
    /\ tasks_ \in Seq(AnyTask) /\ executing \subseteq AnyTask
    /\ \A i \in 1 .. Len(tasks_) : Waits(conn, tasks_[i])
    /\ \A t \in executing : Waits(conn, t)
    /\ \A i, j \in 1 .. Len(tasks_) : tasks_[i].conn = tasks_[j].conn => i = j
    /\ \A i \in 1 .. Len(tasks_), t \in executing : tasks_[i].conn # t.conn

OrderInv == ReadersOK /\ PoolOK

\* What the invariant is about.
core == <<conn, tasks_, executing>>

USE DEF process, flags, registry, clients, pool, history, rest

\* A new connection's reader.
LEMMA NewReader ==
    ASSUME NEW f \in Fds
    PROVE  /\ ReaderOK(NoReader)
           /\ ReaderOK([NoReader EXCEPT !.pc = "accepted", !.sock = "open", !.fd = f])
<1> DEFINE r == [NoReader EXCEPT !.pc = "accepted", !.sock = "open", !.fd = f]
<1>1. <<>> \in Seq(Nat) /\ Len(<<>>) = 0
  OBVIOUS
<1>2. NoReader \in AnyReader
  BY <1>1 DEF NoReader, AnyReader
<1>3. ASSUME NEW n \in AnyReader
      PROVE  LET q == [n EXCEPT !.pc = "accepted", !.sock = "open", !.fd = f]
             IN  /\ q \in AnyReader
                 /\ q.pc = "accepted" /\ q.result = n.result /\ q.next = n.next
                 /\ q.replies = n.replies
  BY DEF AnyReader
<1>4. r \in AnyReader /\ r.pc = "accepted" /\ r.result = 0 /\ r.next = 0 /\ r.replies = <<>>
  BY <1>2, <1>3 DEF NoReader
<1>5. ReaderOK(NoReader)
  BY <1>1, <1>2 DEF ReaderOK, NoReader
<1>6. ReaderOK(r)
  BY <1>1, <1>4 DEF ReaderOK
<1> QED
  BY <1>5, <1>6

\* One reader changes, and is still in order.
LEMMA UpdateReader ==
    ASSUME ReadersOK, NEW c \in Conns, NEW r, ReaderOK(r), conn' = [conn EXCEPT ![c] = r]
    PROVE  ReadersOK' /\ conn'[c] = r /\ \A d \in Conns \ {c} : conn'[d] = conn[d]
  BY DEF ReadersOK

\* The pool does not notice a change of readers that do not wait.
LEMMA PoolFrame ==
    ASSUME PoolOK, UNCHANGED <<tasks_, executing>>,
           \A c \in Conns :
              \/ conn[c].pc # "wait" \/ conn[c].result # 0
              \/ conn'[c].pc = conn[c].pc /\ conn'[c].next = conn[c].next
                 /\ conn'[c].result = conn[c].result
    PROVE  PoolOK'
<1>1. \A t \in AnyTask : t.conn \in Conns
  BY DEF AnyTask
<1>2. \A i \in 1 .. Len(tasks_) : tasks_[i] \in AnyTask
  BY DEF PoolOK
<1>3. \A t \in AnyTask : Waits(conn, t) => Waits(conn', t)
  BY <1>1 DEF Waits
<1> QED
  BY <1>2, <1>3 DEF PoolOK

\* A reader that does not wait, or only its socket, changes.
LEMMA ReaderStep ==
    ASSUME OrderInv, NEW c \in Conns, NEW r, ReaderOK(r), conn' = [conn EXCEPT ![c] = r],
           UNCHANGED <<tasks_, executing>>,
           \/ conn[c].pc # "wait" \/ conn[c].result # 0
           \/ r.pc = conn[c].pc /\ r.next = conn[c].next /\ r.result = conn[c].result
    PROVE  OrderInv'
<1>1. ReadersOK' /\ conn'[c] = r /\ \A d \in Conns \ {c} : conn'[d] = conn[d]
  BY UpdateReader DEF OrderInv
<1>2. PoolOK'
  BY <1>1, PoolFrame DEF OrderInv
<1> QED
  BY <1>1, <1>2 DEF OrderInv

\* handle() returns.
LEMMA LeaveStep ==
    ASSUME OrderInv, NEW c \in Conns, Leave(c), conn[c].pc # "wait",
           UNCHANGED <<tasks_, executing>>
    PROVE  OrderInv'
<1> DEFINE r == [NoReader EXCEPT !.pc = "close", !.fd = conn[c].fd, !.sock = conn[c].sock,
                                 !.sent = conn[c].sent]
<1>1. conn[c] \in AnyReader
  BY DEF OrderInv, ReadersOK, ReaderOK
<1>2. NoReader \in AnyReader /\ NoReader.replies = <<>>
  BY DEF AnyReader, NoReader
<1>3. ASSUME NEW n \in AnyReader, NEW m \in AnyReader
      PROVE  LET q == [n EXCEPT !.pc = "close", !.fd = m.fd, !.sock = m.sock, !.sent = m.sent]
             IN  q \in AnyReader /\ q.pc = "close" /\ q.replies = n.replies
  BY DEF AnyReader
<1>4. r \in AnyReader /\ r.pc = "close" /\ r.replies = <<>>
  BY <1>1, <1>2, <1>3
<1>5. ReaderOK(r)
  BY <1>4 DEF ReaderOK
<1> QED
  BY <1>5, ReaderStep DEF Leave, Update

\* The client's steps and those of the reader that stay at its socket.
LEMMA SocketStep ==
    ASSUME OrderInv, NEW c \in Conns,
           ClientSends(c) \/ HangUp(c) \/ Recv(c) \/ CloseSocket(c) \/ EraseClient(c)
    PROVE  OrderInv'
<1> DEFINE r == conn[c]
<1>1. ReaderOK(r) /\ r \in AnyReader
  BY DEF OrderInv, ReadersOK, ReaderOK
<1>2. CASE ClientSends(c)
  <2>1. ReaderOK([r EXCEPT !.sent = @ + 1])
    <3>1. r.sent + 1 \in Nat
      BY <1>1 DEF AnyReader
    <3>2. [r EXCEPT !.sent = r.sent + 1] \in AnyReader
      BY <1>1, <3>1 DEF AnyReader
    <3> QED
      BY <1>1, <3>2 DEF ReaderOK, AnyReader
  <2>2. LET q == [r EXCEPT !.sent = @ + 1]
        IN  q.pc = r.pc /\ q.next = r.next /\ q.result = r.result
    BY <1>1 DEF AnyReader
  <2> QED
    BY <1>2, <2>1, <2>2, ReaderStep DEF ClientSends, Update
<1>3. CASE HangUp(c)
  <2>1. ReaderOK([r EXCEPT !.sock = "hung"])
    BY <1>1 DEF ReaderOK, AnyReader
  <2>2. LET q == [r EXCEPT !.sock = "hung"]
        IN  q.pc = r.pc /\ q.next = r.next /\ q.result = r.result
    BY <1>1 DEF AnyReader
  <2> QED
    BY <1>3, <2>1, <2>2, ReaderStep DEF HangUp, Update
<1>4. CASE Recv(c)
  <2>1. PICK n \in r.got + 1 .. r.sent : conn' = [conn EXCEPT ![c] = [r EXCEPT !.got = n]]
    BY <1>4 DEF Recv, Update
  <2>2. n \in Nat
    BY <1>1, <2>1 DEF AnyReader
  <2>3. ReaderOK([r EXCEPT !.got = n])
    BY <1>1, <2>2 DEF ReaderOK, AnyReader
  <2> QED
    BY <1>4, <2>1, <2>3, ReaderStep DEF Recv, Reading
<1>5. CASE CloseSocket(c)
  <2>1. ReaderOK([r EXCEPT !.pc = "erase", !.sock = "closed"])
    BY <1>1 DEF ReaderOK, AnyReader
  <2> QED
    BY <1>5, <2>1, ReaderStep DEF CloseSocket, Update
<1>6. CASE EraseClient(c)
  <2>1. ReaderOK([r EXCEPT !.pc = "gone", !.fd = None])
    BY <1>1 DEF ReaderOK, AnyReader
  <2> QED
    BY <1>6, <2>1, ReaderStep DEF EraseClient, Update
<1> QED
  BY <1>2, <1>3, <1>4, <1>5, <1>6

\* A line is answered without the pool, or its answer is there.
LEMMA AnswerStep ==
    ASSUME OrderInv, NEW c \in Conns, RejectLine(c) \/ Refuse(c) \/ Await(c) \/ Oversized(c)
    PROVE  OrderInv'
<1> DEFINE r == conn[c]
<1>1. ReaderOK(r) /\ r \in AnyReader
  BY DEF OrderInv, ReadersOK, ReaderOK
<1>2. CASE RejectLine(c)
  <2>1. r.pc = "read" /\ Line(c) = Len(r.replies) + 1 /\ Line(c) \in Nat
    BY <1>1, <1>2 DEF RejectLine, AtLine, Line, ReaderOK, AnyReader
  <2>2. ReaderOK([r EXCEPT !.next = Line(c), !.result = Line(c), !.pc = "send"])
    BY <1>1, <2>1 DEF ReaderOK, AnyReader
  <2> QED
    BY <1>2, <2>1, <2>2, ReaderStep DEF RejectLine, Update
<1>3. CASE Refuse(c)
  <2>1. r.pc = "read" /\ Line(c) = Len(r.replies) + 1 /\ Line(c) \in Nat
    BY <1>1, <1>3 DEF Refuse, AtLine, Line, ReaderOK, AnyReader
  <2>2. ReaderOK([r EXCEPT !.next = Line(c), !.result = Line(c), !.pc = "send",
                           !.then = "close"])
    BY <1>1, <2>1 DEF ReaderOK, AnyReader
  <2> QED
    BY <1>3, <2>1, <2>2, ReaderStep DEF Refuse, Update
<1>4. CASE Await(c)
  <2>1. r.pc = "wait" /\ r.result # 0
    BY <1>4 DEF Await
  <2>2. ReaderOK([r EXCEPT !.pc = "send"])
    BY <1>1, <2>1 DEF ReaderOK, AnyReader
  <2> QED
    BY <1>4, <2>1, <2>2, ReaderStep DEF Await, Update
<1>5. CASE Oversized(c)
  <2>1. r.pc = "read" /\ Line(c) = Len(r.replies) + 1 /\ Line(c) \in Nat
    BY <1>1, <1>5 DEF Oversized, Reading, Line, ReaderOK, AnyReader
  <2>2. ReaderOK([r EXCEPT !.got = Line(c), !.next = Line(c), !.result = Line(c), !.pc = "send",
                           !.then = "leave"])
    BY <1>1, <2>1 DEF ReaderOK, AnyReader
  <2> QED
    BY <1>5, <2>1, <2>2, ReaderStep DEF Oversized, Update
<1> QED
  BY <1>2, <1>3, <1>4, <1>5

\* The reply is sent: it is the one to the next line.
LEMMA SendStep ==
    ASSUME OrderInv, NEW c \in Conns, Send(c)
    PROVE  OrderInv'
<1> DEFINE r == conn[c]
<1>1. ReaderOK(r) /\ r \in AnyReader /\ r.pc = "send"
  BY DEF OrderInv, ReadersOK, ReaderOK, Send
<1>2. CASE r.then # "read"
  BY <1>1, <1>2, LeaveStep DEF Send
<1>3. CASE r.then = "read"
  <2> DEFINE q == [r EXCEPT !.replies = Append(@, r.result), !.result = 0, !.pc = "read"]
  <2>1. r.replies \in Seq(Nat) /\ r.result \in Nat /\ r.result = Len(r.replies) + 1
    BY <1>1 DEF ReaderOK, AnyReader
  <2>2. q \in AnyReader /\ q.pc = "read" /\ q.result = 0 /\ q.next = r.next
        /\ q.replies = Append(r.replies, r.result)
    <3>1. Append(r.replies, r.result) \in Seq(Nat)
      BY <2>1
    <3>2. ASSUME NEW replies \in Seq(Nat)
          PROVE  LET p == [r EXCEPT !.replies = replies, !.result = 0, !.pc = "read"]
                 IN  /\ p \in AnyReader /\ p.pc = "read" /\ p.result = 0 /\ p.next = r.next
                     /\ p.replies = replies
      BY <1>1 DEF AnyReader
    <3>3. q = [r EXCEPT !.replies = Append(r.replies, r.result), !.result = 0, !.pc = "read"]
      OBVIOUS
    <3> QED
      BY <3>1, <3>2, <3>3
  <2>3. \A i \in 1 .. Len(q.replies) : q.replies[i] = i
    BY <1>1, <2>1, <2>2 DEF ReaderOK
  <2>4. q.next = Len(q.replies)
    BY <1>1, <2>1, <2>2 DEF ReaderOK
  <2>5. ReaderOK(q)
    BY <2>2, <2>3, <2>4 DEF ReaderOK
  <2> QED
    BY <1>1, <1>3, <2>5, ReaderStep DEF Send, Update
<1> QED
  BY <1>2, <1>3

\* The pool gets a task from a reader that has none there.
LEMMA SubmitStep ==
    ASSUME OrderInv, NEW c \in Conns, Submit(c)
    PROVE  OrderInv'
<1> DEFINE r == conn[c]
           q == [r EXCEPT !.next = Line(c), !.pc = "wait"]
           new == [conn |-> c, line |-> Line(c)]
<1>1. ReaderOK(r) /\ r \in AnyReader /\ r.pc = "read"
  BY DEF OrderInv, ReadersOK, ReaderOK, Submit, AtLine
<1>2. r.result = 0 /\ Line(c) = Len(r.replies) + 1 /\ Line(c) \in Nat
  BY <1>1 DEF Line, ReaderOK, AnyReader
<1>3. ReaderOK(q) /\ q.pc = "wait" /\ q.next = Line(c) /\ q.result = 0
  BY <1>1, <1>2 DEF ReaderOK, AnyReader
<1>4. ReadersOK' /\ conn'[c] = q /\ \A d \in Conns \ {c} : conn'[d] = conn[d]
  BY <1>3, UpdateReader DEF OrderInv, Submit, Update
<1>5. new \in AnyTask /\ new.conn = c /\ Waits(conn', new)
  BY <1>2, <1>3, <1>4 DEF AnyTask, Waits
<1>6. \A t \in AnyTask : t.conn \in Conns
  BY DEF AnyTask
<1>7. \A t \in AnyTask : Waits(conn, t) => t.conn # c /\ Waits(conn', t)
  BY <1>1, <1>4, <1>6 DEF Waits
<1>8. tasks_' = Append(tasks_, new) /\ executing' = executing
  BY DEF Submit
<1>9. tasks_ \in Seq(AnyTask) /\ \A i \in 1 .. Len(tasks_) : tasks_[i] \in AnyTask /\ Waits(conn, tasks_[i])
  BY DEF OrderInv, PoolOK
<1>10. /\ tasks_' \in Seq(AnyTask) /\ Len(tasks_') = Len(tasks_) + 1
       /\ \A i \in 1 .. Len(tasks_) : tasks_'[i] = tasks_[i]
       /\ tasks_'[Len(tasks_) + 1] = new
  BY <1>5, <1>8, <1>9
<1>11. \A i \in 1 .. Len(tasks_') : Waits(conn', tasks_'[i])
  <2> SUFFICES ASSUME NEW i \in 1 .. Len(tasks_') PROVE Waits(conn', tasks_'[i])
    OBVIOUS
  <2>1. CASE i = Len(tasks_) + 1
    BY <1>5, <1>10, <2>1 DEF Waits
  <2>2. CASE i # Len(tasks_) + 1
    <3>1. i \in 1 .. Len(tasks_)
      BY <1>9, <1>10, <2>2
    <3> QED
      BY <1>7, <1>9, <1>10, <3>1 DEF Waits
  <2> QED
    BY <2>1, <2>2
<1>12. PoolOK'
  <2>1. \A t \in executing : t \in AnyTask /\ Waits(conn, t)
    BY DEF OrderInv, PoolOK
  <2>2. \A i, j \in 1 .. Len(tasks_') : tasks_'[i].conn = tasks_'[j].conn => i = j
    BY <1>5, <1>7, <1>9, <1>10 DEF OrderInv, PoolOK
  <2>3. \A i \in 1 .. Len(tasks_'), t \in executing' : tasks_'[i].conn # t.conn
    BY <1>5, <1>7, <1>8, <1>9, <1>10, <2>1 DEF OrderInv, PoolOK
  <2> QED
    BY <1>7, <1>8, <1>10, <1>11, <2>1, <2>2, <2>3 DEF PoolOK
<1> QED
  BY <1>4, <1>12 DEF OrderInv

\* A worker takes the first task.
LEMMA TakeStep ==
    ASSUME OrderInv, TakeTask
    PROVE  OrderInv'
<1>1. tasks_ \in Seq(AnyTask) /\ tasks_ # <<>> /\ conn' = conn
  BY DEF OrderInv, PoolOK, TakeTask
<1>2. executing' = executing \cup {tasks_[1]} /\ tasks_' = Tail(tasks_) /\ 1 \in 1 .. Len(tasks_)
  BY <1>1 DEF TakeTask
<1>3. /\ tasks_' \in Seq(AnyTask) /\ Len(tasks_') = Len(tasks_) - 1
      /\ \A i \in 1 .. Len(tasks_') : i + 1 \in 1 .. Len(tasks_) /\ tasks_'[i] = tasks_[i + 1]
  BY <1>1, <1>2
<1>4. \A t : Waits(conn', t) <=> Waits(conn, t)
  BY <1>1 DEF Waits
<1>5. \A i \in 1 .. Len(tasks_') : Waits(conn', tasks_'[i])
  BY <1>3, <1>4 DEF OrderInv, PoolOK
<1>6. executing' \subseteq AnyTask /\ \A t \in executing' : Waits(conn', t)
  BY <1>1, <1>2, <1>4 DEF OrderInv, PoolOK
<1>7. \A i, j \in 1 .. Len(tasks_') : tasks_'[i].conn = tasks_'[j].conn => i = j
  BY <1>3 DEF OrderInv, PoolOK
<1>8. \A i \in 1 .. Len(tasks_'), t \in executing' : tasks_'[i].conn # t.conn
  BY <1>2, <1>3 DEF OrderInv, PoolOK
<1>9. PoolOK'
  BY <1>3, <1>5, <1>6, <1>7, <1>8 DEF PoolOK
<1> QED
  BY <1>1, <1>9 DEF OrderInv, ReadersOK

\* A task is done: its reader has its result and no other task.
LEMMA FinishStep ==
    ASSUME OrderInv, NEW t \in executing, FinishTask(t)
    PROVE  OrderInv'
<1> DEFINE r == conn[t.conn]
           q == [r EXCEPT !.result = t.line]
<1>1. t \in AnyTask /\ t.conn \in Conns /\ t.line \in Nat /\ Waits(conn, t)
  BY DEF OrderInv, PoolOK, AnyTask
<1>2. ReaderOK(r) /\ r \in AnyReader /\ r.pc = "wait" /\ r.next = t.line
  BY <1>1 DEF OrderInv, ReadersOK, ReaderOK, Waits
<1>3. ReaderOK(q)
  BY <1>1, <1>2 DEF ReaderOK, AnyReader
<1>4. conn' = [conn EXCEPT ![t.conn] = q] /\ executing' = executing \ {t} /\ tasks_' = tasks_
  BY DEF FinishTask
<1>5. ReadersOK' /\ \A d \in Conns \ {t.conn} : conn'[d] = conn[d]
  BY <1>1, <1>3, <1>4, UpdateReader DEF OrderInv
<1>6. \A u \in AnyTask : u.conn # t.conn /\ Waits(conn, u) => Waits(conn', u)
  BY <1>5 DEF Waits, AnyTask
<1>7. \A u \in executing' : u \in AnyTask /\ Waits(conn, u) /\ u.conn # t.conn
  <2> SUFFICES ASSUME NEW u \in executing' PROVE u \in AnyTask /\ Waits(conn, u) /\ u.conn # t.conn
    OBVIOUS
  <2>1. u \in AnyTask /\ Waits(conn, u) /\ u # t
    BY <1>4 DEF OrderInv, PoolOK
  <2>2. u.conn = t.conn => u = t
    BY <1>1, <2>1 DEF Waits, AnyTask
  <2> QED
    BY <2>1, <2>2
<1>8. \A i \in 1 .. Len(tasks_) : tasks_[i] \in AnyTask /\ Waits(conn, tasks_[i]) /\ tasks_[i].conn # t.conn
  BY DEF OrderInv, PoolOK
<1>9. PoolOK'
  <2>1. \A i \in 1 .. Len(tasks_') : Waits(conn', tasks_'[i])
    BY <1>4, <1>6, <1>8 DEF Waits
  <2>2. \A u \in executing' : Waits(conn', u)
    BY <1>6, <1>7
  <2> QED
    BY <1>4, <2>1, <2>2 DEF OrderInv, PoolOK
<1> QED
  BY <1>5, <1>9 DEF OrderInv

\* The acceptor and stop() change readers that do not wait, or sockets.
LEMMA ServerStep ==
    ASSUME OrderInv, Accept \/ (\E c \in Conns : Register(c)) \/ \E p \in Callers : ShutdownClients(p)
    PROVE  OrderInv'
<1>1. CASE Accept
  <2>1. PICK c \in Conns \ Accepted, f \in FreeFds :
           conn' = [conn EXCEPT ![c] = [NoReader EXCEPT !.pc = "accepted", !.sock = "open", !.fd = f]]
    BY <1>1 DEF Accept
  <2>2. c \in Conns /\ f \in Fds /\ conn[c].pc = "none"
    BY <2>1 DEF Accepted, FreeFds
  <2> QED
    BY <1>1, <2>1, <2>2, NewReader, ReaderStep DEF Accept
<1>2. CASE \E c \in Conns : Register(c)
  <2>1. PICK c \in Conns : Register(c)
    BY <1>2
  <2>2. ReaderOK(conn[c]) /\ conn[c] \in AnyReader /\ conn[c].pc = "accepted"
    BY <2>1 DEF OrderInv, ReadersOK, ReaderOK, Register
  <2>3. ReaderOK([conn[c] EXCEPT !.pc = "read"])
    BY <2>2 DEF ReaderOK, AnyReader
  <2>4. ReaderOK([conn[c] EXCEPT !.pc = "gone", !.fd = None, !.sock = "closed"])
    BY <2>2 DEF ReaderOK, AnyReader
  <2>5. \/ conn' = [conn EXCEPT ![c] = [conn[c] EXCEPT !.pc = "read"]]
        \/ conn' = [conn EXCEPT ![c] = [conn[c] EXCEPT !.pc = "gone", !.fd = None, !.sock = "closed"]]
    BY <2>1 DEF Register, Enter
  <2>6. UNCHANGED <<tasks_, executing>>
    BY <2>1 DEF Register
  <2> QED
    BY <2>2, <2>3, <2>4, <2>5, <2>6, ReaderStep
<1>3. CASE \E p \in Callers : ShutdownClients(p)
  <2>1. /\ DOMAIN conn' = Conns /\ UNCHANGED <<tasks_, executing>>
        /\ \A c \in Conns : conn'[c] \in {conn[c], [conn[c] EXCEPT !.sock = "shut"]}
    BY <1>3 DEF ShutdownClients
  <2>2. \A c \in Conns :
           /\ ReaderOK(conn'[c])
           /\ conn'[c].pc = conn[c].pc /\ conn'[c].next = conn[c].next
           /\ conn'[c].result = conn[c].result
    <3> TAKE c \in Conns
    <3> DEFINE r == conn[c]
               q == [r EXCEPT !.sock = "shut"]
    <3>1. ReaderOK(r) /\ r \in AnyReader
      BY DEF OrderInv, ReadersOK, ReaderOK
    <3>2. ReaderOK(q) /\ q.pc = r.pc /\ q.next = r.next /\ q.result = r.result
      BY <3>1 DEF ReaderOK, AnyReader
    <3>3. conn'[c] = r \/ conn'[c] = q
      BY <2>1
    <3> QED
      BY <3>1, <3>2, <3>3
  <2>3. ReadersOK'
    BY <2>1, <2>2 DEF ReadersOK, ReaderOK
  <2>4. PoolOK'
    BY <2>1, <2>2, PoolFrame DEF OrderInv
  <2> QED
    BY <2>3, <2>4 DEF OrderInv
<1> QED
  BY <1>1, <1>2, <1>3

\* Every other step leaves readers and pool alone.
LEMMA OtherSteps ==
    ASSUME \/ Recover \/ Open \/ SetupSocket \/ Serve \/ StartTtl \/ SpawnTtl \/ Loop \/ AcceptFails
           \/ Wake \/ JoinSignal \/ Destroy \/ Signal \/ SigWait \/ TtlEnds \/ LeavePool
           \/ \E p \in Callers :
                \/ LockStop(p) \/ CloseListener(p) \/ StopTtl(p) \/ JoinTtl(p) \/ SwapThreads(p)
                \/ JoinConnections(p) \/ StopPool(p) \/ JoinWorkers(p) \/ CloseAof(p)
    PROVE  UNCHANGED core
  BY DEF core, Recover, Open, SetupSocket, Serve, StartTtl, SpawnTtl, Loop, AcceptFails,
         Wake, JoinSignal, Destroy, Signal, SigWait, TtlEnds, LeavePool, LockStop, CloseListener,
         StopTtl, JoinTtl, SwapThreads, JoinConnections, StopPool, JoinWorkers, CloseAof

\* Every step preserves OrderInv.
LEMMA OrderStep ==
    ASSUME OrderInv, [Next]_vars
    PROVE  OrderInv'
<1>1. ASSUME UNCHANGED core PROVE OrderInv'
  BY <1>1 DEF core, OrderInv, ReadersOK, PoolOK, Waits
<1>2. CASE UNCHANGED vars
  BY <1>1, <1>2 DEF vars, core
<1>3. CASE Main
  BY <1>1, <1>3, OtherSteps, ServerStep DEF Main, Start, Stop, Callers
<1>4. CASE Accept \/ AcceptFails \/ Signal \/ TtlEnds
  BY <1>1, <1>4, OtherSteps, ServerStep
<1>5. CASE SignalThread
  BY <1>1, <1>5, OtherSteps, ServerStep DEF SignalThread, Stop, Callers
<1>6. ASSUME NEW c \in Conns, ClientSends(c) \/ HangUp(c) \/ Handle(c) \/ Send(c)
      PROVE  OrderInv'
  <2>1. CASE RecvEnds(c) \/ SendFails(c)
    BY <2>1, LeaveStep DEF RecvEnds, Reading, SendFails
  <2> QED
    BY <1>6, <2>1, SocketStep, AnswerStep, SubmitStep, SendStep DEF Handle
<1>7. CASE TakeTask \/ LeavePool \/ \E t \in executing : FinishTask(t)
  BY <1>1, <1>7, TakeStep, FinishStep, OtherSteps
<1> QED
  BY <1>2, <1>3, <1>4, <1>5, <1>6, <1>7 DEF Next

\* No connection and no task at the start.
LEMMA OrderInit ==
    ASSUME Init
    PROVE  OrderInv
<1>1. ReaderOK(NoReader)
  BY DEF ReaderOK, AnyReader, NoReader
<1>2. ReadersOK
  BY <1>1 DEF Init, ReadersOK
<1>3. PoolOK
  BY DEF Init, PoolOK
<1> QED
  BY <1>2, <1>3 DEF OrderInv

\* README.md:129: "Responses on one TCP connection preserve request order,
\* including pipelined requests", whatever the number of connections, lines
\* and workers, and however connections, signals and shutdown interleave.
THEOREM RepliesCorrect == Spec => []RepliesInOrder
<1>1. Init => OrderInv
  BY OrderInit
<1>2. OrderInv /\ [Next]_vars => OrderInv'
  BY OrderStep
<1>3. OrderInv => RepliesInOrder
  <2> SUFFICES ASSUME OrderInv, NEW c \in Conns
               PROVE  /\ \A i \in DOMAIN conn[c].replies : conn[c].replies[i] = i
                      /\ conn[c].pc = "read" => Len(conn[c].replies) = conn[c].next
    BY DEF RepliesInOrder
  <2>1. ReaderOK(conn[c]) /\ conn[c].replies \in Seq(Nat)
    BY DEF OrderInv, ReadersOK, ReaderOK, AnyReader
  <2> QED
    BY <2>1 DEF ReaderOK
<1> QED
  BY <1>1, <1>2, <1>3, PTL DEF Spec
=============================================================================
