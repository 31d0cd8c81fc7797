------------------------------- MODULE Server -------------------------------
(***************************************************************************)
(* The threads of the server and how they start and end: the acceptor and  *)
(* Server::stop (src/server.cpp), the signal thread (src/main.cpp), a      *)
(* reader per connection (ClientHandler::handle), the command pool         *)
(* (src/thread_pool.cpp) and the TTL thread (src/ttl_manager.cpp).         *)
(*                                                                         *)
(* A step ends where another thread can see the difference: at a mutex, at *)
(* an atomic, at a blocking call.  A request is a line with a number; what *)
(* a line says, and which are too large, is the matter of CommandText, and *)
(* what a command does that of StorageEngine and AppendOnlyFile.           *)
(***************************************************************************)
EXTENDS Integers, Sequences, FiniteSets, Functions

CONSTANTS
    WorkerThreads,      \* config_.worker_threads
    None,
    MaxConns, MaxLines  \* bounds: connections made, lines sent on all of them

Conns == 1 .. MaxConns          \* connections, in the order they are accepted
Fds == 1 .. MaxConns            \* numbers the system gives to their sockets
Callers == {"main", "signal"}   \* the threads that call stop()

ASSUME ServerAssumption ==
    /\ WorkerThreads \in Nat \ {0}
    /\ MaxConns \in Nat /\ MaxLines \in Nat
    /\ None \notin Callers

VARIABLES
    pc, ret,            \* where main and the signal thread are; where main's stop() returns to
    pending, signal_received,
    outcome,            \* of the process: "running", "exited" or "aborted"
    running_, listen_fd_, stop_mutex_,
    client_fds_, connection_threads_, joining, connected_clients_,
    conn,               \* the connections and their reader threads, see Reader
    tasks_, stopping_,
    executing, left,    \* tasks that workers run; how many workers have returned
    ttl,                \* TtlManager: running_, worker_ and the thread itself
    aof_open,           \* between persistence_.open() and close()
    early, raced        \* history: see Serve and JoinTtl

process == <<ret, pending, signal_received, outcome>>
flags == <<running_, listen_fd_, stop_mutex_>>
registry == <<client_fds_, connection_threads_, joining, connected_clients_>>
clients == <<registry, conn>>
pool == <<tasks_, stopping_, executing, left>>
history == <<early, raced>>
rest == <<pool, ttl, aof_open, history>>
vars == <<pc, ret, pending, signal_received, outcome, running_, listen_fd_, stop_mutex_,
          client_fds_, connection_threads_, joining, connected_clients_, conn,
          tasks_, stopping_, executing, left, ttl, aof_open, early, raced>>

StartPCs == {"recover", "open", "socket", "serve", "ttl_flag", "ttl_thread", "loop", "accept",
             "register"}
StopPCs == {"lock", "close_listener", "shutdown_clients", "stop_ttl", "join_ttl", "swap_threads",
            "join_connections", "stop_pool", "join_workers", "close_aof"}
PCs == StartPCs \cup StopPCs \cup {"wake", "join_signal", "destroy", "sigwait", "done"}

Task == [conn : Conns, line : 1 .. MaxLines]

\* A connection: the reader's place in handle(), its socket and the socket's
\* number, the lines sent, received and handled, the line being answered and
\* the result its future holds, what follows the answer (the next line, or the
\* end: "close" behind a refusal, "leave" behind an oversized line), and the
\* lines answered.
Reader == [pc : {"none", "accepted", "read", "wait", "send", "close", "erase", "gone"},
           fd : Fds \cup {None}, sock : {"open", "shut", "hung", "closed"},
           sent : 0 .. MaxLines, got : 0 .. MaxLines, next : 0 .. MaxLines,
           result : 0 .. MaxLines, then : {"read", "close", "leave"}, replies : Seq(1 .. MaxLines)]

NoReader == [pc |-> "none", fd |-> None, sock |-> "closed", sent |-> 0, got |-> 0, next |-> 0,
             result |-> 0, then |-> "read", replies |-> <<>>]

\* main has blocked the signals, constructed the server with its workers, and
\* started the signal thread.
Init ==
    /\ pc = [main |-> "recover", signal |-> "sigwait"] /\ ret = "wake"
    /\ pending = FALSE /\ signal_received = FALSE
    /\ outcome = "running"
    /\ running_ = FALSE /\ listen_fd_ = FALSE /\ stop_mutex_ = None
    /\ client_fds_ = {} /\ connection_threads_ = {} /\ joining = {} /\ connected_clients_ = 0
    /\ conn = [c \in Conns |-> NoReader]
    /\ tasks_ = <<>> /\ stopping_ = FALSE /\ executing = {} /\ left = 0
    /\ ttl = [flag |-> FALSE, joinable |-> FALSE, thread |-> "none"]
    /\ aof_open = FALSE
    /\ early = FALSE /\ raced = FALSE

Go(p, to) == pc' = [pc EXCEPT ![p] = to]
At(p, here) == pc[p] = here
-----------------------------------------------------------------------------
(***************************************************************************)
(* Server::start, on the main thread                                       *)
(***************************************************************************)
\* recover and open; each may fail, and start returns without stop().
Recover ==
    /\ At("main", "recover")
    /\ Go("main", "open") \/ Go("main", "wake")
    /\ UNCHANGED <<process, flags, clients, rest>>

Open ==
    /\ At("main", "open")
    /\ \/ Go("main", "socket") /\ aof_open' = TRUE
       \/ Go("main", "wake") /\ UNCHANGED aof_open
    /\ UNCHANGED <<process, flags, clients, pool, ttl, history>>

\* setup_socket; a failure closes the socket again.
SetupSocket ==
    /\ At("main", "socket")
    /\ \/ Go("main", "serve") /\ listen_fd_' = TRUE
       \/ Go("main", "wake") /\ UNCHANGED listen_fd_
    /\ UNCHANGED <<process, running_, stop_mutex_, clients, rest>>

\* running_.store(true), whatever the signal thread has stopped already.
Serve ==
    /\ At("main", "serve")
    /\ running_' = TRUE
    /\ early' = (pc["signal"] \notin {"sigwait", "lock"})
    /\ Go("main", "ttl_flag")
    /\ UNCHANGED <<process, listen_fd_, stop_mutex_, clients, pool, ttl, aof_open, raced>>

\* TtlManager::start: the flag, then the thread.
StartTtl ==
    /\ At("main", "ttl_flag")
    /\ ttl' = [ttl EXCEPT !.flag = TRUE]
    /\ Go("main", IF ttl.flag THEN "loop" ELSE "ttl_thread")
    /\ UNCHANGED <<process, flags, clients, pool, aof_open, history>>

SpawnTtl ==
    /\ At("main", "ttl_thread")
    /\ ttl' = [ttl EXCEPT !.joinable = TRUE, !.thread = "running"]
    /\ Go("main", "loop")
    /\ UNCHANGED <<process, flags, clients, pool, aof_open, history>>

Accepted == {c \in Conns : conn[c].pc # "none"}
FreeFds == Fds \ {conn[c].fd : c \in {d \in Accepted : conn[d].sock # "closed"}}

\* The test of the accept loop.
Loop ==
    /\ At("main", "loop")
    /\ Go("main", IF running_ THEN "accept" ELSE "lock")
    /\ UNCHANGED <<process, flags, clients, rest>>

\* accept returns the next connection, on the lowest free number.
Accept ==
    /\ At("main", "accept") /\ listen_fd_
    /\ \E c \in Conns \ Accepted, f \in FreeFds :
          /\ \A d \in Conns \ Accepted : c <= d
          /\ \A g \in FreeFds : f <= g
          /\ conn' = [conn EXCEPT ![c] = [NoReader EXCEPT !.pc = "accepted", !.sock = "open",
                                                          !.fd = f]]
    /\ Go("main", "register")
    /\ UNCHANGED <<process, flags, registry, rest>>

\* accept fails, whatever the reason; with the listener closed it must.
AcceptFails ==
    /\ At("main", "accept")
    /\ Go("main", "lock")
    /\ UNCHANGED <<process, flags, clients, rest>>

\* The connection enters client_fds_ and gets its reader.
Enter(c) ==
    /\ conn' = [conn EXCEPT ![c].pc = "read"]
    /\ client_fds_' = client_fds_ \cup {conn[c].fd}
    /\ connection_threads_' = connection_threads_ \cup {c}
    /\ connected_clients_' = connected_clients_ + 1
    /\ Go("main", "loop")

\* Slip: running_ is not looked at again once clients_mutex_ is held.
RegisterUnchecked(c) ==
    /\ At("main", "register") /\ conn[c].pc = "accepted"
    /\ Enter(c)
    /\ UNCHANGED <<process, flags, joining, rest>>

\* Under clients_mutex_: a stop() that has begun meanwhile is noticed.
Register(c) ==
    /\ At("main", "register") /\ conn[c].pc = "accepted"
    /\ \/ running_ /\ Enter(c)
       \/ /\ ~running_
          /\ conn' = [conn EXCEPT ![c].pc = "gone", ![c].fd = None, ![c].sock = "closed"]
          /\ Go("main", "lock")
          /\ UNCHANGED <<client_fds_, connection_threads_, connected_clients_>>
    /\ UNCHANGED <<process, flags, joining, rest>>
-----------------------------------------------------------------------------
(***************************************************************************)
(* Server::stop, on either thread                                          *)
(***************************************************************************)
\* Slip: a second stop() does not wait for the first.
StopUnlocked(p) ==
    /\ At(p, "lock")
    /\ stop_mutex_' = p
    /\ running_' = FALSE
    /\ Go(p, "close_listener")
    /\ UNCHANGED <<process, listen_fd_, clients, rest>>

\* stop_mutex_ and running_.exchange(false)
LockStop(p) ==
    /\ At(p, "lock") /\ stop_mutex_ = None
    /\ stop_mutex_' = p
    /\ running_' = FALSE
    /\ Go(p, "close_listener")
    /\ UNCHANGED <<process, listen_fd_, clients, rest>>

\* Slip: the files are closed together with the listener.
CloseFilesToo(p) ==
    /\ At(p, "close_listener")
    /\ listen_fd_' = FALSE /\ aof_open' = FALSE
    /\ Go(p, "shutdown_clients")
    /\ UNCHANGED <<process, running_, stop_mutex_, clients, pool, ttl, history>>

CloseListener(p) ==
    /\ At(p, "close_listener")
    /\ listen_fd_' = FALSE
    /\ Go(p, "shutdown_clients")
    /\ UNCHANGED <<process, running_, stop_mutex_, clients, rest>>

\* Slip: the sockets of clients are left alone.
LeaveClients(p) ==
    /\ At(p, "shutdown_clients")
    /\ Go(p, "stop_ttl")
    /\ UNCHANGED <<process, flags, clients, rest>>

\* shutdown() of every number in client_fds_, whoever has it now.
ShutdownClients(p) ==
    /\ At(p, "shutdown_clients")
    /\ conn' = [c \in Conns |->
          IF conn[c].sock = "open" /\ conn[c].fd \in client_fds_
          THEN [conn[c] EXCEPT !.sock = "shut"] ELSE conn[c]]
    /\ Go(p, "stop_ttl")
    /\ UNCHANGED <<process, flags, registry, rest>>

\* TtlManager::stop: only the call that clears the flag goes on to join.
StopTtl(p) ==
    /\ At(p, "stop_ttl")
    /\ ttl' = [ttl EXCEPT !.flag = FALSE]
    /\ Go(p, IF ttl.flag THEN "join_ttl" ELSE "swap_threads")
    /\ UNCHANGED <<process, flags, clients, pool, aof_open, history>>

\* Slip: stop() only tells the thread to end.
LeaveTtl(p) ==
    /\ At(p, "join_ttl")
    /\ Go(p, "swap_threads")
    /\ UNCHANGED <<process, flags, clients, rest>>

\* worker_.joinable() is asked while start() may be about to assign worker_;
\* a stop() that comes too soon finds no thread and leaves it (raced).
JoinTtl(p) ==
    /\ At(p, "join_ttl")
    /\ \/ ~ttl.joinable /\ raced' = TRUE /\ UNCHANGED ttl
       \/ ttl.thread = "done" /\ ttl' = [ttl EXCEPT !.joinable = FALSE] /\ UNCHANGED raced
    /\ Go(p, "swap_threads")
    /\ UNCHANGED <<process, flags, clients, pool, aof_open, early>>

\* join_connection_threads: take the threads over under clients_mutex_ ...
SwapThreads(p) ==
    /\ At(p, "swap_threads")
    /\ joining' = connection_threads_ /\ connection_threads_' = {}
    /\ Go(p, "join_connections")
    /\ UNCHANGED <<process, flags, client_fds_, connected_clients_, conn, rest>>

\* ... and join them.
JoinConnections(p) ==
    /\ At(p, "join_connections")
    /\ \A c \in joining : conn[c].pc = "gone"
    /\ joining' = {}
    /\ Go(p, "stop_pool")
    /\ UNCHANGED <<process, flags, client_fds_, connection_threads_, connected_clients_, conn, rest>>

\* ThreadPool::shutdown returns at once if it has been called before.
StopPool(p) ==
    /\ At(p, "stop_pool")
    /\ stopping_' = TRUE
    /\ Go(p, IF stopping_ THEN "close_aof" ELSE "join_workers")
    /\ UNCHANGED <<process, flags, clients, tasks_, executing, left, ttl, aof_open, history>>

JoinWorkers(p) ==
    /\ At(p, "join_workers")
    /\ left = WorkerThreads
    /\ Go(p, "close_aof")
    /\ UNCHANGED <<process, flags, clients, rest>>

\* persistence_.close() and the end of stop().
CloseAof(p) ==
    /\ At(p, "close_aof")
    /\ aof_open' = FALSE
    /\ stop_mutex_' = None
    /\ Go(p, IF p = "main" THEN ret ELSE "done")
    /\ UNCHANGED <<process, running_, listen_fd_, clients, pool, ttl, history>>

Stop(p) ==
    \/ LockStop(p) \/ CloseListener(p) \/ ShutdownClients(p) \/ StopTtl(p) \/ JoinTtl(p)
    \/ SwapThreads(p) \/ JoinConnections(p) \/ StopPool(p) \/ JoinWorkers(p) \/ CloseAof(p)
-----------------------------------------------------------------------------
(***************************************************************************)
(* main and the signal thread                                              *)
(***************************************************************************)
\* SIGINT or SIGTERM from outside; blocked, it stays pending until taken.
\* Nobody takes a second one.
Signal ==
    /\ ~pending /\ ~signal_received
    /\ pending' = TRUE
    /\ UNCHANGED <<pc, ret, signal_received, outcome, flags, clients, rest>>

SigWait ==
    /\ At("signal", "sigwait") /\ pending
    /\ pending' = FALSE /\ signal_received' = TRUE
    /\ Go("signal", "lock")
    /\ UNCHANGED <<ret, outcome, flags, clients, rest>>

\* start() has returned: the signal thread is woken if nothing else did.
Wake ==
    /\ At("main", "wake")
    /\ pending' = (pending \/ ~signal_received)
    /\ Go("main", "join_signal")
    /\ UNCHANGED <<ret, signal_received, outcome, flags, clients, rest>>

\* The thread is joined; main returns and ~Server calls stop() again.
JoinSignal ==
    /\ At("main", "join_signal") /\ At("signal", "done")
    /\ Go("main", "lock") /\ ret' = "destroy"
    /\ UNCHANGED <<pending, signal_received, outcome, flags, clients, rest>>

\* The members are destroyed; a std::thread still joinable terminates.
Destroy ==
    /\ At("main", "destroy")
    /\ outcome' = IF ttl.joinable THEN "aborted" ELSE "exited"
    /\ Go("main", "done")
    /\ UNCHANGED <<ret, pending, signal_received, flags, clients, rest>>
-----------------------------------------------------------------------------
(***************************************************************************)
(* ClientHandler::handle, and its client                                   *)
(***************************************************************************)
Update(c, reader) == conn' = [conn EXCEPT ![c] = reader]

LinesSent == FoldFunction(LAMBDA r, n : r.sent + n, 0, conn)

\* The client writes a line, or closes its end.
ClientSends(c) ==
    /\ conn[c].sock = "open" /\ LinesSent < MaxLines
    /\ Update(c, [conn[c] EXCEPT !.sent = @ + 1])
    /\ UNCHANGED <<pc, process, flags, registry, rest>>

HangUp(c) ==
    /\ conn[c].sock = "open"
    /\ Update(c, [conn[c] EXCEPT !.sock = "hung"])
    /\ UNCHANGED <<pc, process, flags, registry, rest>>

\* handle() returns: its buffer is gone.
Leave(c) ==
    Update(c, [NoReader EXCEPT !.pc = "close", !.fd = conn[c].fd, !.sock = conn[c].sock,
                               !.sent = conn[c].sent])

Reading(c) == conn[c].pc = "read" /\ conn[c].next = conn[c].got
Broken(c) == conn[c].sock # "open"

\* recv returns some of the lines on their way.
Recv(c) ==
    /\ Reading(c)
    /\ \E n \in conn[c].got + 1 .. conn[c].sent : Update(c, [conn[c] EXCEPT !.got = n])
    /\ UNCHANGED <<pc, process, flags, registry, rest>>

\* recv returns 0 or an error.
RecvEnds(c) ==
    /\ Reading(c) /\ Broken(c)
    /\ Leave(c)
    /\ UNCHANGED <<pc, process, flags, registry, rest>>

\* The next line of the buffer.
Line(c) == conn[c].next + 1

\* What has arrived of a line is too large already: it is answered, and
\* handle() returns.
Oversized(c) ==
    /\ Reading(c) /\ conn[c].got < conn[c].sent
    /\ Update(c, [conn[c] EXCEPT !.got = Line(c), !.next = Line(c), !.result = Line(c),
                                 !.pc = "send", !.then = "leave"])
    /\ UNCHANGED <<pc, process, flags, registry, rest>>

AtLine(c) == conn[c].pc = "read" /\ conn[c].next < conn[c].got

\* The line is too large or does not parse: it is answered without the pool.
RejectLine(c) ==
    /\ AtLine(c)
    /\ Update(c, [conn[c] EXCEPT !.next = Line(c), !.result = Line(c), !.pc = "send"])
    /\ UNCHANGED <<pc, process, flags, registry, rest>>

\* Slip: the reader goes on with the lines it has before it waits.
SubmitAndReadOn(c) ==
    /\ AtLine(c) /\ ~stopping_
    /\ tasks_' = Append(tasks_, [conn |-> c, line |-> Line(c)])
    /\ Update(c, [conn[c] EXCEPT !.next = Line(c),
                                 !.pc = IF Line(c) < conn[c].got THEN "read" ELSE "wait"])
    /\ UNCHANGED <<pc, process, flags, registry, stopping_, executing, left, ttl, aof_open, history>>

\* ThreadPool::enqueue accepts the command, and the reader waits for its future.
Submit(c) ==
    /\ AtLine(c) /\ ~stopping_
    /\ tasks_' = Append(tasks_, [conn |-> c, line |-> Line(c)])
    /\ Update(c, [conn[c] EXCEPT !.next = Line(c), !.pc = "wait"])
    /\ UNCHANGED <<pc, process, flags, registry, stopping_, executing, left, ttl, aof_open, history>>

\* enqueue refuses: "server is shutting down", and handle() returns.
Refuse(c) ==
    /\ AtLine(c) /\ stopping_
    /\ Update(c, [conn[c] EXCEPT !.next = Line(c), !.result = Line(c),
                                 !.pc = "send", !.then = "close"])
    /\ UNCHANGED <<pc, process, flags, registry, rest>>

Await(c) ==
    /\ conn[c].pc = "wait" /\ conn[c].result # 0
    /\ Update(c, [conn[c] EXCEPT !.pc = "send"])
    /\ UNCHANGED <<pc, process, flags, registry, rest>>

\* send_all succeeds, as long as the client reads.
Send(c) ==
    /\ conn[c].pc = "send" /\ conn[c].sock # "shut"
    /\ IF conn[c].then # "read" THEN Leave(c)
       ELSE Update(c, [conn[c] EXCEPT !.replies = Append(@, conn[c].result), !.result = 0,
                                      !.pc = "read"])
    /\ UNCHANGED <<pc, process, flags, registry, rest>>

SendFails(c) ==
    /\ conn[c].pc = "send" /\ Broken(c)
    /\ Leave(c)
    /\ UNCHANGED <<pc, process, flags, registry, rest>>

\* ::close: from here on the number is free for the next connection.
CloseSocket(c) ==
    /\ conn[c].pc = "close"
    /\ Update(c, [conn[c] EXCEPT !.pc = "erase", !.sock = "closed"])
    /\ UNCHANGED <<pc, process, flags, registry, rest>>

\* The count stays at 0 or above.
client_disconnected(current) == IF current > 0 THEN current - 1 ELSE 0

\* Slip: the number stays in client_fds_.
KeepClient(c) ==
    /\ conn[c].pc = "erase"
    /\ Update(c, [conn[c] EXCEPT !.pc = "gone", !.fd = None])
    /\ connected_clients_' = client_disconnected(connected_clients_)
    /\ UNCHANGED <<pc, process, flags, client_fds_, connection_threads_, joining, rest>>

\* Under clients_mutex_; client_disconnected follows.
EraseClient(c) ==
    /\ conn[c].pc = "erase"
    /\ Update(c, [conn[c] EXCEPT !.pc = "gone", !.fd = None])
    /\ client_fds_' = client_fds_ \ {conn[c].fd}
    /\ connected_clients_' = client_disconnected(connected_clients_)
    /\ UNCHANGED <<pc, process, flags, connection_threads_, joining, rest>>

\* What the reader of c does without its client's help.
Handle(c) ==
    \/ Recv(c) \/ RecvEnds(c) \/ Oversized(c) \/ RejectLine(c) \/ Submit(c) \/ Refuse(c)
    \/ Await(c) \/ SendFails(c) \/ CloseSocket(c) \/ EraseClient(c)
-----------------------------------------------------------------------------
(***************************************************************************)
(* ThreadPool::worker_loop and TtlManager::run                             *)
(***************************************************************************)
TakeTask ==
    /\ Cardinality(executing) + left < WorkerThreads /\ tasks_ # <<>>
    /\ executing' = executing \cup {Head(tasks_)}
    /\ tasks_' = Tail(tasks_)
    /\ UNCHANGED <<pc, process, flags, clients, stopping_, left, ttl, aof_open, history>>

\* Slip: a command that meets a shutdown is put back into the queue.
FinishAgain(t) ==
    /\ t \in executing
    /\ IF running_ THEN conn' = [conn EXCEPT ![t.conn].result = t.line] /\ UNCHANGED tasks_
                   ELSE tasks_' = Append(tasks_, t) /\ UNCHANGED conn
    /\ executing' = executing \ {t}
    /\ UNCHANGED <<pc, process, flags, registry, stopping_, left, ttl, aof_open, history>>

\* The command is executed and its promise fulfilled.
FinishTask(t) ==
    /\ t \in executing
    /\ conn' = [conn EXCEPT ![t.conn].result = t.line]
    /\ executing' = executing \ {t}
    /\ UNCHANGED <<pc, process, flags, registry, tasks_, stopping_, left, ttl, aof_open, history>>

\* A worker returns only once the queue is empty.
LeavePool ==
    /\ Cardinality(executing) + left < WorkerThreads /\ stopping_ /\ tasks_ = <<>>
    /\ left' = left + 1
    /\ UNCHANGED <<pc, process, flags, clients, tasks_, stopping_, executing, ttl, aof_open, history>>

\* The timed wait ends, notified or not, and the loop sees the flag.  Its
\* sweeps are calls of cleanup_expired, see StorageEngine.
TtlEnds ==
    /\ ttl.thread = "running" /\ ~ttl.flag
    /\ ttl' = [ttl EXCEPT !.thread = "done"]
    /\ UNCHANGED <<pc, process, flags, clients, pool, aof_open, history>>
-----------------------------------------------------------------------------
Start ==
    \/ Recover \/ Open \/ SetupSocket \/ Serve \/ StartTtl \/ SpawnTtl
    \/ Loop \/ \E c \in Conns : Register(c)

Main == Start \/ Stop("main") \/ Wake \/ JoinSignal \/ Destroy
SignalThread == SigWait \/ Stop("signal")

Ended == outcome # "running"

Next ==
    \/ /\ ~Ended
       /\ \/ Main \/ Accept \/ AcceptFails \/ Signal \/ SignalThread \/ TtlEnds
          \/ \E c \in Conns : ClientSends(c) \/ HangUp(c) \/ Handle(c) \/ Send(c)
          \/ TakeTask \/ LeavePool \/ \E t \in executing : FinishTask(t)
    \/ Ended /\ UNCHANGED vars

Spec == Init /\ [][Next]_vars

\* Every thread that can go on does so.  Nothing is asked of clients: they may
\* stay silent, never read a reply, or never connect; and accept must fail
\* only when the listener is closed.
FairSpec ==
    /\ Spec
    /\ WF_vars(~Ended /\ Main) /\ WF_vars(~Ended /\ ~listen_fd_ /\ AcceptFails)
    /\ WF_vars(~Ended /\ SignalThread) /\ WF_vars(~Ended /\ TtlEnds)
    /\ \A c \in Conns : WF_vars(~Ended /\ Handle(c))
    /\ WF_vars(~Ended /\ TakeTask) /\ WF_vars(~Ended /\ LeavePool)
    /\ \A t \in Task : WF_vars(~Ended /\ FinishTask(t))
-----------------------------------------------------------------------------
(***************************************************************************)
(* Properties                                                              *)
(***************************************************************************)
\* The variables have their types, and stop_mutex_ has the thread in stop().
TypeOK ==
    /\ pc \in [Callers -> PCs] /\ ret \in {"wake", "destroy"}
    /\ {pending, signal_received, running_, listen_fd_, stopping_, aof_open, early, raced}
         \subseteq BOOLEAN
    /\ outcome \in {"running", "exited", "aborted"}
    /\ stop_mutex_ \in Callers \cup {None}
    /\ \A p \in Callers : pc[p] \in StopPCs \ {"lock"} <=> stop_mutex_ = p
    /\ client_fds_ \subseteq Fds /\ connection_threads_ \subseteq Conns /\ joining \subseteq Conns
    /\ connected_clients_ \in 0 .. MaxConns
    /\ conn \in [Conns -> Reader]
    /\ tasks_ \in Seq(Task) /\ executing \subseteq Task /\ left \in 0 .. WorkerThreads
    /\ ttl \in [flag : BOOLEAN, joinable : BOOLEAN,
                thread : {"none", "running", "done"}]

\* README.md:129: "Responses on one TCP connection preserve request order,
\* including pipelined requests."  A connection's replies are those of its
\* lines, in order, and none is left out before the next line is read.
RepliesInOrder ==
    \A c \in Conns :
        /\ \A i \in DOMAIN conn[c].replies : conn[c].replies[i] = i
        /\ conn[c].pc = "read" => Len(conn[c].replies) = conn[c].next

\* stop() joins the readers before it stops the workers, so no client is told
\* "server is shutting down" (handle) unless stop() had begun before start()
\* set running_.
RefusedOnlyEarly == \A c \in Conns : conn[c].then = "close" => early

\* No command is queued or running once persistence_.close() was called, so
\* none can fail to be logged for that reason.
ExecutesWhileOpen ==
    tasks_ # <<>> \/ executing # {} => aof_open

\* When the process ends by itself every reader, worker and the TTL thread has
\* ended, every socket is closed, and no client is counted as connected.
EndsClean ==
    outcome = "exited" =>
        /\ \A c \in Accepted : conn[c].pc = "gone" /\ conn[c].sock = "closed"
        /\ left = WorkerThreads
        /\ ttl.thread \in {"none", "done"}
        /\ ~listen_fd_ /\ ~aof_open
        /\ client_fds_ = {} /\ connection_threads_ = {} /\ connected_clients_ = 0

\* The process aborts at its end only if a stop() came between the two steps
\* of TtlManager::start.
AbortsOnlyAfterRace == outcome = "aborted" => raced

\* A reader that waits for its command's result gets it, also when the server
\* stops meanwhile: the queue is drained.
RequestsAnswered ==
    \A c \in Conns : conn[c].pc = "wait" ~> conn[c].pc # "wait"

\* A connection whose number is not in client_fds_: another one had it before,
\* and erased it after closing its socket.
Unlisted ==
    \E c \in Conns : conn[c].pc \in {"read", "wait", "send"} /\ conn[c].fd \notin client_fds_

\* README.md:43: "Graceful `SIGINT`/`SIGTERM` shutdown".  Once the signal is
\* taken the process ends, whatever its clients do, unless stop() had begun
\* before start() set running_, or a connection is missing from client_fds_.
SignalEnds == signal_received ~> (Ended \/ early \/ Unlisted)

\* docs/concurrency.md:8: "Shutdown interrupts active sockets before joining
\* reader threads, so idle connections cannot prevent termination."
IdleCannotBlock ==
    \A p \in Callers : (pc[p] = "join_connections" /\ ~early) ~> pc[p] # "join_connections"
=============================================================================
