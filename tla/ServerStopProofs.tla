-------------------------- MODULE ServerStopProofs --------------------------
(***************************************************************************)
(* Server::stop closes the log only when no command can still need it, for *)
(* any number of workers, connections and requests, whichever threads call *)
(* stop() and when: before start() has opened the log, while it serves, or *)
(* again from the destructor.                                              *)
(*                                                                         *)
(* The second stop() skips the join of the workers, so it relies on the    *)
(* first one having finished it (DrainOK) and, for that, on stop_mutex_.   *)
(*                                                                         *)
(* On the same ground: when the process can abort, when a client can be    *)
(* told that the server is shutting down, and that nothing is left behind  *)
(* when the process has exited.                                            *)
(***************************************************************************)
EXTENDS ServerProofs, FiniteSetTheorems

ServingPCs == {"socket", "serve", "ttl_flag", "ttl_thread", "loop", "accept", "register"}

\* start() has not opened the log, and is not on its way to serve.
Unstarted ==
    /\ conn = [c \in Conns |-> NoReader]
    /\ pc["main"] \notin ServingPCs

\* One thread at a time is inside stop().
MutexOK ==
    /\ pc \in [Callers -> PCs] /\ ret \in {"wake", "destroy"}
    /\ \A p \in Callers : pc[p] \in StopPCs \ {"lock"} <=> stop_mutex_ = p

\* A worker has returned only if the queue was drained for good.
WorkersOK ==
    /\ IsFiniteSet(executing) /\ left \in Nat
    /\ Cardinality(executing) + left <= WorkerThreads
    /\ left > 0 => stopping_ /\ tasks_ = <<>>

\* Whoever set stopping_ has waited for every worker, or still does.
DrainOK ==
    /\ stopping_ => left = WorkerThreads \/ \E p \in Callers : pc[p] = "join_workers"
    /\ \A p \in Callers : pc[p] \in {"join_workers", "close_aof"} => stopping_

OpenOK ==
    ~aof_open =>
        /\ tasks_ = <<>> /\ executing = {}
        /\ stopping_ \/ Unstarted

StopInv == MutexOK /\ WorkersOK /\ DrainOK /\ OpenOK

USE DEF Callers

\* Steps of readers and clients other than Submit.
LEMMA ConnStep ==
    ASSUME StopInv, UNCHANGED <<pc, ret, stop_mutex_, pool, aof_open>>,
           conn' = conn \/ conn # [c \in Conns |-> NoReader]
    PROVE  StopInv'
  BY DEF StopInv, MutexOK, WorkersOK, DrainOK, OpenOK, Unstarted, pool

\* With no connection no reader or client can take a step.
LEMMA NobodyThere ==
    ASSUME conn = [c \in Conns |-> NoReader], NEW c \in Conns
    PROVE  ~(ClientSends(c) \/ HangUp(c) \/ Recv(c) \/ RecvEnds(c) \/ RejectLine(c) \/ Submit(c)
             \/ Oversized(c) \/ Refuse(c) \/ Await(c) \/ Send(c) \/ SendFails(c) \/ CloseSocket(c)
             \/ EraseClient(c) \/ Register(c))
<1>1. conn[c].pc = "none" /\ conn[c].sock = "closed"
  BY DEF NoReader
<1> QED
  BY <1>1 DEF ClientSends, HangUp, Recv, RecvEnds, Oversized, RejectLine, Submit, Refuse, Await,
              Send, SendFails, CloseSocket, EraseClient, Register, Reading, AtLine

\* A command is accepted only while the log is open.
LEMMA AcceptedWhileOpen ==
    ASSUME StopInv, NEW c \in Conns, Submit(c)
    PROVE  StopInv'
<1>1. ~stopping_ /\ UNCHANGED <<pc, ret, stop_mutex_, stopping_, executing, left, aof_open>>
  BY DEF Submit, process, flags
<1>2. conn # [d \in Conns |-> NoReader]
  BY NobodyThere
<1>3. aof_open /\ left = 0
  BY <1>1, <1>2 DEF StopInv, OpenOK, Unstarted, WorkersOK
<1>4. MutexOK' /\ WorkersOK' /\ DrainOK' /\ OpenOK'
  BY <1>1, <1>3 DEF StopInv, MutexOK, WorkersOK, DrainOK, OpenOK
<1> QED
  BY <1>4 DEF StopInv

\* Workers take, finish and leave.
LEMMA WorkerStep ==
    ASSUME StopInv, TakeTask \/ LeavePool \/ \E t \in executing : FinishTask(t)
    PROVE  StopInv'
<1>1. UNCHANGED <<pc, ret, stop_mutex_, stopping_, aof_open>>
  BY Zenon DEF TakeTask, LeavePool, FinishTask, process, flags
<1>2. MutexOK'
  BY <1>1 DEF StopInv, MutexOK
<1>3. Cardinality(executing) \in Nat /\ WorkerThreads \in Nat
  BY FS_CardinalityType, ServerAssumption DEF StopInv, WorkersOK
<1>4. CASE TakeTask
  <2>1. tasks_ # <<>> /\ left = 0 /\ left' = left /\ aof_open
        /\ executing' = executing \cup {Head(tasks_)}
        /\ Cardinality(executing) + left < WorkerThreads /\ conn' = conn
    BY <1>4 DEF TakeTask, StopInv, WorkersOK, OpenOK, clients
  <2>2. IsFiniteSet(executing') /\ Cardinality(executing') \in Nat
        /\ Cardinality(executing') <= Cardinality(executing) + 1
    <3>1. IsFiniteSet(executing)
      BY DEF StopInv, WorkersOK
    <3>2. /\ IsFiniteSet(executing \cup {Head(tasks_)})
          /\ Cardinality(executing \cup {Head(tasks_)})
               \in {Cardinality(executing), Cardinality(executing) + 1}
      BY <3>1, FS_AddElement, Zenon
    <3> QED
      BY <1>3, <2>1, <3>2
  <2>3. WorkersOK'
    BY <1>1, <1>3, <2>1, <2>2 DEF WorkersOK
  <2> QED
    BY <1>1, <1>2, <2>1, <2>3 DEF StopInv, DrainOK, OpenOK
<1>5. CASE LeavePool
  <2>1. left' = left + 1 /\ stopping_ /\ tasks_ = <<>> /\ tasks_' = tasks_ /\ executing' = executing
        /\ Cardinality(executing) + left < WorkerThreads /\ conn' = conn
    BY <1>5 DEF LeavePool, clients
  <2>2. WorkersOK'
    BY <1>1, <1>3, <2>1 DEF StopInv, WorkersOK
  <2>3. left # WorkerThreads
    BY <1>3, <2>1 DEF StopInv, WorkersOK
  <2> QED
    BY <1>1, <1>2, <2>1, <2>2, <2>3 DEF StopInv, DrainOK, OpenOK, Unstarted
<1>6. ASSUME NEW t \in executing, FinishTask(t)
      PROVE  StopInv'
  <2>1. executing' = executing \ {t} /\ left' = left /\ tasks_' = tasks_ /\ aof_open
    BY <1>6 DEF FinishTask, StopInv, OpenOK
  <2>2. IsFiniteSet(executing') /\ Cardinality(executing') \in Nat
        /\ Cardinality(executing') <= Cardinality(executing)
    <3>1. IsFiniteSet(executing)
      BY DEF StopInv, WorkersOK
    <3>2. /\ IsFiniteSet(executing \ {t})
          /\ Cardinality(executing \ {t})
               \in {Cardinality(executing), Cardinality(executing) - 1}
          /\ Cardinality(executing \ {t}) \in Nat
      BY <3>1, FS_RemoveElement, FS_CardinalityType, Zenon
    <3> QED
      BY <1>3, <2>1, <3>2
  <2>3. WorkersOK'
    BY <1>1, <1>3, <2>1, <2>2 DEF StopInv, WorkersOK
  <2> QED
    BY <1>1, <1>2, <2>1, <2>3 DEF StopInv, DrainOK, OpenOK
<1> QED
  BY <1>4, <1>5, <1>6

\* The places of stop() where stop_mutex_ is held, and those of them that
\* DrainOK does not speak of.
Inside == StopPCs \ {"lock"}
BeforeDrain == Inside \ {"join_workers", "close_aof"}

\* A thread moves on outside stop(), or inside it before the workers are
\* joined; the pool is not touched.
LEMMA MoveStep ==
    ASSUME StopInv, NEW p \in Callers, NEW to \in PCs, Go(p, to),
           \/ pc[p] \notin Inside /\ to \notin Inside
           \/ pc[p] \in BeforeDrain /\ to \in BeforeDrain,
           ret' \in {"wake", "destroy"}, UNCHANGED <<stop_mutex_, pool>>,
           aof_open' = aof_open \/ aof_open',
           ~aof_open /\ Unstarted => aof_open' \/ Unstarted'
    PROVE  StopInv'
<1>1. pc' \in [Callers -> PCs] /\ pc'[p] = to /\ \A q \in Callers \ {p} : pc'[q] = pc[q]
  BY DEF StopInv, MutexOK, Go
<1>2. MutexOK'
  BY <1>1 DEF StopInv, MutexOK, Inside, BeforeDrain
<1>3. WorkersOK'
  BY DEF StopInv, WorkersOK, pool
<1>4. to \notin {"join_workers", "close_aof"} /\ pc[p] # "join_workers"
  BY DEF Inside, BeforeDrain, StopPCs
<1>5. DrainOK'
  BY <1>1, <1>4 DEF StopInv, DrainOK, pool
<1>6. OpenOK'
  BY DEF StopInv, OpenOK, pool
<1> QED
  BY <1>2, <1>3, <1>5, <1>6 DEF StopInv

\* start() up to its accept loop, and what main does around it.
LEMMA MainStep ==
    ASSUME StopInv,
           \/ Recover \/ Open \/ SetupSocket \/ Serve \/ StartTtl \/ SpawnTtl \/ Loop
           \/ Accept \/ AcceptFails \/ Wake \/ JoinSignal \/ Destroy
           \/ \E c \in Conns : Register(c)
    PROVE  StopInv'
<1> USE DEF At, Inside, BeforeDrain, StopPCs, PCs, StartPCs, pool, process, flags, clients, rest
<1>0. ret \in {"wake", "destroy"}
  BY DEF StopInv, MutexOK
<1>1. CASE Recover
  <2>1. PICK to \in {"open", "wake"} : Go("main", to)
    BY <1>1 DEF Recover
  <2>2. Unstarted => Unstarted'
    BY <1>1, <2>1 DEF Recover, Unstarted, ServingPCs, Go, StopInv, MutexOK
  <2> QED
    BY <1>0, <1>1, <2>1, <2>2, MoveStep DEF Recover
<1>2. CASE Open
  <2>1. PICK to \in {"socket", "wake"} :
           Go("main", to) /\ (aof_open' \/ (to = "wake" /\ aof_open' = aof_open))
    BY <1>2 DEF Open
  <2>2. Unstarted => aof_open' \/ Unstarted'
    BY <1>2, <2>1 DEF Open, Unstarted, ServingPCs, Go, StopInv, MutexOK
  <2> QED
    BY <1>0, <1>2, <2>1, <2>2, MoveStep DEF Open
<1>3. CASE SetupSocket \/ Serve \/ StartTtl \/ SpawnTtl \/ Loop \/ Accept \/ AcceptFails
           \/ \E c \in Conns : Register(c)
  <2>1. PICK to \in {"serve", "wake", "ttl_flag", "ttl_thread", "loop", "accept", "register", "lock"} :
           Go("main", to)
    BY <1>3, Zenon DEF SetupSocket, Serve, StartTtl, SpawnTtl, Loop, Accept, AcceptFails, Register, Enter
  <2>2. pc["main"] \in ServingPCs
    BY <1>3, Zenon DEF SetupSocket, Serve, StartTtl, SpawnTtl, Loop, Accept, AcceptFails, Register, ServingPCs
  <2>3. ~Unstarted /\ pc["main"] \notin Inside /\ to \notin Inside /\ to \in PCs
    BY <2>1, <2>2 DEF Unstarted, ServingPCs
  <2>4. UNCHANGED <<ret, stop_mutex_, pool, aof_open>>
    BY <1>3, Zenon DEF SetupSocket, Serve, StartTtl, SpawnTtl, Loop, Accept, AcceptFails, Register
  <2> QED
    BY <1>0, <2>1, <2>3, <2>4, MoveStep
<1>4. CASE Wake \/ JoinSignal \/ Destroy
  <2>1. PICK to \in {"join_signal", "lock", "done"} : Go("main", to)
    BY <1>4 DEF Wake, JoinSignal, Destroy
  <2>2. pc["main"] \in {"wake", "join_signal", "destroy"}
    BY <1>4 DEF Wake, JoinSignal, Destroy
  <2>3. ret' \in {"wake", "destroy"} /\ UNCHANGED <<stop_mutex_, pool, aof_open, conn>>
    BY <1>0, <1>4 DEF Wake, JoinSignal, Destroy
  <2>4. Unstarted => Unstarted'
    BY <2>1, <2>3 DEF Unstarted, ServingPCs, Go, StopInv, MutexOK
  <2> QED
    BY <2>1, <2>2, <2>3, <2>4, MoveStep
<1> QED
  BY <1>1, <1>2, <1>3, <1>4

\* stop() up to the workers.
LEMMA StopStep ==
    ASSUME StopInv, NEW p \in Callers,
           \/ CloseListener(p) \/ ShutdownClients(p) \/ StopTtl(p) \/ JoinTtl(p)
           \/ SwapThreads(p) \/ JoinConnections(p)
    PROVE  StopInv'
<1> USE DEF process, flags, clients, registry, pool, rest
<1>1. PICK to \in {"shutdown_clients", "stop_ttl", "join_ttl", "swap_threads", "join_connections",
                   "stop_pool"} : Go(p, to)
  BY DEF CloseListener, ShutdownClients, StopTtl, JoinTtl, SwapThreads, JoinConnections
<1>2. pc[p] \in BeforeDrain /\ to \in BeforeDrain /\ to \in PCs
  BY <1>1 DEF CloseListener, ShutdownClients, StopTtl, JoinTtl, SwapThreads, JoinConnections, At,
              BeforeDrain, Inside, StopPCs, PCs
<1>3. UNCHANGED <<ret, stop_mutex_, pool, aof_open>> /\ ret \in {"wake", "destroy"}
  BY DEF CloseListener, ShutdownClients, StopTtl, JoinTtl, SwapThreads, JoinConnections,
         StopInv, MutexOK
<1>4. conn = [c \in Conns |-> NoReader] => conn' = conn
  <2>1. CASE ShutdownClients(p)
    BY <2>1 DEF ShutdownClients, NoReader
  <2>2. CASE CloseListener(p) \/ StopTtl(p) \/ JoinTtl(p) \/ SwapThreads(p) \/ JoinConnections(p)
    BY <2>2 DEF CloseListener, StopTtl, JoinTtl, SwapThreads, JoinConnections
  <2> QED
    BY <2>1, <2>2
<1>5. Unstarted => Unstarted'
  BY <1>1, <1>4 DEF Unstarted, ServingPCs, Go, StopInv, MutexOK
<1> QED
  BY <1>1, <1>2, <1>3, <1>5, MoveStep

\* stop_mutex_ is taken, the workers are told to end and joined, the log is
\* closed and stop_mutex_ released.
LEMMA DrainStep ==
    ASSUME StopInv, NEW p \in Callers,
           LockStop(p) \/ StopPool(p) \/ JoinWorkers(p) \/ CloseAof(p)
    PROVE  StopInv'
<1> USE DEF At, Go, process, flags, clients, pool, rest
<1>1. PICK to \in {"close_listener", "join_workers", "close_aof", "wake", "destroy", "done"} :
         pc' = [pc EXCEPT ![p] = to]
  BY DEF LockStop, StopPool, JoinWorkers, CloseAof, StopInv, MutexOK
<1>2. /\ pc' \in [Callers -> PCs] /\ pc'[p] = to /\ \A q \in Callers \ {p} : pc'[q] = pc[q]
      /\ ret' \in {"wake", "destroy"} /\ conn' = conn
      /\ UNCHANGED <<tasks_, executing, left>>
  BY <1>1 DEF LockStop, StopPool, JoinWorkers, CloseAof, StopInv, MutexOK, PCs, StopPCs
<1>3. Unstarted => Unstarted'
  BY <1>1, <1>2 DEF Unstarted, ServingPCs
<1>4. WorkerThreads \in Nat \ {0} /\ None \notin Callers
  BY ServerAssumption
<1>5. CASE LockStop(p)
  <2>1. pc[p] = "lock" /\ to = "close_listener" /\ stop_mutex_ = None /\ stop_mutex_' = p
        /\ UNCHANGED <<stopping_, aof_open>>
    BY <1>1, <1>2, <1>5 DEF LockStop, StopInv, MutexOK
  <2>2. MutexOK'
    BY <1>2, <1>4, <2>1 DEF StopInv, MutexOK, StopPCs
  <2>3. WorkersOK' /\ DrainOK' /\ OpenOK'
    BY <1>2, <1>3, <2>1 DEF StopInv, WorkersOK, DrainOK, OpenOK
  <2> QED
    BY <2>2, <2>3 DEF StopInv
<1>6. CASE StopPool(p)
  <2>1. pc[p] = "stop_pool" /\ to = (IF stopping_ THEN "close_aof" ELSE "join_workers")
        /\ stopping_' = TRUE /\ UNCHANGED <<stop_mutex_, aof_open>>
    BY <1>1, <1>2, <1>6 DEF StopPool, StopInv, MutexOK
  <2>2. MutexOK'
    BY <1>2, <2>1 DEF StopInv, MutexOK, StopPCs
  <2>3. WorkersOK' /\ DrainOK' /\ OpenOK'
    BY <1>2, <1>3, <2>1 DEF StopInv, WorkersOK, DrainOK, OpenOK
  <2> QED
    BY <2>2, <2>3 DEF StopInv
<1>7. CASE JoinWorkers(p)
  <2>1. pc[p] = "join_workers" /\ to = "close_aof" /\ left = WorkerThreads
        /\ UNCHANGED <<stopping_, stop_mutex_, aof_open>>
    BY <1>1, <1>2, <1>7 DEF JoinWorkers, StopInv, MutexOK
  <2>2. MutexOK'
    BY <1>2, <2>1 DEF StopInv, MutexOK, StopPCs
  <2>3. WorkersOK' /\ DrainOK' /\ OpenOK'
    BY <1>2, <1>3, <2>1 DEF StopInv, WorkersOK, DrainOK, OpenOK
  <2> QED
    BY <2>2, <2>3 DEF StopInv
<1>8. CASE CloseAof(p)
  <2>1. pc[p] = "close_aof" /\ to \in {"wake", "destroy", "done"} /\ stop_mutex_' = None
        /\ stopping_ /\ stopping_' = stopping_ /\ aof_open' = FALSE
    BY <1>1, <1>2, <1>8 DEF CloseAof, StopInv, MutexOK, DrainOK
  <2>2. \A q \in Callers \ {p} : pc[q] \notin StopPCs \ {"lock"}
    BY <2>1 DEF StopInv, MutexOK, StopPCs
  <2>3. MutexOK'
    BY <1>2, <1>4, <2>1, <2>2 DEF MutexOK, StopPCs
  <2>4. left = WorkerThreads
    BY <2>1, <2>2 DEF StopInv, DrainOK, StopPCs
  <2>5. tasks_ = <<>> /\ executing = {}
    <3>1. Cardinality(executing) = 0
      BY <1>4, <2>4, FS_CardinalityType DEF StopInv, WorkersOK
    <3> QED
      BY <1>4, <2>4, <3>1, FS_EmptySet DEF StopInv, WorkersOK
  <2>6. WorkersOK' /\ DrainOK' /\ OpenOK'
    BY <1>2, <2>1, <2>4, <2>5 DEF StopInv, WorkersOK, DrainOK, OpenOK
  <2> QED
    BY <2>3, <2>6 DEF StopInv
<1> QED
  BY <1>5, <1>6, <1>7, <1>8

\* Every step preserves StopInv.
LEMMA ShutdownStep ==
    ASSUME StopInv, [Next]_vars
    PROVE  StopInv'
<1>1. CASE UNCHANGED vars
  BY <1>1, ConnStep DEF vars, pool
<1>2. CASE Main \/ Accept \/ AcceptFails
  BY <1>2, MainStep, StopStep, DrainStep DEF Main, Start, Stop
<1>3. CASE SignalThread
  <2>1. CASE Stop("signal")
    BY <2>1, StopStep, DrainStep DEF Stop
  <2>2. CASE SigWait
    <3>1. /\ Go("signal", "lock") /\ pc["signal"] = "sigwait"
          /\ UNCHANGED <<ret, stop_mutex_, pool, aof_open, conn>>
      BY <2>2 DEF SigWait, At, flags, clients, rest
    <3>2. Unstarted => Unstarted'
      BY <3>1 DEF Unstarted, Go, StopInv, MutexOK
    <3>3. pc["signal"] \notin Inside /\ "lock" \notin Inside /\ "lock" \in PCs
          /\ ret' \in {"wake", "destroy"}
      BY <3>1 DEF Inside, StopPCs, PCs, StopInv, MutexOK
    <3> QED
      BY <3>1, <3>2, <3>3, MoveStep
  <2> QED
    BY <1>3, <2>1, <2>2 DEF SignalThread
<1>4. CASE Signal \/ TtlEnds
  BY <1>4, ConnStep DEF Signal, TtlEnds, process, flags, clients, rest, pool
<1>5. ASSUME NEW c \in Conns, ClientSends(c) \/ HangUp(c) \/ Handle(c) \/ Send(c)
      PROVE  StopInv'
  <2>1. CASE Submit(c)
    BY <2>1, AcceptedWhileOpen
  <2>2. CASE \/ ClientSends(c) \/ HangUp(c) \/ Recv(c) \/ RecvEnds(c) \/ RejectLine(c) \/ Refuse(c)
             \/ Oversized(c) \/ Await(c) \/ Send(c) \/ SendFails(c) \/ CloseSocket(c)
             \/ EraseClient(c)
    <3>1. conn # [d \in Conns |-> NoReader]
      BY <2>2, NobodyThere
    <3>2. UNCHANGED <<pc, ret, stop_mutex_, pool, aof_open>>
      BY <2>2 DEF ClientSends, HangUp, Recv, RecvEnds, Oversized, RejectLine, Refuse, Await, Send,
                  SendFails, CloseSocket, EraseClient, process, flags, rest
    <3> QED
      BY <3>1, <3>2, ConnStep
  <2> QED
    BY <1>5, <2>1, <2>2 DEF Handle
<1>6. CASE TakeTask \/ LeavePool \/ \E t \in executing : FinishTask(t)
  BY <1>6, WorkerStep
<1> QED
  BY <1>1, <1>2, <1>3, <1>4, <1>5, <1>6 DEF Next

\* The server starts with the log closed and nobody inside stop().
LEMMA StopInit ==
    ASSUME Init
    PROVE  StopInv
<1>1. MutexOK /\ DrainOK /\ OpenOK
  BY ServerAssumption DEF Init, MutexOK, DrainOK, OpenOK, Unstarted, ServingPCs, PCs, StartPCs, StopPCs
<1>2. WorkersOK
  BY FS_EmptySet, ServerAssumption DEF Init, WorkersOK
<1> QED
  BY <1>1, <1>2 DEF StopInv

\* No command is queued or running while the log is closed (Server::stop,
\* ThreadPool::shutdown and worker_loop), so none fails to be logged because
\* the server stops.
THEOREM LogOutlivesCommands == Spec => []ExecutesWhileOpen
<1>1. Init => StopInv
  BY StopInit
<1>2. StopInv /\ [Next]_vars => StopInv'
  BY ShutdownStep
<1>3. StopInv => ExecutesWhileOpen
  BY DEF StopInv, OpenOK, ExecutesWhileOpen
<1> QED
  BY <1>1, <1>2, <1>3, PTL DEF Spec
-----------------------------------------------------------------------------
(***************************************************************************)
(* The TTL thread                                                          *)
(***************************************************************************)
\* start() has not entered its accept loop.
SetupPCs == {"recover", "open", "socket", "serve", "ttl_flag", "ttl_thread"}

\* main has left TtlManager::stop in its current call of stop(), or the last.
PastTtlPCs == {"join_ttl", "swap_threads", "join_connections", "stop_pool", "join_workers",
               "close_aof", "destroy", "done"}

\* The destructor's stop() comes after the signal thread was joined.
DestroyOK ==
    /\ ret = "destroy" => pc["main"] \in StopPCs \cup {"destroy", "done"} /\ pc["signal"] = "done"
    /\ pc["main"] \in {"destroy", "done"} => ret = "destroy"
    /\ outcome # "running" => pc["main"] = "done"

\* A thread that may still be joinable is either flagged as running, so that
\* the next stop() joins it, or is being joined, or was missed.
TtlOK ==
    /\ ttl \in [flag : BOOLEAN, joinable : BOOLEAN, thread : {"none", "running", "done"}]
    /\ ttl.thread = "running" => ttl.joinable
    /\ pc["main"] \in SetupPCs => ttl.thread = "none" /\ ~ttl.joinable
    /\ pc["main"] \in PastTtlPCs => ~ttl.flag
    /\ (ttl.joinable \/ pc["main"] = "ttl_thread") /\ ~ttl.flag =>
          raced \/ \E p \in Callers : pc[p] = "join_ttl"
    /\ outcome = "aborted" => raced
    /\ outcome = "exited" => ~ttl.joinable

TtlInv == DestroyOK /\ TtlOK

USE DEF process, flags, registry, clients, pool, history, rest

\* Clients, readers and workers keep to themselves.
LEMMA ReadersApart ==
    ASSUME NEW c \in Conns, ClientSends(c) \/ HangUp(c) \/ Handle(c) \/ Send(c)
    PROVE  UNCHANGED <<pc, process, flags, connection_threads_, joining, stopping_, left, ttl,
                       aof_open, history>>
<1>1. CASE ClientSends(c) \/ HangUp(c) \/ Send(c)
  BY <1>1 DEF ClientSends, HangUp, Send
<1>2. CASE Recv(c) \/ RecvEnds(c) \/ Oversized(c) \/ RejectLine(c) \/ Submit(c)
  BY <1>2 DEF Recv, RecvEnds, Oversized, RejectLine, Submit
<1>3. CASE Refuse(c) \/ Await(c) \/ SendFails(c) \/ CloseSocket(c) \/ EraseClient(c)
  BY <1>3 DEF Refuse, Await, SendFails, CloseSocket, EraseClient
<1> QED
  BY <1>1, <1>2, <1>3 DEF Handle

\* The same of the workers.
LEMMA WorkersApart ==
    ASSUME TakeTask \/ LeavePool \/ \E t \in executing : FinishTask(t)
    PROVE  UNCHANGED <<pc, process, flags, registry, stopping_, ttl, aof_open, history>>
  BY Zenon DEF TakeTask, LeavePool, FinishTask

\* main and the signal thread go through the places of the code in its order.
LEMMA DestroyStep ==
    ASSUME MutexOK, DestroyOK, [Next]_vars
    PROVE  DestroyOK'
<1> USE DEF DestroyOK, MutexOK, At, Go, StopPCs
<1>1. CASE UNCHANGED <<pc, ret, outcome>>
  BY <1>1
<1>2. CASE Recover \/ Open \/ SetupSocket \/ Serve \/ StartTtl \/ SpawnTtl
  BY <1>2 DEF Recover, Open, SetupSocket, Serve, StartTtl, SpawnTtl
<1>3. CASE Loop \/ Accept \/ AcceptFails \/ \E c \in Conns : Register(c)
  BY <1>3, Zenon DEF Loop, Register, Enter, Accept, AcceptFails
<1>4. CASE Wake \/ JoinSignal \/ Destroy \/ SigWait
  BY <1>4 DEF Wake, JoinSignal, Destroy, SigWait
<1>5. ASSUME NEW p \in Callers, Stop(p)
      PROVE  DestroyOK'
  <2>1. CASE LockStop(p) \/ CloseListener(p) \/ ShutdownClients(p) \/ StopTtl(p) \/ JoinTtl(p)
    BY <2>1 DEF LockStop, CloseListener, ShutdownClients, StopTtl, JoinTtl
  <2>2. CASE SwapThreads(p) \/ JoinConnections(p) \/ StopPool(p) \/ JoinWorkers(p)
    BY <2>2 DEF SwapThreads, JoinConnections, StopPool, JoinWorkers
  <2>3. CASE CloseAof(p)
    BY <2>3 DEF CloseAof
  <2> QED
    BY <1>5, <2>1, <2>2, <2>3 DEF Stop
<1>6. CASE Signal \/ TtlEnds
  BY <1>6 DEF Signal, TtlEnds
<1> QED
  BY <1>1, <1>2, <1>3, <1>4, <1>5, <1>6, ReadersApart, WorkersApart
     DEF Next, Main, Start, SignalThread, vars

\* Every step preserves TtlOK.
LEMMA TtlStep ==
    ASSUME MutexOK, TtlInv, [Next]_vars
    PROVE  TtlOK'
<1> USE DEF TtlInv, TtlOK, MutexOK, At, Go, SetupPCs, PastTtlPCs
<1>1. CASE UNCHANGED <<pc, outcome, ttl, raced>>
  BY <1>1
<1>2. CASE ~Ended /\ (Recover \/ Open \/ SetupSocket \/ Serve)
  BY <1>2 DEF Recover, Open, SetupSocket, Serve
<1>3. CASE ~Ended /\ StartTtl
  BY <1>3, Zenon DEF StartTtl, Ended
<1>4. CASE ~Ended /\ SpawnTtl
  BY <1>4, Zenon DEF SpawnTtl, Ended
<1>5. CASE ~Ended /\ (Loop \/ Accept \/ AcceptFails \/ \E c \in Conns : Register(c))
  <2>1. PICK to \in {"loop", "accept", "register", "lock"} : Go("main", to)
    BY <1>5, Zenon DEF Loop, Register, Enter, Accept, AcceptFails
  <2>2. pc["main"] \in {"loop", "accept", "register"} /\ UNCHANGED <<outcome, ttl, raced>>
    BY <1>5, Zenon DEF Loop, Register, Accept, AcceptFails
  <2> QED
    BY <2>1, <2>2
<1>6. CASE ~Ended /\ (Wake \/ JoinSignal \/ SigWait)
  BY <1>6 DEF Wake, JoinSignal, SigWait
<1>7. CASE ~Ended /\ Destroy
  BY <1>7 DEF Destroy, DestroyOK
<1>8. ASSUME NEW p \in Callers, Stop(p), ~Ended
      PROVE  TtlOK'
  <2>1. CASE LockStop(p) \/ CloseListener(p) \/ ShutdownClients(p)
    BY <2>1 DEF LockStop, CloseListener, ShutdownClients
  <2>2. CASE StopTtl(p)
    BY <1>8, <2>2, Zenon DEF StopTtl, Ended
  <2>3. CASE JoinTtl(p)
    BY <1>8, <2>3, Zenon DEF JoinTtl, Ended
  <2>4. CASE SwapThreads(p) \/ JoinConnections(p) \/ StopPool(p) \/ JoinWorkers(p)
    BY <2>4, SMTT(30) DEF SwapThreads, JoinConnections, StopPool, JoinWorkers
  <2>5. CASE CloseAof(p)
    BY <2>5 DEF CloseAof
  <2> QED
    BY <1>8, <2>1, <2>2, <2>3, <2>4, <2>5, Zenon DEF Stop
<1>9. CASE Signal
  BY <1>1, <1>9 DEF Signal
<1>10. CASE TtlEnds
  BY <1>10 DEF TtlEnds
<1> QED
  BY <1>1, <1>2, <1>3, <1>4, <1>5, <1>6, <1>7, <1>8, <1>9, <1>10, ReadersApart, WorkersApart, Zenon
     DEF Next, Main, Start, SignalThread, vars

\* No TTL thread yet, and nobody is at the end.
LEMMA TtlInit ==
    ASSUME Init
    PROVE  TtlInv
  BY DEF Init, TtlInv, TtlOK, DestroyOK, PastTtlPCs, StopPCs

\* ~TtlManager finds its thread joinable, and the process aborts, only if some
\* stop() had asked for the thread between the two steps of TtlManager::start:
\* every other stop() that clears the flag joins the thread, and main's own
\* stop() clears the flag that start() set.
THEOREM AbortNeedsRace == Spec => []AbortsOnlyAfterRace
<1> DEFINE I == StopInv /\ TtlInv
<1>1. Init => I
  BY StopInit, TtlInit
<1>2. I /\ [Next]_vars => I'
  BY ShutdownStep, DestroyStep, TtlStep DEF StopInv, TtlInv
<1>3. I => AbortsOnlyAfterRace
  BY DEF TtlInv, TtlOK, AbortsOnlyAfterRace
<1> QED
  BY <1>1, <1>2, <1>3, PTL DEF Spec
-----------------------------------------------------------------------------
(***************************************************************************)
(* The connections                                                         *)
(***************************************************************************)
\* The connection is registered and its reader has not returned.
ActivePCs == {"read", "wait", "send", "close", "erase"}
ActiveConns == {c \in Conns : conn[c].pc \in ActivePCs}

\* Clients that are told "server is shutting down", and those that could be.
Refused == {c \in Conns : conn[c].then = "close"}
Refusable == {c \in ActiveConns : stopping_}

\* A reader that has closed its socket, and one that was refused.
SocketsOK ==
    \A c \in Conns :
        /\ conn[c].pc \in {"erase", "gone"} => conn[c].sock = "closed"
        /\ conn[c].then = "close" => conn[c].pc = "send"

\* Every number in client_fds_ is one that a reader will erase.  The converse
\* does not hold: see Unlisted.
ListedOK == \A f \in client_fds_ : \E c \in ActiveConns : conn[c].fd = f

\* No reader is forgotten: whoever stops the server joins it.
JoinableOK ==
    /\ ActiveConns \subseteq connection_threads_ \cup joining
    /\ joining # {} => \E p \in Callers : pc[p] = "join_connections"
    /\ \A c \in Conns : conn[c].pc = "accepted" => pc["main"] = "register"
    /\ \A c, d \in Conns : conn[c].pc = "accepted" /\ conn[d].pc = "accepted" => c = d
    /\ pc["main"] \in SetupPCs =>
          connection_threads_ = {} /\ joining = {} /\ \A c \in Conns : conn[c].pc = "none"

ClientsOK == SocketsOK /\ ListedOK /\ JoinableOK

\* What a step does to connection d unless it registers or erases it.
Keeps(d) ==
    /\ conn'[d].fd = conn[d].fd
    /\ IF conn[d].pc \in ActivePCs THEN conn'[d].pc \in ActivePCs ELSE conn'[d].pc = conn[d].pc
    /\ conn'[d].pc \in {"erase", "gone"} => conn'[d].sock = "closed"
    /\ conn'[d].then = "close" =>
          /\ conn'[d].pc = "send"
          /\ conn[d].then = "close" \/ (stopping_ /\ conn[d].pc = "read")

\* One reader changes.
LEMMA KeepsOthers ==
    ASSUME OrderInv, SocketsOK, NEW c \in Conns, NEW r, conn' = [conn EXCEPT ![c] = r],
           r.fd = conn[c].fd,
           IF conn[c].pc \in ActivePCs THEN r.pc \in ActivePCs ELSE r.pc = conn[c].pc,
           r.pc \in {"erase", "gone"} => r.sock = "closed",
           r.then = "close" =>
              r.pc = "send" /\ (conn[c].then = "close" \/ (stopping_ /\ conn[c].pc = "read"))
    PROVE  \A d \in Conns : Keeps(d)
<1>1. conn'[c] = r /\ \A d \in Conns \ {c} : conn'[d] = conn[d]
  BY DEF OrderInv, ReadersOK
<1> QED
  BY <1>1 DEF Keeps, SocketsOK

\* The steps of a connection between its registration and its end.
LEMMA ReaderKeeps ==
    ASSUME OrderInv, SocketsOK, NEW c \in Conns,
           ClientSends(c) \/ HangUp(c) \/ Handle(c) \/ Send(c), ~EraseClient(c)
    PROVE  \A d \in Conns : Keeps(d)
<1> DEFINE r == conn[c]
<1>1. r \in AnyReader /\ NoReader \in AnyReader
  <2>1. r \in AnyReader
    BY Zenon DEF OrderInv, ReadersOK, ReaderOK
  <2>2. <<>> \in Seq(Nat)
    OBVIOUS
  <2>3. NoReader \in AnyReader
    BY <2>2 DEF AnyReader, NoReader
  <2> QED
    BY <2>1, <2>3
<1>2. /\ r.pc \in {"erase", "gone"} => r.sock = "closed"
      /\ r.then = "close" => r.pc = "send"
  BY DEF SocketsOK
<1>3. CASE Leave(c) /\ r.pc \in {"read", "send"}
  <2> DEFINE q == [NoReader EXCEPT !.pc = "close", !.fd = r.fd, !.sock = r.sock, !.sent = r.sent]
  <2>1. ASSUME NEW n \in AnyReader, NEW m \in AnyReader
        PROVE  LET k == [n EXCEPT !.pc = "close", !.fd = m.fd, !.sock = m.sock, !.sent = m.sent]
               IN  k.fd = m.fd /\ k.pc = "close" /\ k.then = n.then
    BY DEF AnyReader
  <2>2. q.fd = r.fd /\ q.pc = "close" /\ q.then = NoReader.then
    BY <1>1, <2>1
  <2>3. q.then # "close"
    BY <2>2 DEF NoReader
  <2>4. conn' = [conn EXCEPT ![c] = q]
    BY <1>3 DEF Leave, Update
  <2> HIDE DEF q
  <2> QED
    BY <1>3, <2>2, <2>3, <2>4, KeepsOthers, Zenon DEF ActivePCs
<1>4. CASE ClientSends(c) \/ HangUp(c)
  <2>1. r.sock = "open" /\ r.pc \notin {"erase", "gone"}
    BY <1>2, <1>4 DEF ClientSends, HangUp
  <2>2. \A n : LET q == [r EXCEPT !.sent = n]
               IN  q.fd = r.fd /\ q.pc = r.pc /\ q.then = r.then
    BY <1>1 DEF AnyReader
  <2>3. LET q == [r EXCEPT !.sock = "hung"]
        IN  q.fd = r.fd /\ q.pc = r.pc /\ q.then = r.then
    BY <1>1 DEF AnyReader
  <2>4. PICK q : conn' = [conn EXCEPT ![c] = q] /\ q.fd = r.fd /\ q.pc = r.pc /\ q.then = r.then
    <3>1. CASE ClientSends(c)
      <4>1. conn' = [conn EXCEPT ![c] = [r EXCEPT !.sent = r.sent + 1]]
        BY <3>1 DEF ClientSends, Update
      <4> QED
        BY <2>2, <4>1, Zenon
    <3>2. CASE HangUp(c)
      BY <2>3, <3>2, Zenon DEF HangUp, Update
    <3> QED
      BY <1>4, <3>1, <3>2
  <2> QED
    BY <1>2, <2>1, <2>4, KeepsOthers, Zenon
<1>5. CASE Recv(c)
  <2>1. PICK n : conn' = [conn EXCEPT ![c] = [r EXCEPT !.got = n]]
    BY <1>5, Zenon DEF Recv, Update
  <2> DEFINE q == [r EXCEPT !.got = n]
  <2>2. q.fd = r.fd /\ q.pc = r.pc /\ q.then = r.then
    BY <1>1 DEF AnyReader
  <2>3. r.pc = "read"
    BY <1>5 DEF Recv, Reading
  <2> HIDE DEF q
  <2>4. conn' = [conn EXCEPT ![c] = q]
    BY <2>1 DEF q
  <2> QED
    BY <1>2, <2>2, <2>3, <2>4, KeepsOthers, Zenon DEF ActivePCs
<1>6. CASE RejectLine(c) \/ Submit(c) \/ Await(c) \/ CloseSocket(c)
  <2>1. r.then # "close"
    BY <1>2, <1>6 DEF RejectLine, Submit, Await, CloseSocket, AtLine
  <2>2. PICK q : /\ conn' = [conn EXCEPT ![c] = q] /\ q.fd = r.fd /\ q.then = r.then
                 /\ q.pc \in ActivePCs
                 /\ q.pc = "erase" => q.sock = "closed"
    <3>1. CASE RejectLine(c)
      <4>1. LET q == [r EXCEPT !.next = Line(c), !.result = Line(c), !.pc = "send"]
            IN  q.fd = r.fd /\ q.then = r.then /\ q.pc = "send"
        BY <1>1 DEF AnyReader
      <4> QED
        BY <3>1, <4>1, Zenon DEF RejectLine, Update, ActivePCs
    <3>2. CASE Submit(c)
      <4>1. LET q == [r EXCEPT !.next = Line(c), !.pc = "wait"]
            IN  q.fd = r.fd /\ q.then = r.then /\ q.pc = "wait"
        BY <1>1 DEF AnyReader
      <4> QED
        BY <3>2, <4>1, Zenon DEF Submit, Update, ActivePCs
    <3>3. CASE Await(c)
      <4>1. LET q == [r EXCEPT !.pc = "send"]
            IN  q.fd = r.fd /\ q.then = r.then /\ q.pc = "send"
        BY <1>1 DEF AnyReader
      <4> QED
        BY <3>3, <4>1, Zenon DEF Await, Update, ActivePCs
    <3>4. CASE CloseSocket(c)
      <4>1. LET q == [r EXCEPT !.pc = "erase", !.sock = "closed"]
            IN  q.fd = r.fd /\ q.then = r.then /\ q.pc = "erase" /\ q.sock = "closed"
        BY <1>1 DEF AnyReader
      <4> QED
        BY <3>4, <4>1, Zenon DEF CloseSocket, Update, ActivePCs
    <3> QED
      BY <1>6, <3>1, <3>2, <3>3, <3>4
  <2>3. r.pc \in ActivePCs
    BY <1>6 DEF RejectLine, Submit, Await, CloseSocket, AtLine, ActivePCs
  <2> QED
    BY <2>1, <2>2, <2>3, KeepsOthers, Zenon DEF ActivePCs
<1>7. CASE Refuse(c)
  <2>1. LET q == [r EXCEPT !.next = Line(c), !.result = Line(c), !.pc = "send", !.then = "close"]
        IN  q.fd = r.fd /\ q.pc = "send"
    BY <1>1 DEF AnyReader
  <2> QED
    BY <1>7, <2>1, KeepsOthers, Zenon DEF Refuse, AtLine, Update, ActivePCs
<1>8. CASE Oversized(c)
  <2> DEFINE q == [r EXCEPT !.got = Line(c), !.next = Line(c), !.result = Line(c), !.pc = "send",
                            !.then = "leave"]
  <2>1. q.fd = r.fd /\ q.pc = "send" /\ q.then # "close"
    BY <1>1 DEF AnyReader
  <2>2. conn' = [conn EXCEPT ![c] = q] /\ r.pc = "read"
    BY <1>8 DEF Oversized, Reading, Update
  <2> HIDE DEF q
  <2> QED
    BY <2>1, <2>2, KeepsOthers, Zenon DEF ActivePCs
<1>9. CASE Send(c) /\ r.then = "read"
  <2> DEFINE q == [r EXCEPT !.replies = Append(@, r.result), !.result = 0, !.pc = "read"]
  <2>1. q.fd = r.fd /\ q.pc = "read" /\ q.then = r.then
    BY <1>1 DEF AnyReader
  <2>2. conn' = [conn EXCEPT ![c] = q] /\ r.pc = "send"
    BY <1>9 DEF Send, Update
  <2> HIDE DEF q
  <2>3. q.then # "close"
    BY <1>9, <2>1
  <2> QED
    BY <2>1, <2>2, <2>3, KeepsOthers, Zenon DEF ActivePCs
<1> QED
  BY <1>3, <1>4, <1>5, <1>6, <1>7, <1>8, <1>9 DEF Handle, Send, SendFails, RecvEnds, Reading

\* A worker hands its result over, or stop() shuts the sockets down.
LEMMA OthersKeep ==
    ASSUME OrderInv, SocketsOK,
           \/ conn' = conn
           \/ \E t \in executing : FinishTask(t)
           \/ \E p \in Callers : ShutdownClients(p)
    PROVE  \A d \in Conns : Keeps(d)
<1>1. \A d \in Conns : conn[d] \in AnyReader
  BY DEF OrderInv, ReadersOK, ReaderOK
<1>2. CASE conn' = conn
  BY <1>2 DEF Keeps, SocketsOK
<1>3. ASSUME NEW t \in executing, FinishTask(t)
      PROVE  \A d \in Conns : Keeps(d)
  <2> DEFINE r == conn[t.conn]
             q == [r EXCEPT !.result = t.line]
  <2>1. t.conn \in Conns /\ r.pc = "wait"
    BY DEF OrderInv, PoolOK, AnyTask, Waits
  <2>2. q.fd = r.fd /\ q.pc = r.pc /\ q.then = r.then
    BY <1>1, <2>1 DEF AnyReader
  <2>3. conn' = [conn EXCEPT ![t.conn] = q]
    BY <1>3 DEF FinishTask
  <2>4. r.then # "close"
    BY <2>1 DEF SocketsOK
  <2> HIDE DEF q
  <2> QED
    BY <2>1, <2>2, <2>3, <2>4, KeepsOthers, Zenon DEF ActivePCs
<1>4. CASE \E p \in Callers : ShutdownClients(p)
  <2> TAKE d \in Conns
  <2> DEFINE q == [conn[d] EXCEPT !.sock = "shut"]
  <2>1. q.fd = conn[d].fd /\ q.pc = conn[d].pc /\ q.then = conn[d].then
    BY <1>1 DEF AnyReader
  <2>2. conn'[d] = conn[d] \/ (conn[d].sock = "open" /\ conn'[d] = q)
    BY <1>4 DEF ShutdownClients
  <2> HIDE DEF q
  <2> QED
    BY <2>1, <2>2 DEF Keeps, SocketsOK
<1> QED
  BY <1>2, <1>3, <1>4

\* With Keeps the sets of connections stay what they are.
LEMMA KeepsClients ==
    ASSUME SocketsOK, ListedOK, \A d \in Conns : Keeps(d), client_fds_' = client_fds_
    PROVE  SocketsOK' /\ ListedOK' /\ ActiveConns' = ActiveConns /\ Refused' \subseteq Refused \cup Refusable
<1>1. SocketsOK'
  BY DEF SocketsOK, Keeps
<1>2. ActiveConns' = ActiveConns
  BY DEF ActiveConns, Keeps
<1>3. \A c \in ActiveConns : conn'[c].fd = conn[c].fd
  BY DEF ActiveConns, Keeps
<1>4. ListedOK'
  BY <1>2, <1>3 DEF ListedOK
<1>5. Refused' \subseteq Refused \cup Refusable
  BY DEF Refused, Refusable, ActiveConns, ActivePCs, Keeps
<1> QED
  BY <1>1, <1>2, <1>4, <1>5

\* accept(): the connection is not registered yet.
LEMMA AcceptKeeps ==
    ASSUME OrderInv, SocketsOK, ListedOK, Accept
    PROVE  /\ SocketsOK' /\ ListedOK' /\ ActiveConns' = ActiveConns
           /\ pc["main"] = "accept" /\ pc' = [pc EXCEPT !["main"] = "register"]
           /\ \E c \in Conns : \A d \in Conns \ {c} : conn'[d] = conn[d]
           /\ Refused' \subseteq Refused
<1>1. PICK c \in Conns \ Accepted, f \in FreeFds :
         conn' = [conn EXCEPT ![c] = [NoReader EXCEPT !.pc = "accepted", !.sock = "open", !.fd = f]]
  BY Zenon DEF Accept
<1> DEFINE q == [NoReader EXCEPT !.pc = "accepted", !.sock = "open", !.fd = f]
<1>2. q.pc = "accepted" /\ q.then # "close"
  BY DEF NoReader
<1> HIDE DEF q
<1>3. conn'[c] = q /\ \A d \in Conns \ {c} : conn'[d] = conn[d]
  BY <1>1 DEF OrderInv, ReadersOK, q
<1>4. conn[c].pc = "none" /\ c \in Conns
  BY <1>1 DEF Accepted
<1>5. ActiveConns' = ActiveConns /\ c \notin ActiveConns
  BY <1>2, <1>3, <1>4 DEF ActiveConns, ActivePCs
<1>6. SocketsOK'
  BY <1>2, <1>3 DEF SocketsOK
<1>7. client_fds_' = client_fds_
  BY DEF Accept
<1>8. \A d \in ActiveConns : conn'[d] = conn[d]
  BY <1>3, <1>5 DEF ActiveConns
<1>9. ListedOK'
  BY <1>5, <1>7, <1>8 DEF ListedOK
<1>10. Refused' \subseteq Refused
  BY <1>2, <1>3 DEF Refused
<1> QED
  BY <1>3, <1>4, <1>5, <1>6, <1>9, <1>10 DEF Accept, At, Go

\* A reader starts: its connection is listed and its thread can be joined.
LEMMA EnterKeeps ==
    ASSUME OrderInv, SocketsOK, ListedOK, NEW c \in Conns, conn[c].pc = "accepted", Enter(c)
    PROVE  /\ SocketsOK' /\ ListedOK' /\ ActiveConns' = ActiveConns \cup {c} /\ c \notin ActiveConns
           /\ \A d \in Conns : conn'[d].pc = "accepted" => d # c /\ conn[d].pc = "accepted"
           /\ Refused' \subseteq Refused
<1> DEFINE q == [conn[c] EXCEPT !.pc = "read"]
<1>1. q.pc = "read" /\ q.fd = conn[c].fd /\ q.then = conn[c].then
  BY DEF OrderInv, ReadersOK, ReaderOK, AnyReader
<1> HIDE DEF q
<1>2. conn'[c] = q /\ \A d \in Conns \ {c} : conn'[d] = conn[d]
  BY DEF OrderInv, ReadersOK, Enter, q
<1>3. ActiveConns' = ActiveConns \cup {c} /\ c \notin ActiveConns
  BY <1>1, <1>2 DEF ActiveConns, ActivePCs
<1>4. SocketsOK'
  BY <1>1, <1>2 DEF SocketsOK
<1>5. client_fds_' = client_fds_ \cup {conn[c].fd}
  BY DEF Enter
<1>6. \A d \in ActiveConns' : conn'[d].fd = conn[d].fd
  BY <1>1, <1>2 DEF ActiveConns
<1>7. ListedOK'
  BY <1>3, <1>5, <1>6 DEF ListedOK
<1>8. Refused' \subseteq Refused
  BY <1>1, <1>2 DEF Refused
<1> QED
  BY <1>1, <1>2, <1>3, <1>4, <1>7, <1>8

\* A connection ends: rejected by Register, or its reader returns.
LEMMA EndKeeps ==
    ASSUME OrderInv, SocketsOK, ListedOK, NEW c \in Conns, NEW r, conn' = [conn EXCEPT ![c] = r],
           r.pc = "gone", r.sock = "closed", r.then # "close",
           \/ conn[c].pc \notin ActivePCs /\ client_fds_' = client_fds_
           \/ client_fds_' = client_fds_ \ {conn[c].fd}
    PROVE  /\ SocketsOK' /\ ListedOK' /\ ActiveConns' = ActiveConns \ {c}
           /\ \A d \in Conns : conn'[d].pc = "accepted" => d # c /\ conn[d].pc = "accepted"
           /\ Refused' \subseteq Refused
<1>1. conn'[c] = r /\ \A d \in Conns \ {c} : conn'[d] = conn[d]
  BY DEF OrderInv, ReadersOK
<1>2. ActiveConns' = ActiveConns \ {c}
  BY <1>1 DEF ActiveConns, ActivePCs
<1>3. SocketsOK'
  BY <1>1 DEF SocketsOK
<1>4. conn[c].pc \notin ActivePCs => c \notin ActiveConns
  BY DEF ActiveConns
<1>5. \A d \in ActiveConns' : conn'[d] = conn[d]
  BY <1>1, <1>2 DEF ActiveConns
<1>6. ListedOK'
  BY <1>2, <1>4, <1>5 DEF ListedOK
<1>7. Refused' \subseteq Refused
  BY <1>1 DEF Refused
<1> QED
  BY <1>1, <1>2, <1>3, <1>6, <1>7

\* The steps of main and the signal thread that do not touch the registry.
Elsewhere ==
    \/ Recover \/ Open \/ SetupSocket \/ Serve \/ StartTtl \/ SpawnTtl \/ Loop \/ AcceptFails
    \/ Wake \/ JoinSignal \/ Destroy \/ SigWait
    \/ \E p \in Callers :
         \/ LockStop(p) \/ CloseListener(p) \/ ShutdownClients(p) \/ StopTtl(p) \/ JoinTtl(p)
         \/ StopPool(p) \/ JoinWorkers(p) \/ CloseAof(p)

\* Nobody else's step, and no step of a thread elsewhere, moves it away from
\* a place where it changes the registry, or back to the start.
LEMMA ElsewhereMoves ==
    ASSUME MutexOK, Elsewhere
    PROVE  /\ UNCHANGED registry
           /\ conn' = conn \/ \E p \in Callers : ShutdownClients(p)
           /\ pc["main"] = "register" => pc'["main"] = "register"
           /\ pc'["main"] \in SetupPCs => pc["main"] \in SetupPCs
           /\ \A p \in Callers : pc[p] = "join_connections" => pc'[p] = "join_connections"
<1> USE DEF MutexOK, At, Go, SetupPCs
<1>1. CASE Recover \/ Open \/ SetupSocket \/ Serve \/ StartTtl \/ SpawnTtl
  BY <1>1 DEF Recover, Open, SetupSocket, Serve, StartTtl, SpawnTtl
<1>2. CASE Loop \/ AcceptFails \/ Wake \/ JoinSignal \/ Destroy \/ SigWait
  BY <1>2, Zenon DEF Loop, AcceptFails, Wake, JoinSignal, Destroy, SigWait
<1>3. ASSUME NEW p \in Callers,
             LockStop(p) \/ CloseListener(p) \/ ShutdownClients(p) \/ StopTtl(p) \/ JoinTtl(p)
      PROVE  /\ UNCHANGED registry
             /\ conn' = conn \/ ShutdownClients(p)
             /\ pc["main"] = "register" => pc'["main"] = "register"
             /\ pc'["main"] \in SetupPCs => pc["main"] \in SetupPCs
             /\ \A q \in Callers : pc[q] = "join_connections" => pc'[q] = "join_connections"
  BY <1>3 DEF LockStop, CloseListener, ShutdownClients, StopTtl, JoinTtl
<1>4. ASSUME NEW p \in Callers, StopPool(p) \/ JoinWorkers(p) \/ CloseAof(p)
      PROVE  /\ UNCHANGED registry /\ conn' = conn
             /\ pc["main"] = "register" => pc'["main"] = "register"
             /\ pc'["main"] \in SetupPCs => pc["main"] \in SetupPCs
             /\ \A q \in Callers : pc[q] = "join_connections" => pc'[q] = "join_connections"
  BY <1>4 DEF StopPool, JoinWorkers, CloseAof
<1> QED
  BY <1>1, <1>2, <1>3, <1>4 DEF Elsewhere

\* A step that keeps the registry and the connections.
LEMMA KeepsJoinable ==
    ASSUME ClientsOK, \A d \in Conns : Keeps(d), UNCHANGED registry,
           pc["main"] = "register" => pc'["main"] = "register",
           pc'["main"] \in SetupPCs => pc["main"] \in SetupPCs,
           \A p \in Callers : pc[p] = "join_connections" => pc'[p] = "join_connections"
    PROVE  ClientsOK' /\ ActiveConns' = ActiveConns /\ Refused' \subseteq Refused \cup Refusable
<1>1. SocketsOK' /\ ListedOK' /\ ActiveConns' = ActiveConns /\ Refused' \subseteq Refused \cup Refusable
  BY KeepsClients DEF ClientsOK
<1>2. \A c \in Conns :
         conn'[c].pc \in {"accepted", "none"} <=>
            conn'[c].pc = conn[c].pc /\ conn[c].pc \in {"accepted", "none"}
  BY DEF Keeps, ActivePCs
<1>3. \A c \in Conns : conn[c].pc = "none" => conn'[c].pc = "none"
  BY DEF Keeps, ActivePCs
<1>4. JoinableOK'
  BY <1>1, <1>2, <1>3 DEF ClientsOK, JoinableOK
<1> QED
  BY <1>1, <1>4 DEF ClientsOK

\* What every step does to the connections that are in use.
LEMMA ClientsStep ==
    ASSUME StopInv, OrderInv, ClientsOK, [Next]_vars
    PROVE  /\ ClientsOK' /\ Refused' \subseteq Refused \cup Refusable
           /\ \/ ActiveConns' = ActiveConns /\ connected_clients_' = connected_clients_
              \/ \E c \in Conns : /\ c \notin ActiveConns /\ ActiveConns' = ActiveConns \cup {c}
                                  /\ connected_clients_' = connected_clients_ + 1
              \/ \E c \in ActiveConns : /\ ActiveConns' = ActiveConns \ {c}
                                        /\ connected_clients_' = client_disconnected(connected_clients_)
<1> USE DEF MutexOK, At, Go
<1>0. MutexOK /\ SocketsOK /\ ListedOK /\ JoinableOK
  BY DEF StopInv, ClientsOK
<1>1. ASSUME \A d \in Conns : Keeps(d), UNCHANGED <<pc, registry>>
      PROVE  ClientsOK' /\ ActiveConns' = ActiveConns /\ Refused' \subseteq Refused \cup Refusable
  BY <1>1, KeepsJoinable
<1>2. CASE UNCHANGED vars \/ Signal \/ TtlEnds
  <2>1. UNCHANGED <<pc, registry, conn>>
    BY <1>2 DEF vars, Signal, TtlEnds
  <2>2. \A d \in Conns : Keeps(d)
    BY <1>0, <2>1, OthersKeep
  <2> QED
    BY <1>1, <2>1, <2>2
<1>3. CASE TakeTask \/ LeavePool \/ \E t \in executing : FinishTask(t)
  <2>1. UNCHANGED <<pc, registry>> /\ (conn' = conn \/ \E t \in executing : FinishTask(t))
    BY <1>3, WorkersApart, Zenon DEF TakeTask, LeavePool
  <2>2. \A d \in Conns : Keeps(d)
    BY <1>0, <2>1, OthersKeep
  <2> QED
    BY <1>1, <2>1, <2>2
<1>4. CASE Elsewhere
  <2>1. \A d \in Conns : Keeps(d)
    BY <1>0, <1>4, ElsewhereMoves, OthersKeep
  <2> QED
    BY <1>0, <1>4, <2>1, ElsewhereMoves, KeepsJoinable
<1>5. CASE Accept
  <2>1. /\ SocketsOK' /\ ListedOK' /\ ActiveConns' = ActiveConns /\ Refused' \subseteq Refused
        /\ pc["main"] = "accept" /\ pc' = [pc EXCEPT !["main"] = "register"] /\ UNCHANGED registry
    BY <1>0, <1>5, AcceptKeeps, Zenon DEF Accept
  <2>2. PICK c \in Conns : \A d \in Conns \ {c} : conn'[d] = conn[d]
    BY <1>0, <1>5, AcceptKeeps
  <2>3. \A d \in Conns : conn'[d].pc = "accepted" => d = c
    BY <1>0, <2>1, <2>2 DEF JoinableOK
  <2>4. pc'["main"] = "register" /\ \A p \in Callers : pc[p] = "join_connections" => pc'[p] = pc[p]
    BY <1>0, <2>1
  <2>5. JoinableOK'
    BY <1>0, <2>1, <2>3, <2>4 DEF JoinableOK, SetupPCs
  <2> QED
    BY <2>1, <2>5 DEF ClientsOK
<1>6. ASSUME NEW c \in Conns, Register(c)
      PROVE  /\ ClientsOK' /\ Refused' \subseteq Refused
             /\ \/ ActiveConns' = ActiveConns /\ connected_clients_' = connected_clients_
                \/ /\ c \notin ActiveConns /\ ActiveConns' = ActiveConns \cup {c}
                   /\ connected_clients_' = connected_clients_ + 1
  <2>1. pc["main"] = "register" /\ conn[c].pc = "accepted" /\ joining' = joining
    BY <1>6 DEF Register
  <2>2. \A d \in Conns : conn[d].pc = "accepted" => d = c
    BY <1>0, <2>1 DEF JoinableOK
  <2>3. CASE Enter(c)
    <3>1. /\ SocketsOK' /\ ListedOK' /\ ActiveConns' = ActiveConns \cup {c} /\ c \notin ActiveConns
          /\ Refused' \subseteq Refused /\ \A d \in Conns : conn'[d].pc # "accepted"
      BY <1>0, <2>1, <2>2, <2>3, EnterKeeps, Zenon
    <3>2. connection_threads_' = connection_threads_ \cup {c} /\ pc' = [pc EXCEPT !["main"] = "loop"]
          /\ connected_clients_' = connected_clients_ + 1
      BY <2>3 DEF Enter
    <3>3. pc'["main"] = "loop" /\ \A p \in Callers : pc[p] = "join_connections" => pc'[p] = pc[p]
      BY <1>0, <2>1, <3>2
    <3>4. JoinableOK'
      BY <1>0, <2>1, <3>1, <3>2, <3>3, Zenon DEF JoinableOK, SetupPCs
    <3> QED
      BY <3>1, <3>2, <3>4 DEF ClientsOK
  <2>4. CASE ~Enter(c)
    <3> DEFINE q == [conn[c] EXCEPT !.pc = "gone", !.fd = None, !.sock = "closed"]
    <3>1. q.pc = "gone" /\ q.sock = "closed" /\ q.then = conn[c].then
      BY DEF OrderInv, ReadersOK, ReaderOK, AnyReader
    <3>2. conn' = [conn EXCEPT ![c] = q] /\ pc' = [pc EXCEPT !["main"] = "lock"]
          /\ UNCHANGED registry
      BY <1>6, <2>4, Zenon DEF Register
    <3> HIDE DEF q
    <3>3. q.then # "close" /\ conn[c].pc \notin ActivePCs /\ c \notin ActiveConns
      BY <1>0, <2>1, <3>1 DEF SocketsOK, ActivePCs, ActiveConns
    <3>4. /\ SocketsOK' /\ ListedOK' /\ ActiveConns' = ActiveConns \ {c}
          /\ Refused' \subseteq Refused /\ \A d \in Conns : conn'[d].pc # "accepted"
      BY <1>0, <2>2, <3>1, <3>2, <3>3, EndKeeps, Zenon
    <3>5. pc'["main"] = "lock" /\ \A p \in Callers : pc[p] = "join_connections" => pc'[p] = pc[p]
      BY <1>0, <2>1, <3>2
    <3>6. ActiveConns' = ActiveConns
      BY <3>3, <3>4
    <3>7. JoinableOK'
      BY <1>0, <3>2, <3>4, <3>5, <3>6, Zenon DEF JoinableOK, SetupPCs
    <3> QED
      BY <3>2, <3>4, <3>6, <3>7 DEF ClientsOK
  <2> QED
    BY <2>3, <2>4
<1>7. ASSUME NEW c \in Conns, EraseClient(c)
      PROVE  /\ ClientsOK' /\ Refused' \subseteq Refused
             /\ c \in ActiveConns /\ ActiveConns' = ActiveConns \ {c}
             /\ connected_clients_' = client_disconnected(connected_clients_)
  <2> DEFINE q == [conn[c] EXCEPT !.pc = "gone", !.fd = None]
  <2>1. conn[c].pc = "erase" /\ c \in ActiveConns
    BY <1>7 DEF EraseClient, ActiveConns, ActivePCs
  <2>2. q.pc = "gone" /\ q.sock = conn[c].sock /\ q.then = conn[c].then
    BY DEF OrderInv, ReadersOK, ReaderOK, AnyReader
  <2>3. conn' = [conn EXCEPT ![c] = q] /\ client_fds_' = client_fds_ \ {conn[c].fd}
        /\ UNCHANGED <<pc, connection_threads_, joining>>
        /\ connected_clients_' = client_disconnected(connected_clients_)
    BY <1>7 DEF EraseClient, Update
  <2>4. \A d \in Conns : conn[d].pc = "none" => d # c /\ conn'[d].pc = "none"
    BY <2>1, <2>3 DEF OrderInv, ReadersOK
  <2> HIDE DEF q
  <2>5. q.then # "close" /\ q.sock = "closed"
    BY <1>0, <2>1, <2>2 DEF SocketsOK
  <2>6. /\ SocketsOK' /\ ListedOK' /\ ActiveConns' = ActiveConns \ {c}
        /\ Refused' \subseteq Refused
        /\ \A d \in Conns : conn'[d].pc = "accepted" => conn[d].pc = "accepted"
    BY <1>0, <2>2, <2>3, <2>5, EndKeeps, Zenon
  <2>7. JoinableOK'
    BY <1>0, <2>3, <2>4, <2>6 DEF JoinableOK
  <2> QED
    BY <2>1, <2>3, <2>6, <2>7 DEF ClientsOK
<1>8. ASSUME NEW c \in Conns, ClientSends(c) \/ HangUp(c) \/ Handle(c) \/ Send(c), ~EraseClient(c)
      PROVE  /\ ClientsOK' /\ Refused' \subseteq Refused \cup Refusable
             /\ ActiveConns' = ActiveConns /\ connected_clients_' = connected_clients_
  <2>1. UNCHANGED <<pc, registry>>
    BY <1>8 DEF ClientSends, HangUp, Handle, Send, Recv, RecvEnds, Oversized, RejectLine, Submit,
                Refuse, Await, SendFails, CloseSocket
  <2>2. \A d \in Conns : Keeps(d)
    BY <1>0, <1>8, ReaderKeeps
  <2> QED
    BY <1>1, <2>1, <2>2
<1>9. ASSUME NEW p \in Callers, SwapThreads(p)
      PROVE  /\ ClientsOK' /\ Refused' \subseteq Refused \cup Refusable
             /\ ActiveConns' = ActiveConns /\ connected_clients_' = connected_clients_
  <2>1. /\ pc[p] = "swap_threads" /\ pc' = [pc EXCEPT ![p] = "join_connections"]
        /\ joining' = connection_threads_ /\ connection_threads_' = {}
        /\ UNCHANGED <<conn, client_fds_, connected_clients_>>
    BY <1>9 DEF SwapThreads
  <2>2. joining = {}
    BY <1>0, <2>1 DEF JoinableOK, StopPCs
  <2>3. pc'[p] = "join_connections" /\ (pc["main"] = "register" => pc'["main"] = "register")
        /\ (pc'["main"] \in SetupPCs => pc["main"] \in SetupPCs)
    BY <1>0, <2>1 DEF SetupPCs
  <2>4. ActiveConns' = ActiveConns /\ Refused' = Refused /\ SocketsOK' /\ ListedOK'
    BY <1>0, <2>1, Zenon DEF ActiveConns, Refused, SocketsOK, ListedOK
  <2>5. JoinableOK'
    BY <1>0, <2>1, <2>2, <2>3, <2>4, Zenon DEF JoinableOK
  <2> QED
    BY <2>1, <2>4, <2>5 DEF ClientsOK
<1>10. ASSUME NEW p \in Callers, JoinConnections(p)
       PROVE  /\ ClientsOK' /\ Refused' \subseteq Refused \cup Refusable
             /\ ActiveConns' = ActiveConns /\ connected_clients_' = connected_clients_
  <2>1. /\ pc[p] = "join_connections" /\ pc' = [pc EXCEPT ![p] = "stop_pool"]
        /\ joining' = {} /\ \A c \in joining : conn[c].pc = "gone"
        /\ UNCHANGED <<conn, client_fds_, connection_threads_, connected_clients_>>
    BY <1>10 DEF JoinConnections
  <2>2. ActiveConns \cap joining = {}
    BY <2>1 DEF ActiveConns, ActivePCs
  <2>3. (pc["main"] = "register" => pc'["main"] = "register")
        /\ (pc'["main"] \in SetupPCs => pc["main"] \in SetupPCs)
    BY <1>0, <2>1 DEF SetupPCs
  <2>4. ActiveConns' = ActiveConns /\ Refused' = Refused /\ SocketsOK' /\ ListedOK'
    BY <1>0, <2>1, Zenon DEF ActiveConns, Refused, SocketsOK, ListedOK
  <2>5. JoinableOK'
    BY <1>0, <2>1, <2>2, <2>3, <2>4, Zenon DEF JoinableOK
  <2> QED
    BY <2>1, <2>4, <2>5 DEF ClientsOK
<1>11. Elsewhere => connected_clients_' = connected_clients_
  BY <1>0, ElsewhereMoves
<1> QED
  BY <1>2, <1>3, <1>4, <1>5, <1>6, <1>7, <1>8, <1>9, <1>10, <1>11, Zenon
     DEF Next, Main, Start, SignalThread, Stop, Elsewhere, Handle
-----------------------------------------------------------------------------
(***************************************************************************)
(* Clients that are refused                                                *)
(***************************************************************************)
\* Unless stop() began before start() set running_, nobody is registered once
\* stop() has begun, and nobody is left when it stops the workers.
RunOK ==
    /\ running_ /\ ~early => ~stopping_ /\ \A p \in Callers : pc[p] \notin Inside
    /\ stopping_ => pc["signal"] \notin {"sigwait", "lock"} \/ pc["main"] \notin StartPCs
    /\ ~early /\ (stopping_ \/ \E p \in Callers : pc[p] \in {"stop_pool", "join_workers", "close_aof"}) =>
          connection_threads_ = {} /\ joining = {}
    /\ ~early /\ (\E p \in Callers : pc[p] = "join_connections") => connection_threads_ = {}

\* Every step preserves RunOK.
LEMMA RunStep ==
    ASSUME StopInv, ClientsOK, RunOK, [Next]_vars
    PROVE  RunOK'
<1> USE DEF RunOK, MutexOK, At, Go, Inside, StopPCs, StartPCs
<1>0. MutexOK
  BY DEF StopInv
<1>1. CASE UNCHANGED <<pc, running_, early, stopping_, connection_threads_, joining>>
  BY <1>1
<1>2. CASE Recover \/ Open \/ SetupSocket \/ StartTtl \/ SpawnTtl
  BY <1>0, <1>2 DEF Recover, Open, SetupSocket, StartTtl, SpawnTtl
<1>3. CASE Serve
  <2>1. connection_threads_ = {} /\ joining = {}
    BY <1>3, Zenon DEF Serve, ClientsOK, JoinableOK, SetupPCs
  <2> QED
    BY <1>0, <1>3, <2>1, Zenon DEF Serve
<1>4. CASE Loop \/ Accept \/ AcceptFails
  <2>1. PICK to \in {"accept", "register", "lock"} : pc' = [pc EXCEPT !["main"] = to]
    BY <1>4, Zenon DEF Loop, Accept, AcceptFails
  <2>2. UNCHANGED <<running_, early, stopping_, connection_threads_, joining>>
    BY <1>4, Zenon DEF Loop, Accept, AcceptFails
  <2>3. pc["main"] \in StartPCs
    BY <1>4, Zenon DEF Loop, Accept, AcceptFails
  <2> QED
    BY <1>0, <2>1, <2>2, <2>3
<1>5. ASSUME NEW c \in Conns, Register(c)
      PROVE  RunOK'
  BY <1>0, <1>5 DEF Register, Enter
<1>6. CASE Wake \/ JoinSignal \/ Destroy \/ SigWait
  BY <1>0, <1>6, SMTT(30) DEF Wake, JoinSignal, Destroy, SigWait
<1>7. ASSUME NEW p \in Callers, Stop(p)
      PROVE  RunOK'
  <2>1. CASE LockStop(p) \/ CloseListener(p) \/ ShutdownClients(p)
    BY <1>0, <2>1 DEF LockStop, CloseListener, ShutdownClients
  <2>2. CASE StopTtl(p) \/ JoinTtl(p)
    BY <1>0, <2>2 DEF StopTtl, JoinTtl
  <2>3. CASE SwapThreads(p)
    BY <1>0, <2>3 DEF SwapThreads
  <2>4. CASE JoinConnections(p)
    BY <1>0, <2>4, Zenon DEF JoinConnections
  <2>5. CASE StopPool(p)
    BY <1>0, <2>5 DEF StopPool
  <2>6. CASE JoinWorkers(p)
    BY <1>0, <2>6 DEF JoinWorkers
  <2>7. CASE CloseAof(p)
    BY <1>0, <2>7 DEF CloseAof
  <2> QED
    BY <1>7, <2>1, <2>2, <2>3, <2>4, <2>5, <2>6, <2>7, Zenon DEF Stop
<1>8. CASE Signal \/ TtlEnds
  BY <1>8 DEF Signal, TtlEnds
<1> QED
  BY <1>1, <1>2, <1>3, <1>4, <1>5, <1>6, <1>7, <1>8, ReadersApart, WorkersApart, Zenon
     DEF Next, Main, Start, SignalThread, vars

\* early is decided once, in start().
LEMMA EarlyFixed ==
    ASSUME [Next]_vars, ~Serve
    PROVE  early' = early
<1>1. CASE Main \/ Accept \/ AcceptFails
  <2>1. CASE Start
    BY <2>1, Zenon DEF Start, Recover, Open, SetupSocket, StartTtl, SpawnTtl, Loop, Register
  <2>2. CASE Stop("main")
    BY <2>2 DEF Stop, LockStop, CloseListener, ShutdownClients, StopTtl, JoinTtl, SwapThreads,
                JoinConnections, StopPool, JoinWorkers, CloseAof
  <2> QED
    BY <1>1, <2>1, <2>2, Zenon DEF Main, Accept, AcceptFails, Wake, JoinSignal, Destroy
<1>2. CASE SignalThread
  BY <1>2 DEF SignalThread, SigWait, Stop, LockStop, CloseListener, ShutdownClients, StopTtl,
              JoinTtl, SwapThreads, JoinConnections, StopPool, JoinWorkers, CloseAof
<1>3. CASE Signal \/ TtlEnds \/ UNCHANGED vars
  BY <1>3 DEF Signal, TtlEnds, vars
<1> QED
  BY <1>1, <1>2, <1>3, ReadersApart, WorkersApart DEF Next

\* The inductive invariant of the two theorems that follow.
ServingInv == StopInv /\ OrderInv /\ ClientsOK /\ RunOK /\ RefusedOnlyEarly

\* It holds before start(): nobody is connected.
LEMMA ServingInit ==
    ASSUME Init
    PROVE  ServingInv
<1>1. SocketsOK /\ ListedOK /\ JoinableOK
  BY Zenon DEF Init, SocketsOK, ListedOK, JoinableOK, ActiveConns, ActivePCs, NoReader
<1>2. RunOK /\ RefusedOnlyEarly
  BY Zenon DEF Init, RunOK, RefusedOnlyEarly, NoReader
<1> QED
  BY <1>1, <1>2, StopInit, OrderInit DEF ServingInv, ClientsOK

\* Every step preserves it.
LEMMA ServingStep ==
    ASSUME ServingInv, [Next]_vars
    PROVE  ServingInv'
<1>1. StopInv' /\ OrderInv' /\ ClientsOK' /\ RunOK' /\ Refused' \subseteq Refused \cup Refusable
  BY ShutdownStep, OrderStep, ClientsStep, RunStep DEF ServingInv
<1>2. Refused # {} => early
  BY DEF ServingInv, RefusedOnlyEarly, Refused
<1>3. Refusable # {} => early
  BY Zenon DEF ServingInv, RunOK, ClientsOK, JoinableOK, Refusable
<1>4. CASE early' = early
  BY <1>1, <1>2, <1>3, <1>4, Zenon DEF ServingInv, RefusedOnlyEarly, Refused
<1>5. CASE early' # early
  <2>1. Serve
    BY <1>5, EarlyFixed
  <2>2. \A c \in Conns : conn[c].pc = "none" /\ conn' = conn
    BY <2>1, Zenon DEF Serve, At, ServingInv, ClientsOK, JoinableOK, SetupPCs
  <2>3. Refused' = {}
    BY <2>2 DEF ServingInv, ClientsOK, SocketsOK, Refused
  <2> QED
    BY <1>1, <2>3, Zenon DEF ServingInv, RefusedOnlyEarly, Refused
<1> QED
  BY <1>4, <1>5

\* No client is told "server is shutting down" (ThreadPool::enqueue throws,
\* ClientHandler::handle) unless stop() had begun before start() set running_:
\* any other stop() finds running_ set and clears it, nobody is registered
\* after that, and the readers are joined before stopping_ is set.
THEOREM RefusalNeedsEarlyStop == Spec => []RefusedOnlyEarly
<1>1. Init => ServingInv
  BY ServingInit
<1>2. ServingInv /\ [Next]_vars => ServingInv'
  BY ServingStep
<1>3. ServingInv => RefusedOnlyEarly
  BY DEF ServingInv
<1> QED
  BY <1>1, <1>2, <1>3, PTL DEF Spec
-----------------------------------------------------------------------------
(***************************************************************************)
(* The end of the process                                                  *)
(***************************************************************************)
\* Server::client_connected and client_disconnected count the readers.
CountedOK == connected_clients_ = Cardinality(ActiveConns)

\* What main's own stop() has closed stays closed: only main opens it.
ClosedOK ==
    /\ pc["main"] \in {"join_connections", "stop_pool", "join_workers", "close_aof", "destroy", "done"} =>
          connection_threads_ = {}
    /\ pc["main"] \in (Inside \ {"close_listener"}) \cup {"destroy", "done"} => ~listen_fd_
    /\ pc["main"] \in {"destroy", "done"} => ~aof_open /\ stopping_

\* The count follows the set.
LEMMA CountStep ==
    ASSUME ServingInv, CountedOK, [Next]_vars
    PROVE  CountedOK'
<1>1. IsFiniteSet(ActiveConns)
  <2>1. IsFiniteSet(Conns)
    BY FS_Interval, ServerAssumption DEF Conns
  <2> QED
    BY <2>1, FS_Subset DEF ActiveConns
<1>2. Cardinality(ActiveConns) \in Nat
  BY <1>1, FS_CardinalityType
<1>3. \/ ActiveConns' = ActiveConns /\ connected_clients_' = connected_clients_
      \/ \E c \in Conns : /\ c \notin ActiveConns /\ ActiveConns' = ActiveConns \cup {c}
                          /\ connected_clients_' = connected_clients_ + 1
      \/ \E c \in ActiveConns : /\ ActiveConns' = ActiveConns \ {c}
                                /\ connected_clients_' = client_disconnected(connected_clients_)
  BY ClientsStep DEF ServingInv
<1>4. CASE ActiveConns' = ActiveConns /\ connected_clients_' = connected_clients_
  BY <1>4 DEF CountedOK
<1>5. ASSUME NEW c \in Conns, c \notin ActiveConns, ActiveConns' = ActiveConns \cup {c},
             connected_clients_' = connected_clients_ + 1
      PROVE  CountedOK'
  <2>1. Cardinality(ActiveConns \cup {c}) = Cardinality(ActiveConns) + 1
    BY <1>1, <1>5, FS_AddElement
  <2> QED
    BY <1>5, <2>1 DEF CountedOK
<1>6. ASSUME NEW c \in ActiveConns, ActiveConns' = ActiveConns \ {c},
             connected_clients_' = client_disconnected(connected_clients_)
      PROVE  CountedOK'
  <2>1. Cardinality(ActiveConns \ {c}) = Cardinality(ActiveConns) - 1
    BY <1>1, FS_RemoveElement
  <2>2. Cardinality(ActiveConns) # 0
    BY <1>1, FS_EmptySet
  <2> QED
    BY <1>2, <1>6, <2>1, <2>2 DEF CountedOK, client_disconnected
<1> QED
  BY <1>3, <1>4, <1>5, <1>6

\* Every step preserves ClosedOK.
LEMMA ClosedStep ==
    ASSUME StopInv, ClosedOK, [Next]_vars
    PROVE  ClosedOK'
<1> USE DEF ClosedOK, MutexOK, At, Go, Inside, StopPCs
<1>0. MutexOK /\ (pc["main"] = "close_aof" => stopping_)
  BY DEF StopInv, DrainOK
<1>1. CASE UNCHANGED <<pc, connection_threads_, listen_fd_, aof_open, stopping_>>
  BY <1>1
<1>2. CASE Recover \/ Open \/ SetupSocket \/ Serve \/ StartTtl \/ SpawnTtl
  BY <1>0, <1>2 DEF Recover, Open, SetupSocket, Serve, StartTtl, SpawnTtl
<1>3. CASE Loop \/ Accept \/ AcceptFails \/ \E c \in Conns : Register(c)
  <2>1. PICK to \in {"loop", "accept", "register", "lock"} : pc' = [pc EXCEPT !["main"] = to]
    BY <1>3, Zenon DEF Loop, Accept, AcceptFails, Register, Enter
  <2> QED
    BY <1>0, <2>1
<1>4. CASE Wake \/ JoinSignal \/ Destroy \/ SigWait
  BY <1>0, <1>4, SMTT(30) DEF Wake, JoinSignal, Destroy, SigWait
<1>5. ASSUME NEW p \in Callers, Stop(p)
      PROVE  ClosedOK'
  <2>1. CASE LockStop(p) \/ CloseListener(p) \/ ShutdownClients(p) \/ StopTtl(p) \/ JoinTtl(p)
    BY <1>0, <2>1 DEF LockStop, CloseListener, ShutdownClients, StopTtl, JoinTtl
  <2>2. CASE SwapThreads(p) \/ JoinConnections(p)
    BY <1>0, <2>2, SMTT(30) DEF SwapThreads, JoinConnections
  <2>3. CASE StopPool(p) \/ JoinWorkers(p) \/ CloseAof(p)
    BY <1>0, <2>3, SMTT(30) DEF StopPool, JoinWorkers, CloseAof
  <2> QED
    BY <1>5, <2>1, <2>2, <2>3 DEF Stop
<1>6. CASE Signal \/ TtlEnds
  BY <1>6 DEF Signal, TtlEnds
<1> QED
  BY <1>1, <1>2, <1>3, <1>4, <1>5, <1>6, ReadersApart, WorkersApart, Zenon
     DEF Next, Main, Start, SignalThread, vars

\* The inductive invariant of EndsCleanly.
EndInv == ServingInv /\ TtlInv /\ CountedOK /\ ClosedOK

\* Once the process is at its end nothing is left.
LEMMA NothingLeft ==
    ASSUME EndInv, outcome = "exited"
    PROVE  /\ \A c \in Accepted : conn[c].pc = "gone" /\ conn[c].sock = "closed"
           /\ left = WorkerThreads
           /\ ttl.thread \in {"none", "done"}
           /\ ~listen_fd_ /\ ~aof_open
           /\ client_fds_ = {} /\ connection_threads_ = {} /\ connected_clients_ = 0
<1>1. pc["main"] = "done" /\ pc["signal"] = "done"
  BY DEF EndInv, TtlInv, DestroyOK
<1>2. connection_threads_ = {} /\ ~listen_fd_ /\ ~aof_open /\ stopping_
  BY <1>1 DEF EndInv, ClosedOK
<1>3. left = WorkerThreads
  BY <1>1, <1>2 DEF EndInv, ServingInv, StopInv, DrainOK
<1>4. ActiveConns = {} /\ \A c \in Conns : conn[c].pc # "accepted"
  BY <1>1, <1>2 DEF EndInv, ServingInv, ClientsOK, JoinableOK
<1>5. \A c \in Accepted : conn[c].pc = "gone" /\ conn[c].sock = "closed"
  <2> TAKE c \in Accepted
  <2>1. c \in Conns /\ conn[c] \in AnyReader /\ conn[c].pc # "none"
    BY Zenon DEF Accepted, EndInv, ServingInv, OrderInv, ReadersOK, ReaderOK
  <2>2. conn[c].pc \notin ActivePCs
    BY <1>4, <2>1 DEF ActiveConns
  <2>3. conn[c].pc = "gone"
    BY <1>4, <2>1, <2>2 DEF ActivePCs, AnyReader
  <2> QED
    BY <2>1, <2>3 DEF EndInv, ServingInv, ClientsOK, SocketsOK
<1>6. ttl.thread \in {"none", "done"}
  BY DEF EndInv, TtlInv, TtlOK
<1>7. client_fds_ = {}
  BY <1>4 DEF EndInv, ServingInv, ClientsOK, ListedOK
<1>8. connected_clients_ = 0
  BY <1>4, FS_EmptySet DEF EndInv, CountedOK
<1> QED
  BY <1>2, <1>3, <1>5, <1>6, <1>7, <1>8

\* A process that ends by itself leaves nothing behind: Server::stop joins
\* every reader, worker and the TTL thread and closes every socket and file,
\* and the client count is back at 0, however the calls of stop() by main, by
\* the signal thread and by ~Server fall.
THEOREM EndsCleanly == Spec => []EndsClean
<1>1. Init => EndInv
  <2> SUFFICES ASSUME Init PROVE EndInv
    OBVIOUS
  <2>1. ActiveConns = {}
    BY Zenon DEF Init, ActiveConns, ActivePCs, NoReader
  <2>2. CountedOK
    BY <2>1, FS_EmptySet DEF Init, CountedOK
  <2>3. ClosedOK
    BY Zenon DEF Init, ClosedOK, Inside, StopPCs
  <2> QED
    BY <2>2, <2>3, ServingInit, TtlInit DEF EndInv
<1>2. EndInv /\ [Next]_vars => EndInv'
  BY ServingStep, DestroyStep, TtlStep, CountStep, ClosedStep DEF EndInv, ServingInv, StopInv, TtlInv
<1>3. EndInv => EndsClean
  BY NothingLeft DEF EndsClean
<1> QED
  BY <1>1, <1>2, <1>3, PTL DEF Spec
=============================================================================
