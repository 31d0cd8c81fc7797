# ByteCacheDB: a TLA+ model of the server, its store and its durability

ByteCacheDB is an in-memory key-value server with TTLs, an LRU limit, an
append-only file (AOF) and snapshots. This directory holds TLA+ modules for its
concurrent core, its persistence, its threads from start to stop, and the text of
commands and records; TLC configurations that check them on small instances; and
TLAPS proofs, for every size, of the central invariants and of the refinement.
File names and line numbers are those of the repository, whose root is `src/`.

## 1. Inventory

| Part | State | Operations that change it | Interacts with |
| --- | --- | --- | --- |
| Storage engine (`src/storage_engine.cpp`) | shards of entries, each with a `shared_mutex`; atomics `total_keys_`, `access_sequence_`; `eviction_mutex_`, `pending_evicted_keys_` | set, mset, get, mget, del, expire_at, ttl, persist, increment, append, flush, cleanup_expired, take_evicted_keys, enforce_max_keys; snapshot_entries (reads) | all workers, the TTL thread, recovery |
| Append-only file (`src/persistence.cpp`) | the file, `dirty_`, `sequence_`, the snapshot file, the sync thread | open, append, sync_loop, save_snapshot, recover, close | workers, the server's start and stop, the disk |
| Command execution (`src/client_handler.cpp`) | `write_path_mutex_`; the command in it | execute_ordered, persist_if_needed; the connection loop `handle` | storage, AOF, thread pool, sockets |
| TTL sweeper (`src/ttl_manager.cpp`) | `running_`, its thread | start, run, stop | storage, the server's start and stop |
| Server (`src/server.cpp`, `src/main.cpp`) | `running_`, listening socket, `client_fds_`, `connection_threads_` | start, accept, stop, the signal thread | everything |
| Thread pool (`src/thread_pool.cpp`) | task queue, `stopping_`, workers | enqueue, worker_loop, shutdown | connection threads |
| Command parser, quoting (`src/command_parser.cpp`, `quote` in `src/persistence.cpp`) | none | pure | AOF, connections |
| Responses, metrics | none; statistics counters | formatting; counting | replies, INFO |

What is hard here:

* a call of the engine takes several locks and updates the key count outside
  them; sweeps and evictions visit shards one at a time;
* an eviction chooses its victim under locks it has released when it erases it;
* recovery runs commands of the past at the time of the restart, when their
  expiries may have gone by;
* a write may fail half-way, an fsync may fail, a crash may come between a
  record and those that belong with it, and a server may run for a while
  without AOF;
* start, stop and signals race with each other and with connections;
* the socket of a connection is known to stop() by its number only, and numbers
  are used again;
* a record is a line of text whose parser must tell a cut record from a whole one,
  also when the next record was written behind it on the same line.

The properties to state for each part, by the hazards in `PROJECT.json`:
exactness of the count, atomicity, LRU choice, the limit and progress for the
engine; restart equivalence, fsync before reply, separation by sequence and
eventual sync for the AOF; a reply to every request in order, and a clean end
after stop, for connections and server; inverse quoting for the codec.

## 2. Parts of the project

| Modules | About | Checked by |
| --- | --- | --- |
| `StorageEngine`, `MCStorageEngine` | the engine, cut at its locks and atomics | TLC, proofs |
| `KVStore`, `StorageEngineRefinement` | the atomic map it implements | TLC, proofs |
| `StorageEngineProofs`, `StorageCountProofs`, `StorageLruProofs`, `StorageLimitProofs` | types, count and aborts, LRU, the limit | TLAPS |
| `StorageRefinementProofs` | the refinement of `KVStore` | TLAPS |
| `AppendOnlyFile`, `MCAppendOnlyFile` | log, snapshots, restarts, failures, expiry arithmetic | TLC, proofs |
| `AofProofs` | fsync before reply; snapshots and records told apart | TLAPS |
| `Server` | threads and sockets from start to stop, the reader loop, the pool | TLC, proofs |
| `ServerProofs`, `ServerStopProofs` | order of replies; commands and the closing of the log; aborts, refusals, a clean end | TLAPS |
| `CommandText`, `MCCommandText` | lines, tokens, quoting, records and their cuts | TLC |

Still open: `DurableMap`, an abstract statement of what a client may rely on across
restarts, would have to carry the exceptions of section 4 and would say little more
than `RestartRestores` does.

## 3. Modules

### StorageEngine

All shards share one function `entries`; which keys a mutex protects is given by
`shard_index`. A public call is a request `[op, keys, args]` that a thread's
frame `th[t]` carries through these steps:

* `Call` reads the clock, as the code does before it locks;
* `Acquire` takes one mutex of the call's lock set at a time, lowest first;
* one action per operation does the work with the locks held (`Set`, `Mset`,
  `Get`, `Mget`, `Del`, `ExpireAt`, `Ttl`, `Persist`, `Increment`, `AppendTo`,
  `Flush`, `SnapshotShard`). `PurgeExpired` is the erasure of an expired entry
  before a write: the count is visibly one short until the write;
* `SweepShard` and `SweepSettle` are cleanup_expired: one lock at a time, and
  the subtraction from the count after the last lock is released;
* `EnforceCheck`, `LockEviction`, `StartScan`, `Scan`, `Evict`, `Report` and
  `LeaveEnforce` are enforce_max_keys.

`exists` and `strlen` are `get`, `keys` is `snapshot_entries`, and `size` is
`cleanup_expired`. Values are the integers of a long long and `Text`, anything
`from_chars` rejects; the suffixes APPEND gets here are texts. `total_keys_`
wraps at `SizeMax`. Two histories are kept: `drift`, what sweeps in progress
still had to subtract when FLUSH zeroed the count, and `started`, the access
sequence when a search for a victim began.

### KVStore and StorageEngineRefinement

`KVStore` is a map with atomic operations. In the mapping, MSET and SET take
effect when they hold their last lock, because nobody else can look at their
keys from then on. `Remove` stands for DEL and for evictions, so a single key may
vanish at any time; several keys vanish together only by FLUSH or expiry.

### AppendOnlyFile

Storage calls are atomic values of type `[map, order]`, where `order` lists the
keys by last access. `Apply` is what a command does to it, and recovery uses the
same operator as execution, as the code does. `Execute`, `AppendRecord`, `SyncRecord`
and `Reply` are the steps of one mutation under `write_path_mutex_`; readers, the sweeper
and the sync thread run between them. `Save` is save_snapshot, `Start` is recover and open,
`Stop` is the drained shutdown. `Crash` is external: it loses any suffix of the
lines not synced, and may bring back a snapshot whose rename was not durable.

Time is counted in ticks finer than the logged millisecond. A time_point has
`ClockBits` bits: the sums of EXPIRE and of from_epoch_millis wrap, as they do in
the compiled code (the overflow is undefined in the language). `TtlReply` is ttl():
milliseconds rounded down, then seconds rounded up, and -2 in a key's last
millisecond.

The file is a sequence of lines, and a line is text: the digits it begins with, the
tab, and the pieces of the command (a name, spaces, an opening quote with the argument
behind it, a closing quote), as large as no cut can tell apart. `Record` is the text of
append_line; `Sequence` and `ParsedCommand` read a line back as parse_sequence_prefix
and parse do. With `DiskMayFail` a write stores nothing of a record or any part of it
(`Torn`: cut in the number, behind it, between two tokens, inside an argument, or just
before the newline), an fsync fails, and a crash keeps such a part of the first line it
loses. A line without its newline (`whole` false) is continued by the next record
(`Written`): digits behind digits make another number, and a number or a name may become
an argument. `Stray` stands for every key that can come about in this way only. Two
things of the text are left to `CommandText`: a quote inside an argument, and a cut in
the middle of a name, which leaves no command whatever follows.

Each record carries with its digits when it was written (`stamp`), and a snapshot which
records its number stands for (`covers`): all that were written before, or, with AOF off,
those of the snapshot before it. This is history: it tells records apart when numbers
have been cut, joined or given twice.

### Server

Threads are program counters: `pc["main"]` runs start(), stop() and the end of
main(), `pc["signal"]` waits for the signal and runs stop(); each connection has a
record with the place of its reader in handle(), its socket and the socket's
number. A step ends where another thread can see the difference: at a mutex, at an
atomic or at a blocking call. The code that runs under `clients_mutex_` (`Register`,
`ShutdownClients`, `SwapThreads`, `EraseClient`) is one step each, and so is what
the pool does under its mutex (`Submit` or `Refuse`, `TakeTask`, `LeavePool`,
`StopPool`). `Accept` gives a connection the lowest free number, as the system does;
`CloseSocket` frees it before `EraseClient` takes it out of `client_fds_`.

`ClientSends`, `HangUp` and `Signal` are external. A socket is open, shut down by
stop(), hung up by its client, or closed; a send fails on one that was shut down and
may fail on one that was hung up. A request is a line with a number, and a worker
that finishes it fulfils the promise with that number. `RejectLine` answers a line that
is too large or does not parse, and the reader goes on; `Oversized` answers what has come
of a line that is too large before its end, and the reader leaves. Two histories are kept:
`early`, stop() was inside its mutex before start() set `running_`, and `raced`,
stop() found no TTL thread although start() was about to create it.

### CommandText

A text is a sequence of characters; the name of a command counts as one. `Recv`
takes any piece of the client's stream, `HandleLine` cuts one line off the buffer,
answers it with what parse() returns, and appends the record of a logged command to
`file`. `tokenize` is the state machine of the code, folded over the line; `quote`,
`serialize` and `Record` are what append_line writes, and `ReadBack` is how
replay_after reads it, including its rule for lines without a sequence. Numbering
starts behind 9 in the run, so that sequences of two digits are cut between them.

Definitions whose comment begins with "Slip" are plausible mistakes in the code
next to them. They take no part in the specifications; replacing the definition
after them by one shows that the properties notice.

## 4. Runs

| Run | Checks | Instance |
| --- | --- | --- |
| `storage_map` | `KeyCount`, `AbortsOnlyAfterDrift`, `ImplementsKVStore` | all operations on 2 keys in 2 shards, 2 threads (interchangeable: `SYMMETRY`), 5 calls, one tick |
| `storage_eviction` | `TypeOK`, `KeyCount`, `EvictsOldest`, `WithinLimit`, and `CallsReturn` under `FairSpec` | 3 keys, limit 1, 4 calls, one tick |
| `aof_restart` | `TypeOK`, `RestartRestoresUnedited`, `TtlAcrossRestart` | `everysec`, expiries of 1, 2 and 8 seconds, 4 ticks of half a millisecond, seconds of two milliseconds, a 6-bit clock, 4 commands, 1 restart |
| `aof_faults` | `AckedOnDisk`, `Separated` | `always`, failing disk, records cut anywhere, AOF on or off at each start, 3 commands, 2 restarts |
| `aof_victims` | `RestartRestores`, and `EventuallySynced` under `FairSpec` | `everysec`, 3 keys, limit 2, reads, AOF on or off, 5 commands, no restart |
| `server` | `TypeOK`, `RepliesInOrder`, `RefusedOnlyEarly`, `ExecutesWhileOpen`, `EndsClean`, `AbortsOnlyAfterRace`, and `RequestsAnswered`, `SignalEnds` under `FairSpec` | 2 connections, 2 lines, 2 workers, one signal |
| `text` | `TypeOK`, `RepliesMatchLines`, `LogReadsBack`, `CutInventsNothing`, `JoinedReads` | the streams of `MCCommandText`, every way to cut them, lines of 10 characters at most |

Two threads are enough for each race the engine has between a pair of calls, and
two shards for locks taken in order, sweeps and searches interrupted half-way.
Five calls reach the longest race: insert, expire, sweep, flush and snapshot.
Three keys with limit 1 make two inserters enforce at once. Four commands and a
restart reach a snapshot between records, its loss, and the restarted server. Three
commands let a record be cut, a snapshot be saved and another record join the line; the
second restart of `aof_faults` lets AOF be off in between. `SizeMax` 15, `MaxLongLong`
1 or 7 and the 6-bit clock make the arithmetic reach its ends: EXPIRE with 8 seconds
and EXPIREAT at millisecond 18 wrap. Two connections are what it takes for a number to
be used again while its last owner has yet to leave, and two lines for pipelining; a
third connection or line repeats those cases. The streams of `text` hold each
escaped character, quotes opened and not closed, and pairs of records after which a
cut can matter.

`RestartRestores` is evaluated in every state in which no mutation is under way,
as a restart at that moment would be; the restarts in the runs then check that the
promise holds again for the server that came back. `aof_victims` has none, because
a crash in the middle of an eviction breaks the promise (`aof_eviction` below).

What some of the passing runs show is an exception as much as a rule:

* a client is told "server is shutting down" only if stop() had begun before start()
  set `running_` (`RefusedOnlyEarly`). In that case the server may go on to serve with
  its pool stopped, and no later signal ends it (`SignalEnds` excludes it as `early`);
* the process aborts in its destructors only if a stop() came between the flag and the
  thread of TtlManager::start (`AbortsOnlyAfterRace`);
* a SAVE in a run without AOF has not looked at the file, and publishes its data under the
  number of the snapshot before it (`Separated`). The next run with AOF replays the records
  behind that one over newer data, where README.md:118 says that recovery "only replays
  newer AOF records";
* `Separated` leaves out lines that begin with a number that was cut or continued: such a
  number can be larger than those of snapshots that hold the record;
* a crash that cuts an MSET between two pairs leaves an MSET of fewer pairs, which
  recovery applies. This is the only command a cut at the end of the file can make
  (`CutInventsNothing`);
* with another record behind it, a cut one reads in more ways (`JoinedReads`). A cut in
  the number gives the next command a number nobody gave it. A cut between tokens, or
  before the newline, gives the cut command the number, the name and the arguments of the
  next as its own: `1<tab>SET ` and `2<tab>FLUSH` make a SET of the key `2`. A cut inside
  an argument makes the line unreadable, unless the next record has a quote in its
  arguments, which the property leaves out;
* a restart may lower a TTL by one second, its last one to -2 (`TtlAcrossRestart`), for
  keys whose expiry was not edited: for the others it may be lengthened (`aof_extend`).

And some say less than their subject may suggest:

* `ImplementsKVStore` says that each step takes a value one step on, not whose call a
  step belongs to: the map does not count calls;
* `EvictsOldest` compares stamps as the search saw them. A victim that is read or written
  again before it is erased is erased all the same;
* `RestartRestoresUnedited` compares expiries in whole milliseconds: a key in the last
  fraction of its last millisecond may be gone after a restart;
* `RefusedOnlyEarly` and `SignalEnds` bound what an early signal and a number used again
  can do, and exempt them; `server_idle` shows the second;
* `EventuallySynced` is about a server that stays up. `dirty_` is lost with a process that
  is killed, and what it had written then waits for the operating system or the next record.

Fairness. `FairSpec` of `StorageEngine` asks that a thread that can go on does so
(the operating system schedules every thread, and a mutex its holder releases is
handed on); weak fairness is enough because the number of calls is bounded.
`FairSpec` of `AppendOnlyFile` asks only that sync_loop's timed wait ends and its
fsync succeeds. `FairSpec` of `Server` asks the same of its threads as that of the
engine: readers, workers, main, the signal thread, and the TTL thread, whose wait is
timed. Nothing is asked of clients, who may be silent or never read a reply, and
accept need not return unless the listener is closed.

### Where code and documents disagree

Five runs are expected to end in a violation. Each is a behaviour of the code
that a sentence of the documentation excludes.

* `storage_count_drift`: FLUSH between a sweep's erasures and its subtraction
  leaves `total_keys_` wrong, possibly wrapped, until the next FLUSH; a wrapped count
  makes the next KEYS or SAVE throw out of a worker thread.
* `aof_extend`: replay of SET, EXPIRE, INCR after the expiry creates the key anew, without
  an expiry, where clients were told that it was gone: EXPIREAT erases it before INCR is
  reached. For the same reason a PERSIST in place of the INCR finds nothing to keep, and
  a key that clients were promised is lost.
* `aof_eviction`: what recovery evicts at its end is not logged, so the restart
  after the next does not reproduce it.
* `aof_torn`: a cut record and the acknowledged one written after it become one
  line, and a snapshot taken between the two makes recovery skip it.
* `server_idle`: a connection whose number another one had before it can be missing
  from `client_fds_`; stop() then waits for it until its client hangs up.

`RestartRestoresUnedited` is the part of restart equivalence that survives
`aof_extend`: `Edited` says which keys are affected. The other passing
runs stay clear of `aof_eviction` and of the faults of the disk by their constants: no
limit together with restarts, and no claim on the restored data when the disk fails.
`SignalEnds` names the last one as `Unlisted`.

## 5. Proofs

For any finite sets of keys and threads, any shards and limits, and any
well-formed requests, from the assumptions in `StorageEngine` (a size_t counts
every key once per thread and once more; the special values are distinct):

* `TypeCorrect`: `Spec => []TypeOK`. Types alone are not inductive: `Inv` adds
  `CallOK`, what each program counter says of a frame (a working call is at one
  of its keys, only sweeps have erased keys to subtract, a victim to be reported is a key).
* `KeyCountCorrect`: `Spec => []KeyCount`. The invariant `CountInv` adds a bound
  on `drift`. A lemma per kind of step shows that entries, debts and count move
  together: storing, erasing, flushing, sweeping a shard, settling.
* `NoAbortWithoutDrift`: `Spec => []AbortsOnlyAfterDrift`, since without drift
  the count is at most the keys and the debts.
* `EvictsOldestCorrect`: `Spec => []EvictsOldest`. While the search runs, `ScanOK`
  says that every key in the shards already visited is no older than the victim or
  was stamped after the search began; `StampStep` says that a step leaves a
  key's stamp alone or gives it one beyond `access_sequence_`.
* `LimitRestored`: `Spec => []WithinLimit`. `LimitInv` says that while the store is
  crowded some thread is watching it: one that has inserted and not yet entered
  enforce_max_keys (`Obliged`), or one inside it (`Enforcing`). The hard case is a
  search that ends without a victim and gives up although the store is crowded:
  whatever lies in the shards it had passed was inserted since, and the inserter still
  has to take `eviction_mutex_` (`Overtaken` in `Watched`). The proof rests on
  `CountInv` (what size_t says is what is stored) and `LruInv`.
* `EngineImplementsMap`: `Spec => ImplementsKVStore`, the refinement. `MapInv` says
  which mutexes a call holds at each place, that only snapshots share one
  (`Exclusive`), and what a snapshot has collected from the shards it has left
  (`Collected`). A call changes a key only with the mutex of its shard held, so nobody else is
  about to write that key (`NoOtherWriter`) and what the map holds under it is what is
  stored. The last `Acquire` of SET or MSET maps to `Write`, and the pairs'
  own steps, and the erasure of an expired entry before them, change nothing in the
  map; an erasure maps to `Remove`, a sweep of a shard to `Lapse`, FLUSH to `Clear`,
  the last shard of a snapshot to `Capture`, and everything else stutters or changes
  its one key.

For any commands, limits, widths and numbers of restarts, from the assumptions in
`AppendOnlyFile`:

* `AcknowledgedIsDurable`: `Spec => []AckedOnDisk`. A torn line that the next record
  joins would take a line away from the synced part, so `AckInv` also says that only the
  last line can be torn and that it is then not acknowledged, and that a command
  about to be answered without an error has all its lines synced. Only `always` needs an
  argument; under the other policies the property claims nothing.
* `SnapshotsSeparate`: `Spec => []Separated`. `SepInv` looks at the numbers with which
  lines begin, as long as they are whole (`Heads`): a snapshot's number lies between
  those of the records before and after it (`HeadsOK`), none is beyond `sequence_` while the server runs with AOF on,
  `sequence_` is the snapshot's number while it runs with AOF off, and the current snapshot is not below the older ones a crash may bring back, nor beyond
  `sequence_`. A cut or a continued line keeps its head or loses it, so nothing has to be
  known of the text behind it (`TornHead`, `WrittenHeads`). Recovery must go on from the
  largest number of the file and the snapshot: `StartNumbers` is the step that needs it.

For any number of workers, connections and lines, from the assumptions in `Server`:

* `RepliesCorrect`: `Spec => []RepliesInOrder`. `OrderInv` relates each reader to the pool:
  the replies sent are the lines before the one being answered, and a task in the
  queue or with a worker is the line its reader waits for, which has no result yet.
* `LogOutlivesCommands`: `Spec => []ExecutesWhileOpen`. `StopInv` says that one thread at a
  time is inside stop(), that a worker has returned only from a queue drained for
  good, that whoever set `stopping_` has joined the workers or still does (a second
  stop() skips the join and relies on it), and that while the log is closed either
  the pool has stopped or start() has not reached its socket.
* `AbortNeedsRace`: `Spec => []AbortsOnlyAfterRace`. A TTL thread that may still be joinable
  is flagged as running, so that the next stop() joins it, or is being joined, or
  was missed by a stop() that raced with its start (`TtlOK`).
* `RefusalNeedsEarlyStop`: `Spec => []RefusedOnlyEarly`. No reader is forgotten: those that
  run are in `connection_threads_` or being joined (`JoinableOK`), and unless stop()
  began before `running_` was set, nobody registers once it has begun, so that none is
  left when it stops the workers (`RunOK`).
* `EndsCleanly`: `Spec => []EndsClean`. `EndInv` adds that every listed number belongs to
  a reader that will erase it (`ListedOK`), that the count of clients is the number of
  those readers, and that what main's stop() has closed stays closed (`ClosedOK`).

Only model-checked, because the proof needs an induction over data that the proof
system does not offer here:

* `RestartRestores`, `RestartRestoresUnedited` and `TtlAcrossRestart` of `AppendOnlyFile`,
  and its `TypeOK`: they speak of what a fold of `Apply` over the records computes;
* `TypeOK` of `Server`: the bound on lines is on their sum over the connections. What
  the proofs need of the types is part of their invariants;
* everything about `CommandText`: its tokenizer and its texts are folds.

The liveness properties `CallsReturn`, `EventuallySynced`, `RequestsAnswered` and `SignalEnds`
are model-checked too: fairness is beyond the prover.

## 6. Not modelled

* The wording of replies and errors, and INFO: formatting only.
* Statistics (the other counters of `metrics.cpp`, `evicted_keys_`,
  `expired_keys_removed_`, `memory_estimate_bytes`): nothing depends on them.
* The text of snapshot files: they appear whole behind a rename.
* `set_max_keys` and `AppendOnlyFile::replay`: nothing in the server calls them.
* The command line in `main.cpp`.
* A system clock that is set back.
* A command thrown out of by the storage engine (a wrapped count) inside `Server`: it ends
  the process, see `AbortsOnlyAfterDrift`.
* A failure to open or create files beyond its effect on start(): a failed SAVE leaves
  the old snapshot.
