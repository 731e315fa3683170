# TulparLang: verification project

TLA+ models of TulparLang's runtime, web server loops and command-line tools, the
TLC runs that check them on small instances, and TLAPS proofs that carry the most
important results to every instance. Every definition is translated from the
source; `PROJECT.json` maps each one to its lines.

TulparLang is a compiled language: a front end (lexer, parser, type inference),
an LLVM back end that emits native code, a runtime that this code calls, standard
libraries written in the language itself, and a command-line tool with a package
manager, an updater and a debug adapter. The emitted code is sequential; what is
hard is in the runtime and around it: stackful coroutines on one event loop,
threads that share connections and tables with little or no locking, memory that
is rewound under a running program, exceptions built on `setjmp` that follow the
coroutine switches, and tools that must leave files consistent however they end.

## Inventory

### Modelled

**Async event loop** (`src/runtime/tulpar_async.cpp`). State: the ready queue
`g_ready`, the timers, the polled I/O sources, the running coroutine `g_current`;
per promise a state, a value and a waiter list; per coroutine a stack and a handler
context. Operations: `aot_async_spawn`, `aot_gather`, `aot_sleep_async`,
`aot_await`, `aot_promise_settle`, `resume`, `loop_step` and
`aot_event_loop_run`, which the back end emits at the end of main. It drives the
worker pool through the poll callback of a request and swaps the handler context
of the exception runtime around every slice. Hard: the order in which promises
settle and coroutines wake, awaits nested in gathers, throws across suspension
points, a main-thread await that pumps the same loop as the drain, timers that are
late, I/O that is polled. Correct means: no coroutine lost or queued twice, throws
stay on their stack, gather keeps argument order, no timer is early, the drain
leaves nothing runnable behind, and the loop ends.

**Async HTTP worker pool** (`src/src/vm/runtime_bindings.cpp`, 3737-3834). State:
a mutex-guarded queue of jobs, 1 to 64 detached threads, per job a result and one
atomic flag. Operations: submit, take, request, publish, poll. Hard: the loop reads
the result and deletes the job with no lock, on the strength of the flag alone.
Correct means: no thread touches a deleted job, no job is lost or taken twice, a
raised flag means a written result.

**Exception runtime and try/catch code generation**
(`runtime_bindings.cpp` 3292-3390, `src/src/aot/llvm_backend.cpp` 6710-7003).
State: per stack an array of `jmp_buf` with a depth. Operations: push, pop, throw,
and the jumps the back end emits for try, catch, finally, return, break, continue.
The runtime knows only the handlers; the program knows only its nesting. Correct
means that the two agree at every point.

**Arena and regions** (`runtime_bindings.cpp` 285-660). State, per thread: a chain
of blocks with a bump offset each, a stack of up to 32 checkpoints, the containers
tracked since the first of them. Operations: allocate, save, restore, drop, a
literal, a container that a builtin makes in the arena itself, a store with its
write barrier. Hard: blocks are taken over after a
rewind, bigger ones are spliced in between, and the barrier decides from two set
lookups whether a raw pointer may be stored. Correct means: live strings never
overlap, and what outlives every scope never refers to dead memory.

**Dynamic call cache** (`runtime_bindings.cpp` 90-264). State: a table of 256
slots shared by all threads, and a mutex. Operations: lookup, `dlsym`, insert,
dispatch. Hard: a lookup takes no lock beside a locked insert. Correct means that
the cache cannot be seen: `call(name)` runs the function of that name.

**Database registry** (`runtime_bindings.cpp` 7250-7830). State: descriptors that
are never removed, each with a `closed` flag, a shared connection or a list of the
connections of every thread; per thread a slot for each descriptor and a cache of
prepared statements keyed by the address of their connection. Operations:
`db_open`, `db_execute`, `db_query`, their parameter forms,
`db_last_insert_id`, `db_close`, the end of a thread. Hard: a call resolves its
connection in several steps, another thread closes the database in between, and
SQLite hands out a freed address again. Correct means: a call works on an open
connection of its own database, a cached statement belongs to the connection at
its address, and a close leaves nothing behind.

**Wings** (`src/lib/wings.tpr`), the HTTP framework. Its serve loops
(`_wings_serve_connection` of the pooled and the threaded listener, the ticks of
`listen_evented`, `listen`) are users of the arena: each request is a scope, and
whichever way a request leaves the loop the scope must be closed. Under them is
`http_recv_request` (`runtime_bindings.cpp` 5730-5880), which cuts a keep-alive
connection's bytes into requests. Hard: handlers that leave scopes open, early exits
of the loop; a blank line cut anywhere, a body beyond the buffer, bytes of the next
request, a length that is no longer an int. Correct means: a server that runs for
ever holds nothing of the requests it served, each call returns exactly one request,
and server and client never wait for each other.

**Package manager** (`src/src/pkg/`). State: `tulpar.toml`, `tulpar.lock`, the
files under `tulpar_modules`. Operations: `install`, `add`, `remove`; `search`,
`info`, `publish`, `init` keep no state beyond one request or file. It talks to a
registry over HTTP. Hard: packages are written before the lockfile, any step may
fail or die, and the next install starts from what is left while registry,
manifest and files have changed. Correct means: what a success reports is on disk,
a pin is never silently replaced, a refusal means tampering, and a range picks the
version semver says.

**Self-update** (`src/src/cli/update_cmd.cpp`). State: the installed files, their
modes, a staging directory named after the release. Operations: start, download,
verify, rename, chmod for each file in turn; without a manifest, the install script
instead. Hard: a death between any two of these, two runs in one staging directory,
and a manifest that cannot be had. Correct means: what is installed is whole and
verified, and a compiler that can be run remains.

**Debug adapter** (`src/src/cli/debug_cmd.cpp`). State: the gdb subprocess and its
pipes, a token counter, a map of results, a reader thread. Operations: launch,
query with a timeout, stepping command, stop, restart, end. Hard: answers that
arrive after their query gave up, a gdb that ends on its own, a reader that is
joined while it blocks. Correct means: a query gets the answer to itself, a stop
leaves nothing running, every request ends, and a stopped program is reported.

### Not modelled

| component | why | what would make it correct |
|---|---|---|
| Reference counting (`src/runtime/tulpar_arc.cpp`) | planned: counts of heap values, cascading release, atomic and plain counts | freed exactly when unreachable |
| The rest of Wings | routing, middleware and response caching choose a response from one request; TLS and streaming are wrappers of sockets | each is a function of its input |
| Arena: `aot_arena_reset`, `aot_arena_destroy`, the barrier on keys, the deep copy of `aot_persist` | the first two end every scope at once; the others copy values whose shape the model has no use for | a copy shares nothing with its original |
| Self-update: the Windows replacement | another system's rename | as modelled |
| Debug adapter: breakpoint and variable tables, logpoints, the Windows pipes | tables are rewritten whole by one request; no stop record reaches the logpoint thread (disagreement 8) | as modelled |

Left out altogether: lexer, parser, type inference and formatter are pure functions
of unbounded text and trees; the rest of the LLVM back end is code generation
without a protocol; the bytecode VM is a sequential interpreter; the language
server handles one request at a time and replaces documents whole; the line editor
is an interactive front end; the thread and mutex builtins are thin wrappers (what
they allow to race is listed under `hazards`); `orm.tpr` and `async.tpr` format
strings over builtins. SQLite, cJSON, the installer, the playground and the
benchmarks are third-party, packaging or measurement code.

## Modules

| module | models | extends / uses |
|---|---|---|
| `Futures` | what `async` and `await` promise, abstractly | |
| `HttpPool` | the worker pool | |
| `AsyncLoop` | event loop, coroutines, promises, timers, requests, handler contexts | extends `HttpPool`, implements `Futures` |
| `TryCatch` | emitted code of try, catch, finally against the handler stack | |
| `DynamicCall` | what `call(name)` promises, abstractly | |
| `CallCache` | the cache of `dlsym` results | implements `DynamicCall` |
| `DbRegistry` | connections, slots and statement caches | |
| `Arena` | blocks, checkpoints, region, containers in and outside the arena, write barrier | |
| `WingsServe` | the three serve loops | extends `Arena` |
| `HttpRecv` | framing of requests on a connection | |
| `SemVer` | the comparison and range functions, and beside them semver's own definitions | |
| `PickBest` | `pick_best_match` | extends `SemVer` |
| `PkgInstall` | `cmd_install` over and over in a changing environment | uses what `PickBest` shows |
| `SelfUpdate` | `tulpar update`, and what the install script may do | |
| `DapAdapter` | `tulpar debug` beside its reader thread and gdb | |
| `MCParts` | the eight modules that share no state with the loop, one at a time | extends them |
| `MCPkgInstall` | installs, and beside them the choice from a range | extends `PkgInstall`, `PickBest` |
| other `MC...` | values of constants for TLC | |
| `..._proofs` | theorems and their lemmas; `AsyncLoop_proofs` is also about `HttpPool`, `Runtime_proofs` about `CallCache`, `Arena`, `WingsServe` and `HttpRecv`, `Parts_proofs` about `SelfUpdate`, `DapAdapter` and `MCParts` (it extends `TryCatch_proofs` for part "try") | extend their modules |

### HttpPool

`queue` is `g_http_pool_queue`; `holds[w]` and `wpc[w]` are a worker's local `job`
and its place in `http_pool_worker`; `outcome`, `done` and `alloc` are a job's
result fields, its atomic flag and its allocation. `WorkerTake` is the critical
section, `WorkerRequest` the blocking call with the write of the result,
`WorkerPublish` the release store. `PoolSubmit` is the locked push, `PoolCollect`
the read and `delete` of the poll callback. Texts are abstracted to `ok` or `err`.

### AsyncLoop

A promise is the number of its creation and a coroutine is named by the promise it
settles, main by 0. The event-loop thread is at `pc`: in user code, registering a
request that the workers may already run, polling sources, choosing what to run,
firing timers, or gone. User code is arbitrary: every action of `UserStep` is
enabled wherever the code could call that builtin, on main and in each coroutine.
`aot_await` is five actions, because state can change between its entry, its
suspension and its resumption: `Await`, `AwaitYield` (a coroutine registers and
yields), `AwaitPump` (main runs the loop), `AwaitReturn`, `AwaitThrow`.
`gather_body` is `GatherNext` and `GatherReturn` on its own coroutine. `loop_step`
is `PollPending`, `PollFinished`, `PollEnd`, then one of `Resume`,
`DispatchIoDone`, `DispatchTimers` with `FireTimer`, `DispatchIoWait`,
`DispatchNothing`, in the order of the code's tests. Time is an integer in units of
`kIoPollMs`; `Tick` lets it pass while code runs and a sleep may last longer than
asked, so timers can be late by any amount. Values are tokens that name their
producer; reference counts are left out. A full handler stack is `TryCatch`'s
subject, so `TryEnter` has room.

### TryCatch

`ehChain` is what the program is inside of, outermost first, across all calls:
`call`, `loop`, `try`, `catch`, `finally`. `ehHandlers` is the runtime's stack.
`EnterTry`, `EndTry` and `Throw` change both; `TryReturn` and `LoopJump` change only
`ehChain`, because the back end emits no `aot_try_pop` on those paths. A throw to a
handler whose try is no longer active is undefined behaviour in the program and
ends the run as `stray`; `setjmp` on a null buffer when the stack is full ends it
as `overflow`. `EarlyExit` says whether programs may leave a try block by `return`,
`break` or `continue`.

### DynamicCall, CallCache

`ccReq` and `ccRun` are the name a caller asked for and the function it was given;
`DynamicCall` has nothing else, and its `Resolve` gives each name its function.
`CallCache` adds the table (`ccKey`, `ccMeta` for the length and hash, `ccPtr`),
the mutex and each caller's place. The lookup is `CacheMiss`, `CacheHit` or
`CacheProbe` on one slot at a time; then `CacheResolve` or `CacheNotFound`,
`CacheLock`, and under the lock `CacheRecheck`, `CacheInsertProbe`, `CacheFill`
(every field but the key), `CacheNoMemory`, `CachePublish` (the key), `CacheFull`.
The two entry points of the code differ only in the call's arguments.

### DbRegistry

A connection is its address (`DbAddrs`), so that a freed one can come back.
`dbOpened`, `dbCloser`, `dbConns`, `dbShared` are the descriptors; `dbTls` and
`dbCache` are a thread's slots and statements; `dbSt`, `dbOf`, `dbIns` say what
SQLite has at an address. `db_resolve` is `DbCheck` (the `closed` test),
`DbLookupShared` or `DbLookupSlot`, `DbLookupOpen` and `DbPush` (under
`conns_mu`), and only then the use: `DbInsert`, `DbPreparedHit`, `DbPreparedMiss`
(prepare, and evict above the cap), `DbRejected`. `db_close` is `DbCloseBegin`
(the exchange and the closer's own cache), then `DbCloseFile` or `DbCloseShared`
and `DbCloseNull`. `DbThreadExit` drops a thread's slots and leaves its statements.
SQLite is external: `sqlite3_close_v2` frees, or leaves a `zombie` while statements
exist. `dbOverlap` remembers calls that a close overtook.

### Arena, WingsServe

A unit is `AOT_ARENA_ALIGNMENT` bytes. `arChain`, `arSize`, `arUsed`, `arCur` are
the blocks, `arCps` the checkpoints, `arRegion` and `arSet` the tracked containers.
`ArBump`, `ArReuse`, `ArGrow` are the three ways `aot_arena_alloc` finds room
(`Spliced` is the new block's place behind the current one);
`ArSave`, `ArRestore`, `ArDrop` the scopes. A literal is malloc'd and tracked inside
a scope (`ArNewObject`); what `csv_parse`, `regex_capture`, `keys`, the parsers and
the database give back is a container in the arena, marked `arena_allocated`, in a
scope or outside every one (`ArNewArray`, `arAt`). `ArStoreString` and
`ArStoreObject` are a store with `wb_persist_escape`: a container for which
`Transient` (`obj_is_transient`) holds takes the value raw. A container
holds one reference. `arLive` is history: the allocations no rewind has ended.
`WingsServe` adds one thread's place in its serve loop and the handles it holds;
`SrvWork` is an arbitrary handler.

### HttpRecv

The client's requests lie one behind the other on the wire, each at its offset `at`
(`Whole`, `Owner`, `Char` say whose a byte is and which), the buffer is a window of
it (`rqStart`, `rqRead`), so the model says which bytes are in the buffer instead of
copying them. A request with a body declares its length, as HTTP/1.1 has it.
`RqSend` lets bytes arrive, `RqRecv` is one `recv` of any number of them with the
scan and the tests up to the next, `RqRespond` the response after which the loop
calls again or closes. The length of a request is the sum of two ints (`IntSum`) and
wraps around above `RqIntMax`; because a signed overflow is undefined, a build may
also have dropped the later test `needed > 0`, and `Enough` allows both outcomes.

### SemVer, PickBest

`CmpSemver`, `MatchConstraints` and `MatchRange` are the functions of
`pkg_cli.cpp`. `Less` and `Within` are written from semver 2.0.0 and from the
comments on `^` and `~` (`pkg_cli.cpp:43-50`: intervals in the order of semver with
an exclusive top), not from the code. The two disagree on one thing: 2.0.0-rc is
lower than 2.0.0, so the comment's `>=1.2.3, <2.0.0` admits it for `^1.2.3`, and
`match_range`, which compares the numbers alone (277-288), refuses it.
`TopPrerelease` names exactly those versions.
`PickBest` is the loop over the registry's listing.

### PkgInstall

A body stands for bytes and their SHA-256. `manifest`, `lock`, `disk` and `served`
are the three places on disk and the registry; the rest are the locals of
`cmd_install`. Each package goes through `Skip`, or `CopyStart` and `Copy`, or
`Resolve` and then `Cached`, or `Fetch` and `Write`; `OpenLock` truncates the
lockfile and `WriteLock` writes it. `Fail` is every early return of a request,
`Die` a death at any point with what each file can be left as. Between and during
installs the registry publishes or changes an answer; between them the user edits
manifest, registry, files and lockfile. The code does not check what it writes of a
single file or of the lockfile, nor that the lockfile could be opened, nor why the
listing of a `path:` directory ended: `Write`, `WriteLock`, `OpenLock` and `Copy`
can fall short and go on. `short` remembers what the present or the last install
left short in this way; it, `changed` and `intent` are ghosts.

### SelfUpdate

`suStage`, `suInst`, `suExec` are the disk; `suPc` and `suAt` each run's place in
`update_cmd_main`. `SuDownload` truncates the staged file and `SuDownloaded` finishes
it; before them `SuManifest` reads the manifest, or `SuFallback` gives it up, after
any failure of its download, for the published install script, which is outside the
program: `SuScriptPuts` puts files of its own in place, in any mode, and
`SuScriptEnds` ends the run with it. Because a rename moves a file under an open
download, `suFd` says where that download writes by now. `SuVerify` is the comparison
with the manifest, `SuRename` and `SuChmod` are `atomic_replace`. `SuGiveUp` and
`SuRenameFails` are the early returns, `SuKilled` a death at any point.

### DapAdapter

`dapPc` is the main thread's place: reading a request, waiting for a result, or in
one of the steps of `stop()` (`DapStop`, `DapReap`, `DapJoin`, `DapStopped`).
`dapResults` is `m_results`, `dapReader` the state of the thread object, because
assigning to or destroying a joinable one ends the process. `ReaderLine` and
`ReaderEof` are `reader_loop`. gdb is external: it answers in order while the
program is not running, reports stops, and may end by itself at any time.

### MCParts

`TryCatch`, `CallCache`, `DbRegistry`, `Arena` with `WingsServe`, `HttpRecv`,
`SelfUpdate` and `DapAdapter` share no variable with each other or with the loop. A
behaviour picks one of `Parts` and then is a behaviour of that part, the others
standing still: eight models in one run, none multiplied by another. "try" is
`TryCatch`, "arena" is the arena under any sequence of calls, "serve" the arena as
the serve loops use it.

## Runs

| run | result | bounds |
|---|---|---|
| `loop_tasks` | pass | 3 promises, 2 awaits or tries, gathers of up to 2, time 0..2 |
| `loop_http` | pass, with fairness | 3 promises, 2 workers, time 0..2 |
| `pkg_install` | pass | 1 package, 2 versions and a URL, 4 bodies, 3 outside events; 11 ranges, every list of up to 3 of 16 versions and an unparsable one |
| `parts` | pass, with fairness in part "dap" | below, part by part |
| `loop_timer_order` | violation | 4 promises |
| `loop_main_await` | violation | 2 promises |
| `try_early_exit` | violation | 6 statements entered, handler stack of 3, early exits |
| `try_finally` | violation | 6 statements entered, handler stack of 3 |
| `pkg_reinstall` | violation | as `pkg_install`, writes that do not fall short |
| `arena_globals` | violation | as part "arena" |
| `recv_oversize` | violation | as part "recv" |
| `dap_stopped` | violation | as part "dap" |

What the passing runs show:

* `loop_tasks`: `Scheduling` (a coroutine that can go on is queued exactly once, one
  that cannot is on exactly one waiter list), `ThrowStaysOnStack`, `GatherInOrder`,
  and `ImplementsFutures`. Three promises suffice for two coroutines that await each
  other or the same third promise, a coroutine that awaits itself, and a gather over
  a coroutine and a timer that settle in either order; two awaits suffice to wake
  more than one waiter at once.
* `loop_http`: the three guarantees of the pool, `HttpConsistent` (a request's
  promise, job and registration move together), `NoEarlyTimer`, `DrainComplete` and
  `Terminates`. Two workers and three promises give two requests answered in either
  order, before or after they are registered, beside a timer whose sleep is cut
  short by polling.
* `pkg_install`: `DiskIsPinned`, `PinsHold`, `RefusalMeansTamper`. The loop of
  `cmd_install` treats packages independently except for the common lockfile, so one
  package is run and the theorems cover any number. Three outside events are enough
  to publish a version, change its bytes and edit the manifest or the files between
  installs; installs, failures, short writes and deaths are not bounded. An install
  that writes a file short does not know it, so `DiskIsPinned` leaves out what the
  install that succeeded wrote short itself, and says that no later install takes
  such a file for the pinned one.

  In behaviours of their own the run explores `PickBest` for `BestIsHighest`. Three
  versions are every relation the loop's `best` can have to its next candidate; the
  16 hold semver's own precedence chain and both ends of every range. The
  pre-releases of the top of a range (`TopPrerelease`) are left out by name.

What `parts` shows, in one state graph of 699 820 states:

* **try**, 5 statements entered, a handler stack of 3, no early exits.
  `HandlersAreActiveTries` and `ThrowToNearest`. Five entries hold a call inside a try
  inside a call, a loop, a catch block with its own try, and a fourth nested try,
  which overflows.
* **db**, 2 threads, a file database and a :memory: one, 2 addresses, 1 statement
  text, a statement cache of 1. `UsesLiveConn`: a call works on an open connection
  of the database it names unless a close overtook it. `RowidIsOwn`: on a file
  database only the thread itself inserted through its connection, or a call that a
  close overtook and whose address came back. `StmtsMatchConn`: a cached statement
  is of the connection now at its address. `CloseReclaims`: after a close there is
  left at most a zombie that another thread's statements pin, and a connection
  opened too late. `ZombiesStay`: those are there for good. Two addresses are fewer
  than the connections the program wants, so that every close is followed by a
  reuse; the theorems cover the rest.
* **call**, 2 callers, 2 slots, 4 names of which two pairs collide and one is
  exported by nothing. `ProbePathWhole` (a name is cached once and reachable from
  its home slot) and `Transparent` (the cache implements `DynamicCall`). Three
  exported names and two slots fill the table and drop an insert.
* **arena**, blocks of 2 units, allocations of 1 and 3, so that some need a bigger
  block, 3 blocks, 3 live allocations, 2 open scopes, 2 containers. `LiveDisjoint`
  and `DanglesOnlyAcrossScopes` (a malloc'd container outside every scope never
  refers to dead memory; any other only through a store from a scope inside its own):
  two scopes and two containers are the least in which a container and what it holds
  belong to different scopes.
* **serve**, as arena, checkpoint stack of 3, all three loops. `ServeReclaims`: a
  stack of 3 overflows when a handler leaves two scopes open, and the saves that
  fail then must not upset what follows.
* **recv**, 7 scripts of two requests, a buffer of 8 and a limit of 10 bytes, ints up
  to 12; every way to cut the stream. `FramesWhole` and `NoMutualWait`, both while the
  client waits for its responses and its requests are not longer than an int says.
  The scripts hold a body that fits, one that needs a bigger buffer, one above the
  limit, one whose length overflows, headers that fill the buffer and headers that do
  not fit.
* **update**, 2 overlapping runs, 2 assets. `InstalledIsVerified`, `CompilerRuns`,
  `MixedOnlyAfterAbort`. Two assets are the least that can be half
  installed; failures, kills and what the install script does are not bounded. What
  the script put in place is left out of the first two: it verifies nothing.
* **dap**, 3 tokened commands, 2 gdb processes. `AnswerIsOwn`, `DiesOnlyAfterGdb`,
  `StopIsClean`, `RequestsEnd`. Three commands hold one that timed out, its late
  answer and a new query; two processes a restart.

What the violation runs show (`findings` has the quotations):

1. `loop_timer_order`: timers that are overdue together settle in the order of their
   creation, not of their deadlines.
2. `loop_main_await`: an await on main returns void for a promise that is still
   pending when the loop has nothing left to run.
3. `try_early_exit`: a `return`, `break` or `continue` out of a try block leaves its
   handler behind, and a later throw jumps to it.
4. `try_finally`: a throw or `return` in a catch block skips the `finally` block.
5. `pkg_reinstall`: re-installing an unchanged manifest with a range changes files
   and lockfile after a newer release, because the lockfile is not consulted for
   the version.
6. `arena_globals`: a builtin called outside every scope makes its array in the arena;
   a request stores a string in it, the write barrier takes the array for transient
   and stores the string raw, and the array outlives it.
7. `recv_oversize`: the sum of header and body length overflows for a body near the
   largest int; the request passes the test against `max_bytes` and is returned in
   part as a whole one.
8. `dap_stopped`: no DAP `stopped` event is ever sent. The record the reader passes
   on still begins with its `*`, and the comparison with `stopped` expects none.

Five more disagreements have no run of their own; they show in the statements of
properties that hold:

* `http_recv_request` (`runtime_bindings.cpp:5738`) is said not to consume bytes of a
  later request; it does, while the headers are incomplete, so `FramesWhole` is stated
  for clients that wait.
* `db_close` (`runtime_bindings.cpp:7486-7488`): a zombie is said to be reclaimed once
  its statements finalize; `ZombiesStay` says that they never do.
* `^` and `~` (`pkg_cli.cpp:43-50`): the intervals of the comment hold the
  pre-releases of their top, the code refuses them; `RangesAreIntervals` states both
  sides and `BestIsHighest` leaves them out.
* The install script (`update_cmd.cpp:417-420`, `494-497`) is said to be used only for
  releases without a manifest; any failed download of the manifest leads to it, so
  `InstalledIsVerified` has to except what it installs.
* `pkg_cli.cpp:495-499` says that re-installs are byte-stable; beside the newer
  version of disagreement 5, a write that fell short unnoticed is a success with
  other bytes, which `DiskIsPinned` excepts for the install that wrote it.

Bounds that are not the code's: `N`, `MaxOps`, `MaxTime`, `GatherMax`, `Delays`
(AsyncLoop), `MaxEntries` (TryCatch), `MaxEvents` (PkgInstall), `DbAddrs`
(DbRegistry), `Blocks`, `MaxLive`, `ArenaScopes`, `AllocSizes`, `Objs` (arena),
`MaxToken`, `MaxSession` (DapAdapter). Each is a guard of the actions that would
exceed it. Smaller than in the code: `EhMax` (64), `DbStmtCap` (64), `CacheSlots`
(256), `CheckpointMax` (32), `BlockSize` (1 MiB), `RqCap` (64 KiB), `RqMax`,
`RqIntMax` (0x7fffffff).

**Fairness.** `loop_http` assumes weak fairness of the event-loop thread and of each
worker, for `Terminates`: the operating system schedules both and
`http_request_url` has a timeout. Nothing is assumed of the clock beyond the sleep
of `loop_step` itself. User code is finite because a run has finitely many promises
and operations. Part "dap" assumes weak fairness of the adapter's main thread, for
`RequestsEnd`, and of its reader thread: both
are scheduled, `wait_for_result` has a timeout, and the reaping loop of `stop()`
ends in a kill. Nothing is assumed of gdb or of the client. The other runs and
parts check safety only and assume nothing.

**Deadlock** is checked in every run but those of `MCParts` (`parts`,
`arena_globals`, `recv_oversize`, `dap_stopped`): `Gone`, `Over` and `PickReturn` are
the only places where a system stops. In `MCParts` a connection
closes and the adapter exits; that nothing else stops is what `NoMutualWait` and
`RequestsEnd` say.

## Proofs

TLAPS checks 48 theorems listed in `PROJECT.json`, for every value of the constants
that satisfies the named assumptions (`PoolAssumption`, `LoopAssumption`,
`TryAssumption`, `PickAssumption`, `InstallAssumption`, `CacheAssumption`,
`ArenaAssumption`, `ServeAssumption`, `RqAssumption`, `DbAssumption`,
`UpdateAssumption`, `DapAssumption`). Hardly any of the invariants is inductive as
it stands; each entry names what it rests on.

* **`AsyncLoop_proofs`**, the pool: `PoolSafe` and `PoolPublishes`. Publishing must
  know that the result was written before. `PoolInv` adds `WorkerState`, which ties a
  worker's place in its loop to what it holds and has written.

  The loop. `LoopRunsPool`: every step of the process is a step of
  the pool or leaves it alone, so `LoopPoolSafe` inherits the pool's guarantees.
  `LoopTypes`, `LoopSchedules` and `LoopThrowsStay` rest on `LoopInv`, which adds
  `Control` (the scheduler's own handler context is never swapped out; while a
  coroutine has the control only its code runs) and `Kinded` (what created a promise
  settles it; a coroutine's promise is settled exactly when it is done; nobody knows
  a promise that does not exist). Without the second a timer could settle the promise
  of a running coroutine; without the first `resume` could restore the wrong context.
  `LoopImplementsFutures` maps the ready queue and the running coroutine to the
  runnable tasks and each waiter list to the set of blocked tasks; a `resume` is
  then a stutter, and every settlement is the one abstract `Settle`.

  The other four use that lemma on settlements (`SettlesAtMostOne`): a step settles
  at most one promise, and its kind says which step. `LoopTimersWait`: the timers
  collected for firing are due (`FireDue`), and time does not go back.
  `LoopAnswersRequests`: only requests have jobs. `LoopGathersInOrder`: what a gather
  has collected is, item by item, the values of its first items, and it awaits the
  next one (`GatherInv`); a settled promise keeps its value, so the results are still
  right when the last item arrives. `LoopDrains`: an unsettled sleep is in `timers`
  or `fire` (`TimerInv`) and an unanswered request in `io` (`HttpConsistent`), so when
  `loop_step` finds nothing to do there is nothing left, and only the drain of main
  goes from there to the exit.
* **`Futures_proofs`**. `NoLostWakeup` and `SettledOnce` for the abstract
  specification. The refinement carries both to the event loop.
* **`TryCatch_proofs`**. `TryTypes` for every program; `HandlersMatch` and
  `ThrowReachesNearest` for programs without early exits (`EarlyExit = FALSE`; with
  them both are false). `TryInv` adds `Ordered`: entries are named in the order of
  nesting, which is what makes the top handler the innermost try.
* **`Runtime_proofs`**, the call cache. `CacheIsSound` from `CacheInv`: a slot with a
  key is completely written (`FilledSlots`), what a caller holds depends on its place
  (`CallerState`), and an insert has passed only slots taken by other names
  (`InsertPath`). `CacheIsTransparent` is the refinement of `DynamicCall`: a hit is
  its `Run`, because a key that is seen means a pointer that was written.

  The arena. `ArenaKeepsDisjoint` from `ArInv`: places in the chain of blocks, and
  offsets in a block, order the live strings as they were allocated (`LiveInOrder`),
  and each checkpoint is a place in that order behind which nothing older lies
  (`CheckpointsInOrder`). An allocation goes to the end of the order, a new block
  moves only blocks behind it (`Inserted`), and a rewind cuts the order short.
  `ArenaDanglesOnlyAcross` from `RegionInv`: the region lists the tracked containers
  once each (`RegionTracks`), a container in the arena is one of the live allocations
  and never tracked (`ArraysPlaced`), only transient containers refer to strings and to
  transient ones, and a rewind that ends a value ends its container too unless the
  value was stored from an inner scope (`RefFine`).

  The serve loops. `ServeUsesArena`: their steps are steps of the arena, so both
  results hold under them. `ServeReclaimsAll` from `ServeInv`: the handle a loop
  holds names a scope taken with nothing of a request in memory, whatever lies above
  it on the stack. It assumes that the stack has room for two scopes (the code has
  32): with none the listen loop would have the handle -1 and never rewind.
  `ArenaTypes` adds to both what the bounds say of live strings and references.

  The requests, for any `RqIntMax`. `RecvTypes` from `RqTyped`, overflows included:
  until the headers are seen nothing is needed and the buffer is the thread's own,
  and a call returns one result per response. `RecvFramesWhole` and `RecvNeverMutual`
  from `RqInv`, which says, while the client waits and its lengths are ints, that
  nothing beyond the request to be answered has arrived and that every call returned
  its request (`RqInStep`), and of a call that reads (`RqWindow`) that it began at
  the first byte of a request, has not read all of it, and that what it takes for the
  end of the headers and for the length are those. For this the scan has to find the
  blank line of the request and no other, however it was cut (`ScanOfRequest`): three
  bytes before the new ones are enough because an earlier scan had seen the rest
  (`ScanFinds`), and every byte has one owner and one place in it (`OwnerIs`,
  `OwnerExists`, `CharsOf`), which is an induction over the requests.
* **`DbRegistry_proofs`**. `CallsUseLiveConns`, `RowidsAreOwn`, `CachedStmtsMatch`,
  `ClosesReclaim`, `ZombiesAreNeverReclaimed` from one `DbInv`. Its core: a
  registered, a just opened and a shared connection are open and of their database
  (`RegisteredOpen`, `OpenedOpen`, `SharedOpen`); every open connection is one of the
  three (`OpenIsReachable`); no two threads hold the same (`HeldOnce`); a call that
  goes on after a close was overtaken by it (`OverlapKnown`); only the thread that won
  the exchange is inside a close (`OneCloser`); a zombie is pinned by a statement its
  closer could not reach (`ZombiePinned`). Together they say that a connection is
  freed only when no statement is cached under its address.
* **`PkgInstall_proofs`**. `PinsAlwaysHold` from `PinInv`: the pins held by a running
  install are those of the lockfile it will replace, and what it has recorded or is
  about to write agrees with them. `InstallPins` from `DiskInv`, which adds that a
  recorded package is on disk unless this install wrote it short. What an earlier one
  wrote short has no hash a lockfile pins, so `LocalMatchesLock` cannot take it.
  `RefusesOnlyTamper` from `PinsHonest`: every hash in a lockfile, new or old, was
  once served at its address, or is torn. `PkgTypes` and these keep short writes and
  torn lockfiles in, and so does `InstallPins`.
* **`PickBest_proofs`**. `SemverIsPrecedence`: the loops and early returns of
  `cmp_semver` order versions as semver 11 does. Two pre-release tags part at some
  first identifier or one is a prefix of the other; the code's walk and the standard's
  order are both decided at that place, so they agree, for tags of any length.
  `PrecedenceIsTotal` compares the places where three versions part, and
  `RangesAreIntervals` goes through the kinds of range: the code's test of the numbers
  is the interval of the comments, minus the pre-releases of its top, which the
  interval holds. `BestIsAlwaysHighest` then has
  the invariant that `best` is a candidate and none of those seen is higher. The first
  place where tags part, and the bytes of a request above, come from `LeastNumber`
  (of any nonempty set of numbers one is least), which takes the place of induction.
* **`Parts_proofs`**, the tools: `UpdateInstallsVerified`, `UpdateKeepsCompiler` and
  `UpdateMixesOnlyInLoop` from `SuInv`, with the install script among the steps: while
  runs do not overlap one at most is going
  and no file moves under its download (`Alone`), what it has verified and not yet
  installed is staged (`StagedIsVerified`), the files behind its install loop are
  replaced (`LoopReplaced`), so that all or none are, unless a run is or ended in the
  middle (`AllOrNone`). `AnswersAreOwn`, `AdapterDiesOnlyAfterGdb` and `StopsAreClean`
  from `DapInv`: a token is the number of its command, in both pipes and among the
  results (`TokenIsNumber`); as long as no gdb ended on its own, the adapter is either
  running one with its reader or there is nothing of one (`UnderControl`).

  The parts side by side. `PartsAreParts`: a behaviour of `PartsSpec` is, fairness
  apart, a behaviour of each module in it, so the theorems about one module are about
  what the run `parts` checks. `PartsTypes`: all their type invariants at once, with
  what the invariants above leave out (`DapRest`, `SrvInv`, `ArRest`).

Only model-checked: `Terminates` and `RequestsEnd`. Liveness under fairness and
`ENABLED` are out of the prover's reach. So are the induction theorems of the library,
which take an operator; where a fact about lists of any length was needed, the least
counterexample was refuted instead. The properties of the violation runs are false. No
module uses a recursive operator.

## Limits of the models

* One thread runs user code of the event loop. `thread_create` and `listen_pool` run
  it on others, and an async call there races on plain globals; that is undefined
  behaviour with no intended outcome to check.
* Reference counts are absent, so leaks (`t->args` in `resume`) are not seen.
* Stray jumps and null `setjmp` buffers end a run: nothing is said of what follows.
* Manifest and lockfile are values, not text; a lockfile cut off at any byte is
  modelled by what the reader makes of it. Hashes do not collide.
* Version numbers are natural numbers; `parse_semver` overflows on very long ones.
* Databases: rows, pragmas and SQLite's own locking are external. On `:memory:`
  all threads share one connection, so `db_last_insert_id` is whichever thread's
  came last; `RowidIsOwn` is about files. Use of freed memory is modelled by what
  SQLite does with it: refuse, or run on whatever connection has the address now.
* Arena: containers hold one reference; when `malloc` fails for a block the string
  is allocated outside the arena and nothing is said of it.
* Requests: `malloc` does not fail, a request has at most one `Content-Length`, a
  body is not longer than the largest int (the code clamps a longer one to it here and
  leaves it to `atoi` in `http_parse_request`), a request without a `Content-Length`
  has no body (chunked bodies are not read by the code either), and the clamp of tiny
  limits to 1024 is left out. A half-sent request blocks the
  evented server in `recv`; that is a client that sends nothing, which no property
  here is about.
* Updates: one new release; file systems keep a rename whole; the install script is
  anything that puts files of its own in place of installed ones.
* Debug adapter: `join` in `stop()` is taken to end because the reader sees the end
  of gdb's output; a child that keeps gdb's pipe open could delay it.

## Plan

Done, in this order: `HttpPool`, `Futures`, `AsyncLoop`, their proofs and the
refinement; `TryCatch` and its proofs; `SemVer`, `PickBest`, `PkgInstall` and its
proofs; `DynamicCall` and `CallCache` with the refinement, `DbRegistry`, `Arena` and
`WingsServe`, `HttpRecv`, `SelfUpdate`, `DapAdapter`; proofs of the cache, the
registry, the arena, the serve loops and the two tools, and of every safety property
of loop and pool; proofs about versions and ranges, the framing of requests, and the
parts side by side. Every safety property of the passing runs is a theorem now.

Next:

1. `Arc`: retain and release with cascading frees over small graphs, which would
   also cover the arguments `resume` leaks.
2. The rest of Wings: the middleware chain, the response cache and streaming.
3. `aot_persist` as a copy of graphs, with containers of several references.
