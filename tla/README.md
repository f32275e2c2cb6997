# MemoryTool: TLA+ models, model checking and proofs

MemoryTool is a C++17 memory scanner for Linux processes: a command-line tool
and a local Web UI over one core. This directory holds TLA+ models of its
stateful parts, the TLC configurations that check them on small instances, and
theorems proved with TLAPS. Paths below are relative to the repository root
(`src/` is the directory of the C++ program, `src/web/` its web layer), and every
definition of a model is tied to the lines it stands for in `PROJECT.json`
("map"; there each path has one more leading `src/`).

## The system

| component | state | operations | properties that make it correct |
|---|---|---|---|
| `Job`, `JobRegistry` (`web/jobs.*`) | lifecycle (one atomic int), cancel flag, progress, count, error; map of jobs, next id | create, start, complete, fail, cancel, request_cancel, remove, clear_finished | one active job; terminal states are final; ids never reused |
| `JobRunner` (`web/job_runner.*`) | `active_`, `thread_`, `runner_mtx_`, `session_mtx_` | run, worker, finish_slot, shutdown | one worker; the handle of every thread has one owner; no deadlock; every job ends; verdict agrees with the task |
| `Api` (`web/api.*`) | none of its own: the shared `Application`, registry and runner | one handler per route; five of them start a job, the others try the session mutex or answer from it | a request that passed its checks acts on the session it checked |
| `Session`, `Application` (`session.*`, `application.*`) | pid, Scanner, pattern results, pointer results, AddressTable | attach, detach, scans, table operations, write, pointer operations | results belong to the attached process; stale entries are never used as fresh |
| `Scanner` (`scanner.*`, `chunk.h`) | candidates, first/dynamic type, truncated and warned flags | first/next scan, scalar and dynamic, clear | every candidate satisfies every filter; a cancelled scan leaves the previous results |
| `Memory` (`memory.*`) | pid, ptrace attachment, the mem file descriptor | open, close, read, write, parse_maps | every target that was stopped is resumed |
| `AddressTable` (`address_table.*`) | entries with kind, type, freshness | add, remove, toggle, mark_all_stale, save, load | load(save(t)) = t; a failed load leaves the table |
| pointer scan and resolver (`pointer.*`, `pointer_resolver.*`) | edges, frontier, chains, truncation flags | scan by levels, resolve a chain | every chain found resolves to the target in the same snapshot; limits are reported |
| `WebServer` (`web/server.*`, `web/http.*`, `web/json.*`) | listening socket, connection count, one thread per connection | start, run, stop, handle_connection, parse | at most `kMaxConnections` threads and no slot leaks; only whole and acceptable requests are handled; a client that stalls keeps nobody else waiting |
| browser client (`web/static/app.js`) | the current job, poll timer, tables | launch, poll, finish, refresh, reload | a job the page launched is tracked until it is over, and its results are shown in its table; the job box does not stay |
| command line (`command.cpp`, `main.cpp`) | none of its own | one command per line over `Application` | the same core, without threads |
| Roblox tools (`roblox/`) | a separate Lua program | hooks, browser, script generators | out of scope: no shared code or state with the scanner |

How they interact: a connection thread of `WebServer` parses a request and calls
`Api::handle`. Short handlers take `session_mtx_` with `try_lock` (409 *busy* when
it is held) and call `Application`. Scans go through `start_job`:
`JobRegistry::create`, then `JobRunner::run`, which spawns a worker thread. The
worker holds `session_mtx_` during the whole scan, which stops the target with
ptrace, reads it block by block, looks at the job's cancel flag at every block,
and replaces the results in the `Session`. The browser polls the job, cancels it,
and reads the results when it has ended.

What is hard: a cancel racing the start and the end of a job; a terminal state
that is visible before the slot is free; joining a thread while holding the mutex
it needs; two threads shutting down; checks on the session done before its mutex
is held; a scan cancelled half-way through updating its candidates; a table that
outlives the process it describes; failures half-way through stopping a target;
limits on results, chains and connections; clients that stall in the middle of a
request; a page that hears of its jobs late, out of order or not at all.

## Modules

| module | models | state | composed with |
|---|---|---|---|
| `Jobs` | `web/jobs.*`: every compare-exchange of `Job` and the store behind it, the registry | `listed`, `nextId`, `state`, `cancelRequested`, `payload` | extended by `JobRunner` |
| `JobRunner` | `web/job_runner.*` and its callers in `web/api.cpp` | `slot` (`active_`), `handle` (`thread_`), `runnerMtx`, `sessionMtx`, a program counter for every client and worker thread | refines `JobService` |
| `JobService` | the abstract job layer: no locks, threads or compare-exchanges | `listed`, `phase`, `task`, `results` | instantiated in `JobRunner` |
| `Scanner` | `scanner.*`, `chunk.h`, the matching of `pattern.*` | memory, mapped and refused regions of the target, both kinds of candidates, the running scan | |
| `PointerScan` | `pointer.*`, `pointer_resolver.*`, `application.cpp:453-545` | layout and memory of the target, the running scan, its result, the chains of the table | |
| `Session` | `session.*`, `address_table.*`, the table operations of `application.cpp` | `pid`, `scanner`, `scanType`, `pointers`, `table`, `file` | operations of the next two |
| `WebApi` | the handlers of `web/api.cpp` | per thread what its request has seen, the active job, the pattern hits | extends `Session`, relies on `JobService` |
| `CommandLine` | the commands of `command.cpp` | that of `Session` | extends `Session` |
| `Program` | `main.cpp`: one of the two front ends runs | `front` | `WebApi`, `CommandLine` |
| `PtraceMemory` | `memory.*`, `Session::with_memory`, the end of a request's thread | the target's main thread as the kernel has it, `fd`, `pid`, `mark` | |
| `WebServer` | `web/server.*` with the limits and checks of `web/http.*` | `conns` (`conns_`), `listening` (`listen_fd_`), `server` (where `run()` is), per client the phase of its connection, its request, the bytes read, the answer | what `Api::handle` does is `WebApi` |
| `Page` | `web/static/app.js` (jobs), the job routes of `web/api.cpp` seen from outside | `jobId`, `onComplete`, `pollInFlight` (`state` of the page), the fetches in flight, the phase of each job | the jobs are those of `JobService` |
| `Sorting` | `std::sort` and the order in which `std::map` and the code's loops go: the elements of a finite set in order | | extended by `PointerScan`, used by `Scanner` and `Session` |
| `JobRunner_proofs`, `Program_proofs`, `Scanner_proofs`, `PointerScan_proofs`, `WebServer_proofs`, `Page_proofs`, `PtraceMemory_proofs`, `Sorting_proofs` | theorems about the module each is named for, and lemmas about `Sorting` | | |

`MC*` modules hold only the sets a configuration file cannot write.

### How actions correspond to code

- *Locks.* A critical section that cannot block and whose intermediate states no
  other thread can see is one action. Where code blocks or reads an atomic while
  it holds a mutex, every access is an action: `run()` is `RunEnter`, `RunJoin`,
  `RunLaunch`, whose `std::thread` constructor may throw; `request_cancel()` is `CancelRead`, then `CancelFlag` or
  `CancelQueued` and the store behind the compare-exchange; `shutdown()` is its two
  critical sections and the join outside them.
- *Atomics.* `Job` publishes its state with a compare-exchange and stores
  `count_`, `error_` or the flag afterwards; the model keeps the two steps apart
  (`WorkerVerdict`, `WorkerStore`).
- *Handlers.* A handler that takes the session mutex with `try_lock` is one step,
  possible when the mutex is free; the refusal (409) changes nothing and is not a
  step. A handler that starts a job takes no mutex, so each look at the session is
  a step of its own (`RequestNext`, `ReadKind`, `ReadType`, `StartJob`).
- *Scans.* One step for each block that `for_each_window` reads, with the cancel
  flag before it; the bookkeeping at the end of a scan is one step.
- *Pointer scans.* One step for the cancel check of a level, one for its traversal
  (which a cancel may cut anywhere), one for the extension of the frontier.
- *Connections.* One step for each `recv`, of any length up to the buffer, one for
  the parsing of the head, one for the checks and the handler, and one each for
  closing the socket and giving the slot back. A request is its two lengths and what
  the checks tell apart in it. An asset path needs neither Host nor token.
- *The page.* JavaScript runs to the next `await`, so the code between two awaits is
  one step; a fetch is a record in `calls` that the server answers at some time and
  whose continuation runs at some later time, in any order with the others. The
  interval of a poll may fire whenever the page has a job (`Tick`). `Reload` is F5:
  requests already sent may still be handled (`ServeLost`).
- *The target and the kernel* are modelled from how `memory.cpp` uses them, and
  marked external in the map.

History variables carry no behaviour: `owner` and `from` in `Session` (which
process an address or a result was read in), `seen` in `Scanner`, `layout`, `slots`,
`target` and `opts` in `PointerScan`, `outcome` of an ended worker in `JobRunner`,
`budget` of a running scan in `Scanner`, `told`, `refreshed` and `crossed` in `Page`
(`crossed`: the page, since it was loaded, was told of a launch while it tracked another
job). `load` makes entries of no known owner, as detach does of those that are there.

## Runs

| run | question | bounds |
|---|---|---|
| `runner_service` | locks, threads, verdicts, `shutdown()`, the refinement of `JobService`, and termination | 2 clients, each of which may shut down; 2 jobs, 4 requests, 1 block |
| `scanner_exact` | does a scan find exactly what it should, compare with the last scan, make progress, and what may a cancel not disturb? | 5 bytes in two regions with one between them that cannot be read, blocks of 2, byte values 0 and 1, every memory, every filter, patterns with and without a wildcard, 2 scans, a cancel before any block, 1 change by the target between scans |
| `scanner_cancel_next` | *violation*: a cancelled next scan | one region of 2 bytes |
| `program_session` | results, chains and fresh table entries in both front ends | 2 processes, 1 address, table of 1, saved file, detach; 1 connection thread and the worker |
| `program_empty_spec` | *violation*: a specification read after it is gone | |
| `ptrace_target` | does every operation stop and release its target? | 3 operations, one signal |
| `ptrace_mem_fails` | *violation*: a failing open of `/proc/PID/mem` | |
| `pointer_chains` | chains: correct, complete or flagged, resolvable in a later run | 3 mappings of 2 words, 2 layouts, 1024 memories, depth 3, 1 scan, table of 1 |
| `pointer_restart` | *violation*: a root in a page of the file that is mapped twice | as `pointer_chains` |
| `web_server` | slots, framing and checks of requests, stalled and leaving clients, `stop()` | 3 clients on 2 slots, head limit 4 and slack 1, buffer 3, body limit 2; one client with 27 kinds of request, one that is diligent; all but that one may stall or leave |
| `page_jobs` | does the page keep to its job, show its results, and settle? | 3 jobs, 2 clicks, another tab, 1 failed fetch or reload |
| `page_stale_poll` | *violation*: a launch answered while another job is tracked | 2 jobs, 1 click, no fault |

Why these bounds are enough to meet the interesting cases. Two jobs are the least
that have one job ended and still in its thread, or forgotten by the registry and
still running, while another is created and run; four requests let both clients
have two calls each, so that a cancel, a removal and a shutdown overlap a submit. One
block gives a task two looks at the flag, around one read. Two clients suffice for
any race on the two mutexes between callers; the theorems take over for more.
Regions of three and two bytes with blocks of two have
windows inside a block, across two blocks, at the end of a region and behind a gap,
which is a region that `/proc/PID/maps` lists and no read succeeds in;
the limit of three candidates is below the number of windows. In `pointer_chains`,
six edges and three chains are few enough to truncate some levels and leave others
whole; the code and data mappings share a page of the file and move together from one
layout to the other, the heap moves on its own. In `web_server`, heads and bodies lie below, at and above each
limit, and a `recv` may stop anywhere in the head, at its end or in the body; two
slots and three clients are the least that has one refused beside two that stall. In
`page_jobs`, two clicks and another tab give a late status, a launch that is
refused, and polls of two jobs; one fault is enough for each kind of it, and the
theorems take over for more. `program_session` checks states up to a permutation of the
two processes (`MCSymmetry`), which no action tells apart; the run has no liveness
property. `MaxTable 0` in `program_empty_spec` leaves the table out, which
the violation does not need.

Deadlock is not checked where the bounds themselves stop the system: requests
(`runner_service`), scans (`Scanner`, `PointerScan`), operations (`PtraceMemory`) and
clicks (`Page`) are counted, and a `WebServer` that has exited stops for good. In
`runner_service`, `RequestsReturn`, `RunnerBecomesFree` and `JobsEnd` take its place:
a call or a worker that waits for ever, in a lock or a join, violates one of them.
The runs of `Program` check deadlock.

### Fairness

- `JobRunner`: weak fairness for the calls of each client and for each worker
  thread: a thread that can run is scheduled. A thread that could not be made owes
  nothing. Nobody has to send a request, and a
  scan may always fail instead of reading on. The bound on requests also stands for
  a mutex that does not starve its waiters for ever; `std::mutex` does not promise that
  under unbounded contention.
- `PtraceMemory`: weak fairness for this program's thread and for the kernel
  (a requested stop happens, a sent signal arrives). The target owes nothing.
- `WebServer`: weak fairness for `run()` on each waiting connection, which the kernel
  hands out in order, and for the thread of a connection whose client reads or has
  left, since a `send` to a client that does neither may block. The bytes of a
  `Diligent` client arrive; the others owe nothing, nor does anybody call `stop()`.
- `Page`: weak fairness for the end of each job (which `JobsEnd` of
  `JobRunner` shows of the server), for the interval timer, and for each kind of fetch: it is answered
  or fails, and its continuation runs. Users owe nothing. Faults are counted, so that a
  poll does not fail for ever.
- `Scanner`, `Program` and `PointerScan` have no liveness properties. That a scan ends
  is the invariant `BlocksAdvance` instead: every block, readable or not, leaves
  strictly less to do, so that a scan has at most as many steps as its `budget` at the
  start; it is a theorem too.

## Proofs

TLAPS proves the following for every value of the constants that satisfies the
assumptions each module names, which TLC evaluates in the runs.

Of `JobRunner`, for any finite or infinite set of clients (disjoint from the job
ids), any number of jobs, blocks and requests:

- `Invariance`: `Spec => []IInv`; and from it `TypeCorrect`, `OneActive`
  (`OneActiveJob`), `OneWorker` (`SlotGuardsWorker`), `OneOwner`
  (`ThreadsAreOwned`), `Verdict` (`VerdictMatchesRun`), `PayloadStored`
  (`PayloadBeforeFree`);
- `TerminalFinal`: the action property `TerminalIsFinal`;
- `ShutdownReturns`: the action property `ShutdownWaits`, for any number of callers
  of `shutdown()`;
- `Refinement`: `Spec => Service!Spec`, the job layer implements `JobService`.

Of `WebServer`, for any finite set of clients with any requests and any limits
(`WebServerAssumption`): `TypeCorrect`, `SlotsAreCounted` (`CountsThreads`),
`RequestsAreFramed` (`AnswerFits`).

Of `Page`, for any number of jobs, clicks and faults (`PageAssumption`):
`TypeCorrect`, `KeepsItsJob` (`TracksItsJob`), `ShowsItsTable` (`RefreshesItsTable`).

Of `Program`, for any sets of processes, addresses, types and connection threads, any
table (`SessionAssumption`): `Belongs` (`ResultsBelongToProcess`), `OneKind`
(`OneKindOfResults`), `FreshKnown` (`FreshEntriesBelong`), `ProgramTyped` (`TypeOK`).

Of `Scanner`, for any regions in order, any blocks, patterns, widths and limits, any
number of scans and of changes by the target (`ScannerAssumption`): `TypeCorrect`,
`ScansExact` (`FoundIsExact`), `ScansAdvance` (`BlocksAdvance`), `ScansRemember`
(`RemembersLastScan`) and `CancelKeeps` (the action property `CancelKeepsAddresses`). One
more has a hypothesis on a constant, which excludes what a run refutes: if no next scan
is cancelled, as one is in `scanner_cancel_next`, `NextScansExact` says that a next scan
keeps the candidates whose bytes pass the filter against what the last completed scan
read. Of a dynamic candidate that is the pattern at its exact positions and what was read
under the wildcards (`Shown`, `scanner.h:71-76`); the two differ after `changed` only.

Of `PointerScan`, for any finite set of mappings, any layouts in which they do not
overlap, any memories, options and limits (`PointerScanAssumption`): `TypeCorrect`,
`ChainsCorrect` (`ChainsLead`), `Complete` (`CompleteUnlessFlagged`), `Resolves`
(`ResolvesToTarget`). The assumption puts every mapping above the largest offset, of
which the parser allows 0x10000 (`application.cpp:589-600`): a word that holds zero, and
that `FlatHashSet` never finds, is then no pointer to anything below it either.

Of `PtraceMemory`, for any number of operations and whatever calls fail
(`PtraceAssumption`): `TypeCorrect` and `StoppedWhileOperated` (`OperatesOnStopped`).
Under `SafeCalls` also `Released` (`ReleasedWhenClosed`): `SafeCalls` says that on a
thread that stays (any front end but the web server) no call after `PTRACE_SEIZE` fails;
`ptrace_mem_fails` is what happens otherwise.

### `JobRunner`

None of the safety properties is inductive. `IInv` adds what they lean on:

- `InvRunnerLock`: inside `run()` the client holds `runner_mtx_` and the slot is
  free, between the join and the launch there is no handle; without it launching a
  thread could overwrite a joinable one.
- `InvSessionLock`: `session_mtx_` belongs to exactly the worker inside its task or
  the client inside its handler; one task at a time, in the refinement, is this.
- `InvFresh`: ids not handed out are unknown to every thread; `create()` cannot
  collide.
- `InvLaunch`: a created job is on its way to a worker in the hands of one client
  only; two launches of one job would give two threads to one id.
- `InvTaken`: only a waiting `shutdown()` keeps a handle in its local.
- `InvShutdown`: between the two critical sections of a `shutdown()`, the worker it was
  called for is over, or still behind the handle, or in the local of another
  `shutdown()`; the handle only moves on through a join.
- `InvLifecycle`: what the position of a worker says about its job's state and
  result; the verdict's correctness is its last two parts.

The step lemmas prove one conjunct each over all actions; `InvStep` joins them. The
refinement maps a job's task to where its worker is (`TaskOf`): most steps stutter,
create, start, lock, the four ends of a task, the transitions and the registry's
clean-up map to the actions of `JobService`.

### `WebServer`

`IInv` adds `PhaseFits` to the three properties: what the phase of a connection says of
the bytes read. A thread still in the head has read less than one buffer beyond it,
which is why a head that leaves one buffer of room, or a request that fits as a whole
(`Comfortable`), is never taken for one that is too long; of other acceptable requests
`AnswerFits` says only that they are not handled unless whole. A thread past the parser
has a request within the limits; one past the body has all of it. Counting takes the two lemmas `OneMore` and `OneLess` on
the cardinality of `Serving`, and that a connection only enters and leaves `Threads`
in `Accept` and `Release`. A step concerns one connection; lemma `Others` disposes of
the rest.

### `Page`

`IInv` adds `CallsFit`, what a fetch in flight says of the page: of the polls there is
one at most (the flag); an answer that a job is over stays right; and unless launches have
crossed, a poll is about the job that is tracked. The last is the heart of the argument.
Other fetches may be beside it, the late status of a reload, a second launch or an
earlier poll: a status is looked at only by a page that tracks nothing
(`StatusAnswered`), and a page that tracks nothing has no poll in flight, so that only
an answered launch can change the job under a poll, and that is what `crossed` records.
`AnswerStep` and `DropStep` do the steps of the
server, `StartStep` the two places that call `startPolling`.

### `Program`

The two properties are not inductive: results could be inherited by the next process
if some were there while none is attached, and a job could publish after the process
has changed. `SessionFits` adds that results and chains exist only under an attached
process, `JobFits` that a job in execution implies one and runs in the web server only
(the mutex keeps `HandleProcess` out, and the command line has no job), and that a
dynamic first scan names a dynamic type, which it takes from its request
(`RequestsFit`). One lemma for each operation of `Session` serves both front ends; the
operations `CommandLine` instantiates are shown to be the same ones (`CommandProcess`
and the lemmas after it).

`TypesFit` adds the types, with one point that is more than a type: the entries of the
table are those that may be known under the attached process (`table \in
Seq(Known(pid))`), fresh ones of it or of no known process (from a file, added without a
process, or there through a detach), which is `FreshEntriesBelong`, for chains as for
addresses. `load` may bring any file that `save` could have written, never
longer than `MaxTable`, and `Sorting_proofs` gives the order of its entries.

### `Scanner`

`IInv` says what a scan knows between two blocks. `FirstFits`: what is left to do are
pieces of the regions, apart, in order and each up to the end of its region; every
address found is wanted; every wanted window is found already or lies whole inside one
piece ahead, the windows across two blocks in the piece that starts before the second
(this is what the overlap of `for_each_window` is for); and if the scan was truncated,
the first `MaxCandidates` of what was wanted are there. `NextFits`: the addresses found
are those of the candidates behind the index that survive, the ones ahead are as they
were before the scan. `ResultsFit` is about the candidates between scans: in order, of
one kind, with as many bytes as the type or the wildcards have. One lemma for each
action; the two blocks are the long ones, and each has lemmas of its own for what it
reads (`HitsFacts`, `KeptFacts`), what it appends (`AllFacts`, `GatheredFacts`) and
where it goes on (`OnwardFacts`, `FurtherFacts`).

`Scanner` takes the elements of a set in order from `Sorting`, and not by a fold:
`Sorting_proofs` shows that an element stands where as many are below it as places are
before (`SortedPlaces`), that the result is in order and complete (`AscendingFacts`)
and that a downward closed subset is a prefix (`AscendingPrefix`). Where an argument needs
induction it is on a least counterexample (`LeastNumber`).

### `PointerScan`

A `Path` is a chain as the memory has it, before its length and root are looked at.
`IInv` says of the levels so far: the frontier holds paths of the level's length and
what was found those of length 2 up to it, each once (`ScanLeads`); as long as no flag
is up, all of them (`ScanComplete`), which needs that an uncancelled level has all its
edges unless the limit on edges was met. A level keeps this because

- an edge into the head of a path whose source is not on it makes a path
  (`ExtendedLeads`), and two extensions make different ones (`NextLeads`);
- every path is an edge that matches before a shorter path (`PathBegins`, `PathEnd`), so
  that it is an extension of a chain of the frontier (`PathIsExtension`);
- if the limit was not met at any attempt, there are no more extensions than it allows
  (`UncutUnlessMet`), and the cut of the model, and the early return of
  `extend_chains`, has left nothing out.

When a level has no edges or no chains, the search ends: no path of the next length means
none of any greater length, since its end would be one (`NoneLonger`). For the table,
`EntryFits` says of each entry, whatever the layout is now, which slots its nodes were
and that the memory still leads from one to the next; the places of two slots of one
mapping keep their distance in every layout (`HopLeads`). `Resolved` is a recursive
function; the places of the slots are a solution of its equation, and `WalkUnique` shows
that there is only one.

### `PtraceMemory`

`TracedFits` ties the place in `open` to what the kernel has: from `PTRACE_SEIZE` on,
the target is traced or over, and from the wait on it does not run. `MarkFits` ties the
same places to `fd_` and `traced_`. Both hold however calls fail, also when an operation
begins with a target that an earlier one left traced: `open` refuses it then, and reads
nothing. `ReleaseFits` is what `Released` adds: when `close` is reached with a traced
target on a thread that stays, the target is stopped and the descriptor is there, which
is all that `close` has to go by, so that it detaches and not only forgets; on a request's
thread the end of the thread does the rest.

### Only model-checked

Liveness (`JobsEnd`, `RunnerBecomesFree`, `RequestsReturn`, `RunsAgain`,
`OperationEnds`, `Answered`, `EndsAfterStop`, `UiSettles`, `ResultsShown`), which is out
of the prover's reach. Every invariant and every action property that a passing run
checks is a theorem; `Released` and `NextScansExact` have the hypotheses named above, which
leave out what `ptrace_mem_fails` and `scanner_cancel_next` refute. That a target
stopped by an operation that fails runs again is only model-checked (`RunsAgain`).

## Findings

Five runs are expected to find a violation; `PROJECT.json` quotes the line that says
otherwise.

1. `scanner_cancel_next`: `next_scan` writes the values it reads into the candidates
   it iterates over (`scanner.cpp:296`, and `162-168` for patterns), so a scan that is
   then cancelled has changed the previous values it promises to keep.
2. `pointer_restart`: `resolve_root` takes the first mapping with the path and the file
   offset (`pointer_resolver.cpp:30-37`). When two mappings share a page of the file, as
   code and data of an unaligned ELF segment do, a root in the later one resolves to the
   earlier one, even in the layout the chain was found in. A chain whose hop leaves its
   mapping (a pointer near the end of one mapping, a target in the next) does not survive
   other addresses either. Both are reported as persistent. `ResolvesToTarget`
   in `pointer_chains` says when a chain does resolve (`FirstInFile`, `Relocatable`).
3. `program_empty_spec`: `h_scan_next` tests the optional specification and reads it
   without the session mutex.
4. `ptrace_mem_fails`: `open()` sets `pid_` last, so an error before that
   is cleaned up with pid 0 and the target stays stopped as long as the thread lives.
5. `page_stale_poll`: `pollOnce` does not look at `state.jobId` again after its `await`
   (`app.js:351`). When a launch is answered while the page tracks another job, the answer
   about that job finishes the polling of the new one and runs its callback. One click is
   enough: after F5 the status is late and names a job of another tab (or of the page
   before the reload), that job ends, the click gets the next one, and its answer comes
   when the page has just begun to poll the first. Two quick clicks do as well, when the
   first job ends early. A completed first job lets `refreshStatus` pick the second up
   again; if it failed or was cancelled, the page has lost the second for good.
   `page_jobs` shows that nothing else loses a job.

### What the models also show

Behaviours of the code that disagree with a comment or a document, or that a caller
may not expect. They follow from the models but have no run of their own.

- *Cancel overtakes start.* `request_cancel()` reads QUEUED (`web/jobs.cpp:202`),
  the worker starts the job, and `cancel()`, which accepts RUNNING too, ends it
  CANCELLED while its task goes on to run; its flag is set right after, so the task stops
  at the next block, but the API has already reported a job that is over.
  `JobService` therefore does not promise that a cancelled job's task is idle.
  `web/jobs.h:122-124` describes the two cases as distinct.
- *Two shutdowns.* Two concurrent `shutdown()` calls: one moves the handle out
  (`web/job_runner.cpp:40`), the other finds none and returns while the first waits.
  `web/job_runner.h:72-74` promises the wait to every caller. `main.cpp` calls it never.
  `ShutdownWaits` therefore accepts a return while another `shutdown()` waits.
- *Nobody calls `stop()` or `shutdown()`* outside the tests. An error of `accept` ends
  `run()`, `run_web` returns, and the process exits with its connection threads alive
  (`WebServer`'s `Exit`) and, `JobRunner` having no destructor, with a joinable
  `std::thread` if a job was ever run, whose destructor ends the process by
  `std::terminate`.
- *A worker thread that cannot be made.* `run()` takes the slot (`web/job_runner.cpp:17`)
  before it constructs the `std::thread` (`:18`). If that throws, the exception skips the
  `request_cancel` of `start_job` (`web/api.cpp:204-206`) and ends as a 500 at
  `web/api.cpp:328`: the job stays QUEUED and the slot taken, so that no job runs again,
  although `web/job_runner.h:85` has `active_` 0 when there is no worker. A cancel
  ends the job and frees the registry, not the slot: each later job is refused by `run()`.
  `RunLaunch` has this outcome; `JobsEnd` and `RunnerBecomesFree` except that one
  job and slot (`Stranded`) and promise everything else also in its presence.
- *`changed` after `changed`.* A dynamic candidate keeps the bytes under the wildcards
  only, and the others are taken from the pattern (`scanner.h:71-88`). After a `changed`
  scan they need not be what that scan read, so that a second `changed` keeps, and
  `unchanged` drops, what has not changed since, against `README.md:210`.
  `RemembersLastScan` and `FoundIsExact` take the pattern for them (`Shown`).
- *A `run()` between the two critical sections of `shutdown()`* starts a job that
  `shutdown()` waits for and has not cancelled.
- *Detach forgets nothing in the table.* `Session::detach` leaves the entries fresh, and
  `attach` marks them stale only when it replaces another process
  (`session.cpp:14-24`): attach, detach, attach another shows entries of the first
  process as fresh, against `README.md:244-245`. `FreshEntriesBelong` makes an exception
  for them, for entries from a file and for those added with no process attached.
- *The type of a next scan is checked before the job runs* (`web/api.cpp:556`); by
  then the results may be of another type, against `README.md:552-555`.
- *`scan_type`* is not set by the web handlers (`application.cpp:280`), and set before
  a scan that may fail by the command line (`command.cpp:266, 289, 309`), although
  `session.h:53` calls it the type of the last scan; an entry added from results takes it.
- *`resolve_entry` reads disabled entries* (`application.cpp:520-540`;
  `README.md:242-243` says they are skipped).
- *A signal held while the target is stopped is lost*: `PTRACE_DETACH` passes none on
  (`memory.cpp:150`).
- *A request that fits may be turned down.* `read_request_head` counts the bytes of
  the body that came with the head against the limit of the head
  (`web/server.cpp:119`): a head above about 4 KiB (8192 + 4 less one buffer of 4096)
  with a body that ends beyond 8196 bytes is answered 400 or handled depending on how
  it was cut into segments. `AnswerFits` promises the answer to all other acceptable
  requests (`Comfortable`).
- *A refusal may not arrive.* 503, 413 and the 400 of a bad head are sent and the socket
  closed with unread bytes in it, which makes the kernel reset the connection; the
  model does not follow the answer to the client.
- *A page never gives up.* Any error of a poll but 404 is retried for ever
  (`app.js:343-348`), also the 401 after a restart of the server with another token.
- *Pattern hits survive a change of process* (`web/api.cpp:598-618`).
- *`max_chains` holds for each level*, not for the total that `pointer.h:68` names;
  a scan of depth d may publish d times as many.

## Not modelled

- Signed and floating-point comparison and the parsing of numbers (`types.h`): functions of
  single values, which unit tests reach. They include that NaN compares equal to every
  number (`types.h:151`), so that an exact scan of a floating-point type finds it.
- The text of tables in `AddressTable::save` and `load`: a line is what `load` keeps of it.
  A module path with a space in it is one of the things this leaves out: the entry is
  written and its line not read back.
- JSON, the parsing of requests, `process.*`, formatting and help texts: functions on
  strings without state between calls.
- In the page, the virtual tables, the Cancel button (a job may end at any moment
  anyhow), attach and detach, and what is drawn. The server never forgets a job, so the
  404 of a poll is left out.
- Other threads of the target while it is scanned: `ptrace` stops the main thread alone.
  In `Scanner` the target writes and unmaps between scans; a scan over memory that
  moves has no single answer to compare with.
- Reads that fail inside a readable mapping, and mappings that change between the
  reading of `/proc/PID/maps` and the stop of the target, in `PointerScan`; in `Scanner` such a
  region is listed and refuses every read (`Refused`).
- The `SIGSTOP` that `PTRACE_ATTACH` leaves pending behind another signal
  (kernels without `PTRACE_SEIZE` only).
- The Roblox tools: Lua programs with no state or message in common with the scanner.

## Plan

What is done and what is left, in order of importance.

1. *Done.* The job layer: `Jobs`, `JobRunner`, `JobService`, their runs and proofs.
2. *Done.* `Scanner`; `Session`, `WebApi`, `CommandLine`, `Program`; `PtraceMemory`;
   `PointerScan`.
3. *Done.* `WebServer` and `Page`, their runs and proofs; `ShutdownWaits` as a theorem.
4. *Done.* Proofs about `Program`, `PtraceMemory`, `Scanner` and `PointerScan`; the
   safety properties of all runs are theorems.
5. Left: a refinement of a search specification of its own by `Scanner`, as `JobRunner`
   has in `JobService`.
