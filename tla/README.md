# A verification project for lcl-fastapi

lcl-fastapi (`src/src/lcl_fastapi`, Python) turns a FastAPI application into a locally
supervised service. A *master* process (gunicorn's arbiter on Linux, uvicorn's multiprocess
supervisor on Windows) starts *worker* processes. All coordination between the master, the
workers and the command line goes through small JSON files in one state directory, POSIX or
Windows file locks, signals and loopback HTTP. Inside a worker, an asyncio loop serves requests
and *background workers* run user coroutines on threads of their own. Two of the examples are
applications with pages and protocols of their own: a playground for LCL programs (`examples/playground`)
and a directory monitor that pushes what changed to its pages (`examples/directory_monitor`).

This directory models that coordination, and the two applications, in TLA+, checks it with TLC on small instances, and
proves the results that matter most with TLAPS for every value of the constants.

## Inventory: components, state, operations

| Component (source below `src/lcl_fastapi`) | State it keeps | Operations | Hard behaviour | What makes it correct |
|---|---|---|---|---|
| State files and process identities (`runtime/state.py`) | JSON files, `flock` files | `read_state`, `atomic_write`, `file_lock`, `is_live`, `live_workers` | PIDs are reused, zombies, a process dies inside a lock, Windows readers make a replace fail twice | a record names one exact process; a lock dies with its holder |
| Worker-number leases (`runtime/lease.py`) | `leases/<n>.json`, `leases.lock` | `acquire`, `release` | several workers and a cleaning master interleave; crash between two steps | one process per number; no number leaks |
| Service ownership (`runtime/service.py`, `runtime/common.py`) | `service.lock`, `runtime.json`, `control.token`, `shutdown.json`, `reload.json`, pid file | `service_runtime`, `cleanup_stale`, `stop`, `send_shutdown`, `inspect_status` | a crashed master whose orphans still live, a forked child that leaves the inherited scope, markers of a previous start | one master per directory; a start never acts on another start's marker and removes only its own state |
| Worker runtime (`runtime/worker.py`) | `workers/<pid>.json`, lease, watcher thread | `worker_runtime`, `publish`, `request_shutdown`, `watch_worker_shutdown` | master replaced between two reads | a worker belongs to one live start; an accepted shutdown stops that start only |
| Hot reload (`runtime/reload.py`) | pending change, retiring worker | `accept_change`, `tick` | change during a retirement; retiring process vanishes or its PID is reused | one worker at a time; no change is lost; shutdown wins |
| Platform supervisors (`runtime/linux.py`, `runtime/windows.py`) | native worker table | reap, kill, spawn, signal wait | signal handling interleaves with the control loop | only verified processes are signalled |
| Controller (`runtime/controller.py`, `controller_writer.py`) | armed retirement deadlines, seen workers, journal offsets, log writer | `background_tick`, `retire`, `tick`, `controller_fork` | deadline against late exit, reused PID, fork with an open writer | an overdue worker is killed, no other process ever is; only the creator writes |
| Background thread (`background/thread.py`, `bridge.py`, `attempt.py`) | thread status, stop event, entry task, bridged API tasks | `initialize`, `run`, `stop`, `submit`, `drain`, restart | two threads, two loops, cancellation at any point, a second `stop` | the entry ends once stop is asked; no bridged call outlives its attempt; done is reached |
| Background manager (`background/manager.py`) | threads, pump task, retirement task | `start`, `publish`, `stop`, `retire` | repeated cancellation of the stopper, journal failure during retirement, start failing midway | every started thread is stopped, joined and reported |
| Background journal (`background/journal.py`) | event queue, journal file, reader offsets | `emit`, `flush`, `read`, `expired` | reader and writer are different processes, worker dies between append and read | each event delivered at most once, in order, and none lost while the file is readable |
| File verbosity control (`verbose/*`) | target file, cached state, observations | `observe`, `refresh`, `update`, `status` | stale cache, update racing refresh, cancelled HTTP update | revision never goes back in any process; a reported revision is the target |
| Health sampler (`health/sampler.py`) | latest sample, publication task | `start`, `refresh`, `stop` | cancellation while a thread publishes | nothing is published after the sampler stopped |
| Request failure reporting (`middleware/*`, `errors.py`) | context variables, reported-failure mark | request context, report, handle | nested handlers, identity of exception objects | each failure is reported once |
| Service object (`service.py`) | lifespan resources | `worker_lifespan`, `shutdown` | failure while starting the n-th resource | teardown in reverse order of what was started |
| Configuration, routes, CLI, rendering, docs (`config*.py`, `cli/*`, `render/*`, `routes.py`) | none that changes | parsing, validation, formatting | none concurrent | pure functions |
| Playground (`examples/playground`: `static/app.js`, `engine.py`) | the page's session, report, trace, cursor and buttons; the engine's sessions | `start`, parse, evaluate, step, play; `dispatch` | several calls of one page in progress, answers overtake each other or are lost, sessions expire | only a parsed program is offered for evaluation; the replay stays in its trace; no button stays disabled |
| LCL highlighter (`examples/playground`: `static/lcl-highlight.js`) | none | `tokenize`, `highlight`, `render` | ordered alternatives with backtracking, unfinished strings | the backdrop shows the text that was typed, coloured as a scanner reads it |
| Directory monitor (`examples/directory_monitor`: `events.py`, `files.py`, `app.py`, `static/app.js`) | inventory with its revision, a queue for each stream, the page's snapshot and table | `scan`, `publish`, `stream`, `save`, `refresh` | changes during a scan, slow pages, lost streams, restarts | every page ends up with what is in the directory |
| Other examples and scripts | none | | | |

(The last four are below `src/examples`.) Interactions: the master publishes `runtime.json`; each
worker reads it, takes a lease, publishes an observation and writes background journals; the
controller inside the master reads those journals and observations, arms retirements and kills
overdue workers; the reload watcher retires worker after worker; the HTTP control routes of a worker
write the shutdown marker and the verbosity target, which every other process polls. The examples
use the service as their host: the playground's engine runs commands one at a time behind HTTP
routes, the monitor is a background worker that publishes on the API loop through the bridge; their
pages are JavaScript in a browser.

## Modules

| Module | Models | Checked by | Proved in |
|---|---|---|---|
| `Processes` | the process table as `runtime/state.py` sees it | every run of a module that extends it | |
| `LeasePool` | abstract: worker numbers and who uses them | `lease` | |
| `WorkerLease` | `runtime/lease.py`, `file_lock`, the lease part of `cleanup_stale` | `lease` | `WorkerLeaseProofs` |
| `AttemptBarrier` | abstract: an attempt ends when no call is active | `bridge` | `ServiceBridgeProofs`, `BackgroundWorkersProofs` (implemented twice) |
| `ServiceBridge` | `background/bridge.py` on an asyncio loop | `bridge`, `bridge_spin` | `ServiceBridgeProofs` |
| `BackgroundThread` | `background/thread.py` against `stop()` | `thread` | `BackgroundWorkersProofs` |
| `BackgroundJournal` | `background/journal.py` on both sides of the file, the retirement clocks of `runtime/controller.py` | `journal` | `BackgroundJournalProofs` |
| `HotReload` | `runtime/reload.py` in the loop of the native manager of `linux.py` and `windows.py`, with the workers | `reload`, `reload_stop` | `HotReloadProofs` |
| `ServiceOwnership` | `runtime/service.py`, `file_lock`, the service record of a worker, shutdown requests, verbosity updates | `ownership` | `ServiceOwnershipProofs` |
| `WorkerLifespan` | `worker_lifespan()` of `service.py`, `health/sampler.py`, `background/manager.py` | `lifespan` | `BackgroundWorkersProofs` |
| `FileVerbose` | `verbose/control.py`, `storage.py`, `submission.py` | `verbosity` | `FileVerboseProofs` |
| `Replay` | the replay of an evaluation in the playground's page | `playground` | `ExamplesProofs` |
| `Highlight` | `lcl-highlight.js`, and a scanner to compare it with | `playground` | |
| `Workbench` | the playground's page and engine; composes `Replay` and `Highlight` | `playground` | `ExamplesProofs` |
| `DirectoryObservatory` | the directory monitor: scan, inventory, streams, page, uploads | `directory` | `ExamplesProofs` |

`WorkerLease`, `BackgroundJournal`, `HotReload`, `ServiceOwnership` and `FileVerbose` extend
`Processes`; they are five views of the same master and workers, each with the files and steps that
its questions need. `ServiceBridge`, `BackgroundThread` and `WorkerLifespan` are three layers inside
one API worker: the lifespan starts the manager, the manager the threads, a thread's attempts the
bridged calls. The `MC*` modules add only what TLC needs: a symmetry set, numbers for PIDs, or a
bound on the processes in all.
`WorkerLifespan` and `DirectoryObservatory` name their specifications `LifespanSpec` and
`DirectorySpec`, because a proof module extends each of them together with another model.

### Processes

A PID is a slot that is free, running or a zombie; `born[p]` is the creation time of its last
process, so `[pid, created]` is what `process_identity()` persists and `IsLive` is `is_live()`. A
zombie is not live, and its PID is reused only after its parent has waited for it (`ServiceOwnership`,
which asks nothing of zombies, has both in one step, `End`). `MaxBirths`
bounds how many processes may use one PID in turn; with 2, every confusion of a PID with a process
that can be made once can be made.

### WorkerLease and LeasePool

`Acquire` is `acquire()` up to the lock with its validation; `Pass`, `Choose`, `Exhaust` and
`Write` are one turn each of the loop in the lock; `Release`, `Compare`, `Unlink` are `release()`;
`Clean`, `Inspect`, `Cleaned` are the part of `cleanup_stale()` that removes leases. Every one of
them is a step between which other processes run or the process dies; `Die` lets the kernel
release the `flock`. `Fails` is an `OSError` at the lock, in reading, writing or removing a file, or
at the unlock (lease.py 60): the file stays as it was, the lock is freed when its stream is closed,
and nobody calls again (worker.py 178-184). After a failed release the process is `unreleased`: it
does not use its number any more, but its file blocks it for as long as the process runs. This is the
exception `PassesOnlyOccupied` makes; with the end of the process the number is free.
`LeasePool` is what Snowflake IDs need: `Claim` a number that nobody uses, `Cease` to use it.

### ServiceBridge and AttemptBarrier

The API loop is a queue of ready handles, run first in first out. A submitted call is a handle
`create` (the callback of `run_coroutine_threadsafe`), then a task with steps; a task's end queues
its callbacks in the order they were added: the chained Future's, `completed()`, the gather's.
`Cancel` is the cancellation of the chained Future, queued by the submitter. `Drain` is one turn
of `while self.tasks` in `drain()`. `asyncio` is not in the repository: its order guarantees are
modelled from how `bridge.py` uses them and are marked external.

### BackgroundThread

`pc` walks through `WorkerThread.run()`, every statement that may raise has its way out (`Raise`),
and `DeliverCancel`, `CloseAttempt`, `ExitScope`, `Close`, `Report` are the `finally` chain.
`SetEvent` and `CancelEntry` are the two halves of `stop()`, called by `publish()` and by
`retire()`. The bridge appears as the promise of `AttemptBarrier`: `CloseAttempt` returns when no
call is active. The log and configuration scopes of an attempt are one scope that may fail.

### BackgroundJournal

A worker emits three events: started, stopping (which announces its deadline) and retired. `Flush`
appends the next ones, or part of a line, or fails - the queue in the worker is first in first out
and its events may wait in it for any time, so that the model keeps only the number of those
written, and a torn line as `Garbage` in the file or in its `tail`. The controller's tick is `Tick`,
then for each journal `ReadLine` until `EndOfFile` and `Check`, which removes it when its process has
ended, then `ReadDone`, `Expire`, `Kill`. `ReadFails` is an `OSError` in any of the reading, also of
the removal. `Retire` is `controller_retiring()`. Journals have the PID as their name, so a new
worker with an old PID appends to the journal the old one left. A
permanent `OSError` of a flush is a worker that never flushes again.

### HotReload

One start with hot reload, which forces one API worker. The master's loop is `wait` (the native
manager reaps and replaces) - `overdue` (`background_tick`) - `tick` - `poll` - `observe` - `clock`
- `deliver` - `signal` - `retired`, one label for each place of `ReloadWatcher.tick()` where another
process may come between; an exception in any of them is `TickFails`. `stop`, `terminate`, `join`
and `out` are the end of the native managers. A worker goes from `boot` over `imported` (its code
version is what the files were then) to `work` when it has published, and over `leave` and `left`
out. Both platforms are in one run: on Linux `Signal` sends SIGTERM to the PID that was verified one
step earlier; on Windows `Deliver` writes `reload.json` and the worker's watcher thread compares it
with its own identity. `watch()` is a generator, so the files are watched from the first `next()` on
(`WatchStarts`; docs/runtime.md 50-52): an earlier `Edit` is not reported, and a worker that had
imported before it serves older code until a later one. `origin` is the version of the files at that
moment; `NoChangeLost` and `ChangeTakesEffect` are about edits after it (`Reported`). The log line
of that moment, by which automation knows that it may edit, is left out, and with it the owner test
for a forked watcher, its close, and edits that are no Python file or outside the roots, which
change nothing. `MaxProcesses` bounds how many processes there are in all.

### ServiceOwnership

Masters that are started on the same directory at any time, and their workers. `Open` is one
statement of the entry of `service_runtime`, in the order of `Opening`; `Close` one of its exit, in
the order of `Closing`; each may be the last (`OpenFails`, `CloseFails`, `Die`). A file's content is
the start that wrote it. On Linux a worker is forked inside the scope: it shares the lock (`flock`
belongs to the open file) and unwinds through the same `finally`, where only the creator's PID may
clean and unlock. `Stopped` is the end of the native manager, by return or by exception: the
controller calls of its stop read journals and observations and may raise `OSError` before any
worker is signalled or joined (linux.py 167-176, windows.py 50-73), and Gunicorn does not wait after
its last sweep. The scope is left all the same, with workers at work. `Terminate` is the marker by which the
Windows manager asks its own workers. `Verify`, `Mark`, `Signal` are `request_shutdown()`; `ReadTarget` and
`WriteTarget` are the check and the write of a verbosity update.

`asked`, `told`, `left`, `disturbed` are history variables: they guard nothing. A start is
*disturbed* if its manager left it with workers, or if workers of an earlier start are at work when
it takes the lock: on Linux after such an exit of the earlier one (as long as its master has not
unlocked, forked workers keep the lock), on Windows also after the death of its master. A worker of another
start can do two things to a disturbed start, and the properties except no more: replace or recreate
the verbosity target, if its update is between check and write (`Lasting(i)` is without `control`
then), and on Linux signal the PID of the master that it knew, which the new one may have got
(`StoppedByOwnRequest`). Record, token and PID file are written by masters only and are covered for
every start. Left out: the value of the token (a client may present any), the
files that name a worker or an observation, and `logging-control.lock`, which is between workers.

### WorkerLifespan

Four tasks share the API loop of a worker: the lifespan (`at` is where it awaits), the sampler, the
manager's pump and its retirement; the publication of the worker's state and the background workers
run on threads. A step runs from one await to the next. `Cancel` may come to the lifespan at any of
them; it waits as `interrupted`, or as `stirred` where the lifespan awaits the sampler, and every
step of the lifespan's normal course needs its absence (`From`), while those that also serve as an
exit take it (`Fail`). `Clear` is the `finally` of `worker_lifespan`: setting the manager to `None`
and cancelling the sampler is one step of the loop, between any two steps of the publishing thread
(`Look`, `Take`, `Write`). `LaunchNext` is the loop of `BackgroundManager.start()`, `Retire`,
`Gathered` and `Pumped` are `retire()`, `Pump` and `PumpFails` are `publish()`. `thrown` is what
reaches the business lifespan after its `yield`. Left out: a service without background workers,
which has no manager, and a removal of the worker's file that fails.

### FileVerbose

One start of a service. Every process has one observer: `Load`, then again and again `Refresh`,
`Adopt`, `Report` (the sampler's publication in a worker, the tick of the controller). A call of
`set_file_verbose()` is a number: `Ask` starts its thread, `Enter`, `ReadTarget`, `Check`,
`WriteTarget`, `Store` are `update()` in `logging-control.lock`, `Fails` is an `OSError` in any of
them or the revision test, and `Return` ends the caller in `finish_file_update()`. That function
waits for the thread in a loop which a cancellation of the caller does not end; that no update
outlives its caller is therefore the guard of `Return`, and no property. Left out: cancellations of
callers, adoption of the setting by log records, which reads the cache, and the record format.

### Workbench and Replay

JavaScript runs one function at a time, up to its next `await`. A function that awaits an answer is
an element of `Call`: `NewSession`, `Parse`, `Evaluate` and `Load` begin one, `Deleted`, `Restored`,
`Created`, `Parsed` and `Replayed` are what it does after the await. Between them the user goes on:
`Type`, `Pick`, the other buttons (a disabled button is a guard) and `Watch`, which is the replay -
`Previous`, `Forward`, `Slide`, `Play` and the `Tick` of its interval timer. `Load` is a new page in
the same tab: the session's name is kept in `sessionStorage`, requests of the old page still reach
the service (`orphan`); `Load` assumes that the browser shows the new page with its buttons as the
markup has them, and does not restore their `disabled` state. The service takes one command at a
time (`Serve`), in any order, and removes what has expired first; `Idle` and `Restart` make sessions
vanish, `Lose` is a connection that fails before or after the request was served. A program is a
name: what matters of it is whether it parses, and of an evaluation how many events it recorded.
`overlapped` and `calm` are history variables: the text was changed while a call was in progress;
the user always waited and nothing was lost. Left out: the drawing of trees and tables, which only
shows `report` and `drawn`; the expiry time; commands of other pages, whose sessions only count
towards the limit.

### Highlight

The regular expression is translated alternative by alternative into matchers. A matcher gives, for
each place of the source, the places where a match may end, in the order in which a backtracking
engine tries them: `Many` is greedy, `Few` is lazy, `Or` is ordered, and the look-aheads are `Before`
and `Unless`. `Tokenize` takes the first alternative that matches, `Markup` is `highlight()`, and
`TextContent` is what a browser shows of it. `Region` is the reference: a scanner that reads a source
once and knows of strings and comments only. `Distorted` and `Miscoloured` are the contents of an
editor on which the two disagree, of those in `Values`.

### DirectoryObservatory

`List`, `Stat` and `Publish` are a scan of the monitor's thread: names first, then one `lstat` after
the other while others change the directory (`Change`) and uploads go on (`Submit`, `Open`, `Save`);
the publication is a call on the loop that compares, counts the revision and coalesces. `Connect`,
`Send`, `Receive` are a stream of server-sent events with its queue of one snapshot and what the
sockets hold (`wire`); `Files` and `Refresh` are the page's own request for the inventory, whose
answer may arrive later than newer events. `Break`, `RestartService` and `Reload` are a lost stream,
a new service and a new page. A snapshot is complete: contents, the names whose `lstat` failed, and whether
it was cut at `max_entries`. Left out: depth and names of directories, sizes and times (a content
stands for them), the filter, which selects from what is shown.

## Runs

| Run | Instance | States | What it shows |
|---|---|---|---|
| `lease` | 2 PIDs used twice, 2 numbers | 29 659 | `UniqueNumber` through deaths in the lock, errors, PID reuse, repeated release and cleanup; `PassesOnlyOccupied`: a number is blocked by a running process that has it, is giving it back or failed to; `AcquireReturns` although processes die in the lock; the files implement `LeasePool` |
| `bridge` | 3 calls, 2 attempts | 640 663 | the barrier is implemented, no task is cancelled twice or before it has registered, and `close_attempt` returns unless `drain` spins |
| `bridge_spin` | 1 call, 1 attempt | violation | finding 1 |
| `thread` | 2 calls, 3 attempts, 2 stops | 1 533 | no missed cancellation, a finished thread leaves no call and no unanswered start, every stop ends |
| `journal` | 1 PID used twice | 699 268 | order and no duplicates, no loss while the worker lives, only a stopping or retired worker is killed; a retired worker is killed although its journal may never be readable, and an announced stop ends |
| `reload` | 2 PIDs used twice, at most 3 processes, 2 edits, both platforms | 1 956 320 | no change made after the watch began is lost, only the observed worker is retired, shutdown wins, the last change takes effect |
| `reload_stop` | 1 PID, 1 edit | violation | finding 2 |
| `ownership` | 3 PIDs used twice, at most 5 processes, both platforms, PIDs symmetric | 5 669 198 | one owner; its files are its own, it is stopped only by its own request and nothing is left, with the exceptions for disturbed starts |
| `lifespan` | 2 background workers, 2 cancellations | 18 942 | nothing is published after the worker's file was removed, business teardown comes after the threads and sees the right exception, the sampler dies of cancellation only, the lifespan ends |
| `verbosity` | 2 PIDs used twice, 2 updates | 294 521 | no revision goes back, nothing is ahead of the target, all processes converge |
| `playground` | 3 programs, 3 sessions of which one at a time, 2 calls in progress, 1 length; 9 102 editor contents | 1 600 714 | "Evaluate" is offered only for what was parsed and runs what is shown, "Parse" never stays disabled, a user who waits sees what the service has, the replay stays in its trace; the backdrop shows the text, coloured as a scanner reads it |
| `directory` | 2 files, at most 1 in a snapshot, 2 edits, 1 fault | 1 531 772 | nothing is missed by a stream, revisions arrive in order, every page ends up with what is in the directory |

Why these bounds. A confusion of identities needs one PID with two processes in turn and another
process that looks, hence two births. A third PID adds a worker between two masters (ownership),
where five of the six possible processes may start (`MaxStarted`): two masters on one PID, two on
another and a worker of any of them, or three masters in turn with a worker each of two; for leases
two PIDs are a holder and a cleaner or competitor, and the safety properties also hold with three
(301 003 states with symmetry, which liveness excludes). A reload needs a worker, its successor and
a process that takes over a PID, hence `MaxProcesses` = 3. Two numbers give a scan something to
pass. Three calls give `drain` one that is done, one that is being cancelled and one that is
submitted by another. Two edits put one before and one during a retirement. In the journal all
processes share one PID, which is the case where files, offsets and identities can be mixed up;
journals of different PIDs meet only in the order they are read and in a failing read. Two
cancellations are one that is kept and one that comes while it is kept, and two background workers
are one that runs and one that is not started yet. Two updates are two that overlap, or a second
over a cache that lags; three, with one birth each, give 1 445 183 states and the same result in 3.5
minutes.

In the playground two functions of the page in progress are every pair that can overlap: their
conflicts are over one session, one report, one trace. Three programs are two that are confused and
one that does not parse; one session at a time makes the limit and a replaced session happen; three
names leave a fresh one while the page and an answer still hold old ones. Traces of two events have
a first, a last and both ends; with empty traces besides (`Lengths = {0, 2}`) the run has 2 166 553
states and the same result. The editor contents are all those up to three to seven characters over
five small alphabets, one for each part of the expression that can be confused with another: quotes, escapes and
line ends; prefixes and comments; numbers; operators; names. The directory monitor needs two files for a
scan that sees one before and one after a change, a limit below two to cut one off, two edits for
one that makes a scan wrong and one that comes when the stream is full, and one fault of each kind.

Deadlock is checked where the system always has a step (`BackgroundJournal`, where the controller
ticks for ever; the playground, whose user can always type; the directory monitor, which scans for
ever). In the others the bounds, or a finished thread or service, stop it.

Each property of a passing run has a *mutant* (`PROJECT.json`): a plausible error in one
definition that makes TLC find the property violated under the run's own configuration, for
example a lock file that outlives its holder, a test of the PID instead of the process, a reload
that forgets an earlier change. The mutated forms stand before the definitions they replace and are
marked "mutant".

### Fairness

- `WorkerLease`: a process that runs takes its steps (weak), and `flock` serves a waiter that finds
  the lock free again and again (strong). Nothing of deaths, reaping or callers.
- `ServiceBridge`: the loop runs its ready handles, and what a *cleanup* awaits comes
  (docs/background-workers.md asks it to be bounded). Nothing of what an operation awaits
  otherwise.
- `BackgroundThread`: the thread and `stop()` proceed; a synchronous entry ends once its stop event
  is set and an asynchronous one once it is cancelled, as docs/background-workers.md requires of
  entries; submitted calls settle in `drain` (from `ServiceBridge`, apart from finding 1).
- `BackgroundJournal`: the master keeps ticking and time passes. Workers may do nothing for ever,
  and reads may always fail; `AnnouncementEnds` says itself that reads succeed again and again.
- `HotReload`: the master's loop turns, ended workers are reaped, clocks run, the master notices a
  marker or signal, a worker gets through its startup or dies, and its watcher thread polls. A
  worker that was told to leave may hang in its teardown for ever.
- `WorkerLifespan`: what a task awaits comes, and a background thread ends when told, as
  docs/background-workers.md asks. The server may serve for ever.
- `FileVerbose`: threads proceed and the observer's interval passes (weak); a report may fail, but
  not for ever (strong). Nothing of callers, updates that fail or deaths.
- `DirectoryObservatory`: the monitor's thread scans again and again, the loop sends, the browser
  connects again and takes what arrives (all weak). Nothing of users, uploads, faults or `refresh()`.
- `ServiceOwnership`, `Workbench`: none; all their properties are safety.

## Findings

1. `bridge_spin`. When every task in `ServiceBridge.tasks` is done but its `completed()` callback is
   still queued behind `drain()`, `asyncio.gather` of finished tasks gives a finished future (Python
   3.12 and later), awaiting it does not yield, and `while self.tasks` never lets `completed()` run:
   the API loop stops. The document promises that it stays available
   (docs/background-workers.md 141).
2. `reload_stop`. On Windows the clocks of a stop are armed once, for the workers observed then. A
   worker that is still starting has no deadline; if its teardown hangs, the master waits for ever
   (windows.py 50-73; docs/runtime.md 146).

## Proofs

The theorems hold for every set of PIDs, numbers, calls, births, attempts and stops that satisfies
the `ASSUME` of the module: naturals, and markers such as `NoRecord` that are none of the values
they stand beside. TLC evaluates each `ASSUME` in the runs. The inductive invariants of
`BackgroundJournalProofs`, `HotReloadProofs`, `ServiceBridgeProofs`, `BackgroundWorkersProofs`,
`FileVerboseProofs` and of the directory's part of `ExamplesProofs` were invariants of TLC runs on the
instances above before they were proved. Two proof modules are about two models each, which share no
variable: `BackgroundWorkersProofs` about the threads and the lifespan of a worker, `ExamplesProofs`
about the two example services.

`WorkerLeaseProofs`. `UniqueNumber` is not inductive: two workers could hold one number if a file
could name neither of them. `Agreement` relates lock, files and program counters at every step:
only the holder is in the lock, a used number's file names its user, a file that names a live
process belongs to one that has not removed it or failed to, and a number that was chosen stays free until it
is written. `TypeOK /\ Agreement`, which TLC
checked before it was proved, is inductive (`TypeStep`, `AgreementStep`); from it follow
`Uniqueness`, `NoLeakedNumber` and `Refinement`. Each step of the refinement is a claim
(`WriteClaims`), an end of use (`EndingCeases`) or a stutter (`SameUsers`).

`ServiceBridgeProofs`, for any set of calls, nested submissions and attempts. What is promised
depends on the order in which asyncio runs its handles, so the invariant (`LoopInv`) is about the
loop's queue:

- `Handles`: what each queued handle says of its call's task, and that no handle is queued twice. A
  call whose first step has not run has it queued.
- `InTurn`: the order. `drain()` is created behind the creation of every call, and when its turn
  comes no first step and no cancellation by a submitter is still queued; so it knows every call that
  is pending (`AllKnown`).
- `Turns`: only a closing worker has a `drain()`, which is queued once, waits in `gather()` or spins.
- `Registered`, `Ended`, `Cancelling`: who is in `tasks`; when an attempt has ended no call is
  active; and a queued cancellation finds a call that has not been cancelled.

`CancelledOnce` alone is not inductive, since the second cancellation may be in the queue already. The
queue's part of the proof is done once: `Becomes` says what it is for handles to be taken from the
front and added behind, with what stays in order (`Taken`, `Added`, `Joined`); each action says which
handles these are, and `Effects` turns that into facts about the handles the invariant names. Gives
`BridgeTyping`, `CancelledAtMostOnce` and, with `NextRefines`, `BarrierKept`: `Submit`
is the barrier's, a step of a task its `Submit`, `Settle` or `Relay` or a stutter, the return of
`drain()` its `End`, `Restart` its `Begin`, and everything else a stutter.

`BackgroundWorkersProofs`, the thread. The strengthening (`ThreadInv`) says what `pc` implies for
the references that `stop()` reads under the lock, for the two futures, the counters and the active
calls (`References`, `Results`, `Counts`, `Calling`). `NoMissedCancel` is the interesting one: a
stop that comes between the assignment of the task and its await is seen by the second test of the
event. `SettledFirst`: no attempt begins while a call of an earlier one is active; this is proved,
and not among the runs. `ThreadBarrier` joins the two layers: `BackgroundThread` has no bridge, only
a set of active calls, and it is shown to implement `AttemptBarrier` as `ServiceBridge` does. What
one assumes of the other is therefore what the other provides.

`BackgroundWorkersProofs`, the lifespan, for any number of background workers and cancellations.
`Sampled` relates the sampler, its publication thread and the place of the lifespan: it is what
keeps the thread from writing after the file was removed. `Absorbed` is why `SamplerSurvives` holds:
a publication that has found a manager and loses it belongs to a `refresh()` that was cancelled.
`Placed` and `Awaited` say at each place of the lifespan how far the manager's retirement is and
what each of its steps has waited for. Gives `LifespanTyping`, `FileStaysRemoved`, `ThreadsFirst`
and `ErrorsKept`.

`ServiceOwnershipProofs`. Five layers, each inductive relative to those below it:

1. `Base`: types; who has a state runs; no record names a process to come; scopes and records at
   each place.
2. `Owners`: an owner holds the lock (`Holding`), so there is one (`OneOwner`); a worker is never
   the creator of its scope (`Forked`). Gives `Exclusion`.
3. `Workers`: as long as an owner is undisturbed, every worker at work is its own (`Company`) and serves
   it (`Served`); a master has no workers before it serves, nor after it stopped undisturbed
   (`Childless`); the record names its owner or a dead process (`RecordOwner`); nobody serves a
   process that has yet to take the lock (`Unserved`).
4. `Requested`: a marker names a start that was asked, and a bare PID is signalled only while it is
   still the process asked, or that of a disturbed start on Linux. Gives `OwnRequest`.
5. `Files`: a master writes its files in order, removes them in order, and tests the record alone
   before it removes all of them, which is right because the record is written before control and
   PID file (`RecordFirst`); the control of a disturbed start is excepted. Gives `StateIsOwn` and `CleanExit`.

`ExamplesProofs`, the playground, for any number of functions of the page in progress, any programs, any lengths
of traces and any limit of sessions; the assumptions say that `None` is no program, session name or
request, and `Refused` no session. Three layers, of which `IInv` consists:

1. `Watched`: the cursor of the replay is the drawn event or -1, and a timer runs only over a trace
   that has events. Any step of the page moves the replay, or gives it a new trace (`AlwaysMoved`).
   Gives `Replaying`.
2. `Typed`: `Exchange` says of each call what its request needs and what the service answers to it.
3. `Offered`: `OfferedAsParsed` is not inductive, because the answer to "Parse" enables "Evaluate"
   later. `Pending` relates each call in progress to the text it was made for, unless the text was
   changed meanwhile. Gives `Page` and `Offering`.

`ExactWhenCalm` speaks of a page at rest. `Calm` adds the page that
waits: there is one call, none was left behind by an old page, and for each kind of call it says what the
service has before and after serving it (`Creating`, `Deleting`, `Reading`, `Parsing`,
`Evaluating`). A session may vanish at any point, which is why they all allow `Gone`. `Whole`, a
session without a program has no trace, holds in any order of calls. Gives `Exactness`.

`BackgroundJournalProofs`, for any finite set of PIDs. The two actors share a file without a lock, so the
invariant says what each part of the system may know of the others:

- `Hired`, `Journals`: who has a journal has been born, and a journal holds lines of workers that had
  its PID, each worker's in its order and none it has not written, whatever was torn or left by others.
- `Fresh`, `Collected`: what lies behind the offset is later than what was logged or collected of its
  worker, and nothing is collected that was not written. `LoggedInOrder` alone is not inductive: it
  says nothing of the lines that are still to be read. `Fresh` survives a read that fails in the middle, because
  the offset has moved for each line, and the removal of a journal, because the offset goes with it.
- `Lists`: an announced stop that is kept is of a worker that wrote it, and its "retired" is still
  unread; this is what makes `RetiredIsNotStopping` inductive.
- `Justified`: whoever has a clock or is condemned was to retire or said so.

From these follow `Journal`, `LogOrder`, `UnreadIsKept` (a removal comes after the last identity is
dead, and lines behind it are of its heirs) and `NoOtherKilled`.

`HotReloadProofs`, for any number of edits and processes and on both platforms. `NoChangeLost` is not
inductive: it speaks of workers that serve, and a change may come while one is still importing
(`Current`). That a retirement takes the place of a pending change needs to know whom it retires, at
each place of `tick()`: `Slots` (one worker at a time, and a PID's slot agrees with its process),
`Records` (an observation is of the worker that published it), `Observed` (between the choice and the
end of a retirement the observed worker cannot be replaced, since the master that would wait for it is in
the tick itself), `Sent` and `Marked` (a retirement ends when its marker is written or its signal
sent, and a marker names the worker that is retiring or nobody that lives). Frame lemmas say once what
each variable's few writers are; the steps cite them. Gives `Reloading`, `OnlyTheObserved` and
`ShutdownFirst`.

`FileVerboseProofs`, for any number of processes and updates. The order "report, what is about to be
reported, cache, target" (`Behind`) is kept by an observer that adopts newer revisions only, and by an
update because who holds the lock knows the target or its successor (`Holders`); an observer is ready
only when its own process has reported (`Observers`), and an update belongs to a running process
whose caller waits (`Callers`). Gives `Verbosity` and `Monotony`.

`ExamplesProofs`, the directory monitor, for any set of files, any limits and any number of edits
and faults. `NothingMissed` and `InOrder` hold each other up: a new revision is greater than all
that are on the way because the last of them is the current inventory. `ClosedEmpty`, a closed
stream has nothing on its way, is what a new connection needs. `Visit` is well defined because a set
of files that is not empty has a least one (`NextName`), by the well-founded order of the naturals.
`QueueAssumption` says that the empty queue's `Absent` is no inventory. Gives `Feed`.

Type correctness is a theorem of its own for `WorkerLease` and `ServiceOwnership` (`Typing`),
`BackgroundThread` (`ThreadTyping`) and `ServiceBridge` (`BridgeTyping`), and not repeated in their
runs; in the other modules it is a part of the invariant that is run and proved.

Only model-checked:

- liveness (`AcquireReturns`, `DrainEnds`, `StopEnds`, `RetirementEnds`, `AnnouncementEnds`,
  `ChangeTakesEffect`, `LifespanEnds`, `Converges`), which TLAPS does not reach;
- `ShowsSource` and `ColoursAsScanned`: they compare recursive functions on sequences
  of characters, over the contents in `Values`, and a proof for all of them is an induction over data.

## What the models leave out

- `KillsOnlyRetiring` is protected twice in the code: the clocks name a process, and
  `terminate_background_process()` compares creation times again.
- `read()` of a journal reads it to its end, then tests whether the worker lives, then removes the
  file: what the worker appends and exits after in between is never read (journal.py 104-108;
  docs/background-workers.md 135 says that journals are removed after
  "the controller consumes their final events"). `KeptWhileLive` therefore says only that
  nothing is lost while the worker lives.
- An `OSError` on the second journal of a tick drops the events already taken from the first, whose
  offsets have moved (controller.py 81). `LoggedInOrder` allows that: what is lost is not logged late.
- A worker that another start has left running can replace the verbosity target of a disturbed
  start, and on Linux signal its master (`ServiceOwnership` above); on Windows a worker spawned by a
  dead master can also take the record of the next start for its own (worker.py 149). When a stop has failed,
  an update under way also creates `logging-control.json` again after the service has removed its
  files: submission.py 12, "so it cannot outlive service state cleanup", holds for workers that the master
  has waited for. The file names an ended start, and the next one replaces it.
- `stop()` verifies the record and then reads the token; with a restart between them the token is
  another start's (common.py 158). The value of the token is not modelled.
- A fork with an open log writer would leave a child with locks and threads that never run
  (controller_writer.py 62): `ControllerFork` below.
- A Linux worker that publishes a shutdown marker and dies before it signals leaves a marker that
  nobody acts on; it disables reload until the next start. `HotReload` counts that as a stopping
  service (`Stopping`).
- A pump that fails asks the service to stop; when that request fails too, its error does reach
  business teardown, which docs/background-workers.md does not exclude. `TeardownUndisturbed` states
  this exception.
- Several API workers and reload by hand (SIGHUP of Gunicorn) are not in `HotReload`.
- Components that are listed as not modelled in `PROJECT.json` are pure (parsing, validation,
  rendering), run once before there is any concurrency (startup, probing), or planned below.

What the playground's page and the directory monitor do not promise. The models contain these
behaviours; the properties are stated so that they allow them.

- An edit while "Parse" or "Evaluate" is in progress: the answer enables "Evaluate" again, for the
  program that was parsed and not for the text (app.js 41, 73, 74). `OfferedAsParsed` excludes this
  with `overlapped`.
- "Play" at the last event sets the cursor to -1, and "Previous" is enabled until the timer fires:
  the position is then shown as "-1 / n" (app.js 77, 79). `ShowsAnEvent` allows it.
- Two clicks on "New session", or a lost answer, leave a session in the service until it expires; a
  restored session overwrites what was typed meanwhile; the trace of one program can stand beside
  the tree of another when answers overtake each other (app.js 58-62, 67, 73). `ExactWhenCalm` is
  about users who wait.
- The answer of `refresh()` may arrive after newer events and replace them in the table until the
  next change (directory monitor, app.js 31-34). `Converges` excludes it with `overtaken`.
- `stat` and the test for a regular file are one step of `Visit`.

## Plan

Done, in this order: `Processes`, `WorkerLease` with `LeasePool` and proofs; `ServiceBridge` with
`AttemptBarrier`; `BackgroundThread` with proofs; `BackgroundJournal`; `ServiceOwnership` with
proofs; `HotReload`; `WorkerLifespan`; `FileVerbose`; the examples: `Highlight`, `Replay`,
`Workbench`, `DirectoryObservatory`; proofs of the `Workbench`, and of `BackgroundJournal`, `HotReload`,
`WorkerLifespan` and `FileVerbose`; proofs of `ServiceBridge`, its refinement of `AttemptBarrier`, and
of `DirectoryObservatory`.

To come:

1. `ControllerFork`: the log writer around a fork (`runtime/controller_writer.py`) and the rest of
   `runtime/controller.py`.
2. The command line's `stop` between two starts (`runtime/common.py`) in `ServiceOwnership`.
3. `StateFile`: the retries of `atomic_write` on Windows.
4. `RequestFailure`: each failure is reported once, through nested handlers (`middleware/*`).
