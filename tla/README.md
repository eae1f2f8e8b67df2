# A TLA+ model of ExileLens

ExileLens watches the clipboard of a Path of Exile 2 player, evaluates a copied
item with a headless Path of Building (PoB) process against the player's build
file, and paints a verdict. It updates itself with a separate updater program, and a
Cloudflare Worker links it to a Patreon membership. This directory holds TLA+
modules of the parts of it in which order, failure and staleness matter, the TLC
configurations that check them, and machine-checked proofs about them. Source paths
below are relative to `src/src/exilelens/` unless they start with `docs/`, `tests/` or `src/`.

## The system

### Components

| Component | State | Operations | Talks to | Correct when |
|---|---|---|---|---|
| PoB lane scheduler (`app/scheduler.py`) | active request, queue, `yield_requested` | submit, complete, complete_by_id, discards | controller, through `_start` | one owner; never idle over a queue; checks and loads are put first; the queue is bounded |
| Worker thread (`_EvaluationWorker` in `app/controller.py`) | `_yield_analysis`, caches | one run_* per request kind | receives dispatched requests, polls the yield flags, emits finished_* signals | each dispatched request is answered once; long work gives way |
| Item Check and build loading (`app/controller.py`, `app/item_check_lifecycle.py`, `app/baseline_capture.py`, `app/build_state.py`, `app/build_revision.py`) | build state, baseline and its generation, remembered file revision, held check, result cache, lifecycle registry, jobs, recovery flags | copy an item, load/reload/change build, loadout and item-set switch, watchdog, finished handlers, recovery | lane, worker, engine client, the build file | no verdict from an older build; every load settles; every check is answered |
| PoB process client (`engine.py`) | process, loaded revision and source, deferred restore | request, load, ensure, invalidate, finalize | PoB process over pipes; reads the build file | the loaded revision is what it says; a hang becomes WorkerUnhealthy |
| Update install transaction (`updater/transaction.py`, `updater/install.py`) | install root, `.update-new`, `.update-old`, backup, `journal.json` | prepare, swap, commit, rollback, restore, undo, recover | file system; started by the app or the startup guard | old or new release as a whole, whatever fails |
| Updater process lifecycle (`updater/install.py`, `updater/winsys.py`, `updater/result.py`, `app/updates/startup_guard.py`, `app/main.py`) | mutex, install directories, journal, `pending.json`, `launch_requested`, `last_result.json` | wait for processes, run a job, recover, write the result, relaunch; defer a launch or start a recovery | app, by files and mutex | never works on an install in use; a complete release whenever no journal exists; one relaunch for one request |
| Update service of the app (`app/updates/service.py`, `outcome.py`, `download.py`, `bootstrap.py`) | availability, verified manifest, download, pre-extracted tree, ready record | session start, check, download, pre-extract, hand over now or at exit, delayed cleanup | HTTP, updater, settings | hands over what was verified; no older release; cleanup spares what is needed |
| Lua bridge and worker (`src/runtime/lua/bridge.lua`, `worker.py`) | PoB build in memory, transactions | JSON requests | engine client | each evaluation is undone |
| Engine preboot, build cache and freshness, single instance and IPC, clipboard and hotkeys | see the sources | | | |
| Evaluation, analysis, tree, gear, market, filters | pure computation over PoB answers | | | |
| Cloud client (`cloud/patreon.py`; telemetry and lease verification beside it) | device, lease, reconnect flag; the link worker and its polls | start a link, poll, cancel, refresh, disconnect | Worker, over HTTP | stores what was delivered; gives up cleanly |
| Cloud worker (`src/cloud/src/patreon/`; telemetry ingestion and policy beside it) | D1 tables `link_sessions`, `patreon_links`, `devices` | session routes, OAuth callback, verify and refresh, unlink, maintenance | Patreon, desktop apps | credentials once; one token call at a time; no authorisation lost; no orphaned device |
| User interface (`ui/`) | widgets | | controller signals | |

The GUI thread runs the controller: user actions, timers and the finished_*
handlers are steps that never interleave with one another. The worker thread runs
one request at a time and talks to the PoB process. The two meet in queued Qt
signals, in the flags of the lane, and in the engine object, which the GUI thread
reads while the worker changes it. The build file is written by PoB at any time.
The updater is another process, which meets the app and the launch guard only in
files and a mutex. The update service works in threads of the app. A request of
the Worker is a sequence of D1 statements and calls to Patreon, and requests of
several devices, the callback of the browser and the six-hourly maintenance run
between any two of them.

### What is hard

* The lane changes hands inside handlers; requests arrive in every stage.
* A decision is made when an item is copied and carried out after loads,
  restores, switches and saves.
* Loads are replaced, dropped, fail, are put back and come back late; a check
  held for a load must be released on each of these paths.
* The PoB process dies at any call, with work queued behind the call.
* The updater dies between any two disk operations, or they fail, and another
  run has to make sense of what it finds.
* A launch, an updater waiting for the program to end, a second updater and the
  delayed cleanup of a started app share one directory and no lock but the
  updater's mutex, which a launch only looks at.
* A Patreon token can be refreshed once. Two devices want to, the answer of one
  may come after a re-link has replaced both tokens, and a call that the desktop
  gave up is still being served.

`PROJECT.json` lists each hazard at its line with the properties that cover it.

## Modules

| Module | Models | Lines |
|---|---|---|
| `PobScheduler` | `BoundedEvaluationScheduler`: operators on the active request, the queue and the flag, for any set of requests | no behaviour of its own |
| `PobLane` | scheduler + worker thread + interrupted analysis, for every kind of request | extends `PobScheduler` |
| `MCPobLane` | kinds for TLC | |
| `PobSchedulerProofs` | what `submit`, `complete` and the discards preserve | shared by the next and `ItemCheckProofs` |
| `PobLaneProofs` | theorems about `PobLane` | |
| `ItemCheck` | item checks, build loads, the build file, the PoB process and its recovery, on the same scheduler | extends `PobScheduler` |
| `MCItemCheck` | kinds for TLC | |
| `ItemCheckProofs` | theorems about `ItemCheck` | |
| `ItemCheckWaitingProofs` | who will answer: theorems about held, queued and painted checks | extends `ItemCheckProofs` |
| `AtomicInstall` | what an update promises: one atomic step | abstract |
| `InstallTransaction` | the journaled transaction, disk operation by disk operation | refines `AtomicInstall` |
| `InstallTransactionProofs` | theorems about `InstallTransaction` | |
| `UpdaterProcess` | the updaters and the launch guard over their files | no specification of its own |
| `UpdateService` | the update service and the life of the app, composed with the updaters and the guard | extends `UpdaterProcess`, refines `AtomicUpdate` |
| `AtomicUpdate` | what the update system promises: one release, replaced while nothing runs | abstract |
| `UpdateServiceProofs` | theorems about `UpdateService` | |
| `PatreonService` | the Patreon routes of the Worker, statement by statement | no specification of its own |
| `PatreonLink` | the desktop side, composed with the Worker | extends `PatreonService` |
| `PatreonProofs` | theorems about `PatreonLink` | |

### PobScheduler, PobLane

`active`, `waiting` and `yield_requested` are `_active`, `_queue` and
`yield_requested`. The queue is sorted by priority and kept as a set: `IsHead`
takes any request of the highest priority, of which the stable sort of the code
takes the oldest. `submit(r, queue)` and `complete(r, queue)` get the queue as a
handler has left it, because handlers discard queued work first.

`PobLane` adds the worker thread. A request is `posted` when
`_dispatch_to_worker` emits its signal, `running` once the event loop of the
worker thread delivers it, `finished` until the GUI thread handles the finished_*
signal. `yield_analysis` is the worker's own flag, written by both threads.
`analysis_resume` is `_analysis_resume`. `outdated` are the requests whose
`baseline_generation` was replaced. `fresh` bounds the model: a request id is
used once. An Item Check that ends in `WorkerUnhealthy` ("error") empties the
queue and, the first time, begins a reload (`ReplaceBuild`); the load that a
booted replacement submits is `LoadBuild` in both cases. A painted check may submit
an upgrade-path request and a decomposition (`FollowUps`), whether it was evaluated
or came from the result cache (`CachedItemCheck`); with the lane idle even then the
interrupted analysis is submitted again. The cache is emptied with the build, so a
hit needs a check of the current build that is back (`CacheMayHit`).

### ItemCheck

File revisions are numbers in the order of saving; `bad` are those PoB rejects.
`parsed` is `_build_file_revision` (with `_last_good_source`, which is set in the
same place); `loaded` is the engine's revision, which the worker thread changes;
`baseline` is the revision the capture ended with and `measured` the one its
metrics and equipment were read from. `generation` is `_baseline_generation`,
`ticket` the generation a check was given, `deferred` the held check, `cached`
the result cache for the one item the checks copy, `phase` the lifecycle registry
reduced to none, pending and the three ends. `job` is `_baseline_jobs` together
with what the queued request carries. `step` is where the worker thread is in the
active request, `result` what it will report, `alive` whether the process lives.

Each handler is one action, with every call it makes: a copied item runs through
the duplicate and validity guards, the look at the file, deferral or submission
and, for deferral, the load it starts (`CopyRefused`, `CopyDeferred`,
`CopyAccepted`). `LoadBuildAsync` has the five ways of `load_build_async`:
a replacement is booting, no engine, unreadable with and without a build to keep,
readable. A load runs as `WorkerLoads` (or `WorkerSwitches`), `WorkerRestores`,
`WorkerCaptures`, because the file, the process and the GUI thread move between
these; it comes back to `OnStaleBaseline`, `OnBaselineFailed`,
`OnBaselineRestored` or `OnBaselineReady`. `WorkerCaptures` is one step with two
reads: metrics and equipment of what is loaded, then `load_tree_snapshot`, whose
`ensure_build_ready` looks at the file again.

`_attempt_recovery` may itself raise (`RecoveryRaises`), before the old worker is
down or after the build was reset for the new one. The build is then FAILED and no
replacement boots, but nothing rejects a check that was held: `stranded` names it,
and the properties that promise a held check its release except it. It stays held
until another build is loaded; the watchdog reports it as timed out.

Left out of it: the other kinds of request (they are in `PobLane`), a second
build path and with it the fallback of `change_build`, `restart_engine`,
exceptions after a result was applied or painted, a rewrite that keeps time stamp
and size, RPC errors of PoB other than a rejected revision or a dead process, and
the lines of the protocol. One branch of the code turned out not to be reachable
with these parts: `_attempt_recovery` with a recovery already attempted. A failed
recovery leaves the build FAILED, checks are refused then, and a successful load
resets the flag (`DeadProcessIsReplaced`, proved for any number of deaths).

### InstallTransaction

`target`, `old`, `new` and `backup` map each top-level entry to the content it has
in the install root, `.update-old`, `.update-new` and the backup. A content is the
number of the job that brought it, `Absent`, or `Torn` (a removal or copy stopped
half-way). Entries are numbered in journal order, the executable last. `entries`
and `hadOld` are the journal. `pc`, `caller` and `todo` are the running updater
and are lost in a `Crash`. `snap` and `cut` are history: the install when the
journal was written, and the entries whose only installed copy a restore from the
backup destroyed and did not bring back. There is one action per disk operation;
each may fail (`PrepareFails`, `SwapFails`, `RollbackFails`, `RestoreFails`,
`UnlinkFails`) and the process may be killed at each. After a failed rename the
journal is read again; when that fails the swap is taken for one that never began,
`.update-new` is removed, and the journal waits for the next recovery. Renames are
atomic. What
`prepare` leaves half-done in `.update-new`, `.update-old` or the backup is not
distinguished: no journal exists then, and the next `prepare` removes it first.
Verification of the package is a precondition of `PrepareNew`; errors of
verification are `PrepareFails`. Silent loss of written data at power failure is
not modelled.

`AtomicInstall` says what a user may see: the installed release changes entry by
entry from one package, in one step, or not at all; only entries at risk, those of
an unfinished restore, may come out different. The refinement maps the installed
release to `snap` while a journal exists and to `target` otherwise.

### UpdaterProcess, UpdateService

`installed`, `old`, `fresh` and `backup` are the install root, `.update-old`,
`.update-new` and the backup, each a release number or 0 for "nothing whole".
`journal` is the swap that wrote `journal.json`. `staging` is a release and whether
all of it is there, because a directory that was being extracted or deleted looks
like a staged one. `pc`, `kind`, `task`, `outcome` and `wants` are the updater that
holds the mutex, `starting` and `relaunching` the ones before and after that,
`guard` a launch on its way through the guard, `app` the application. The actions
are the steps between which another process can act. The swap is three steps here;
`InstallTransaction` has it disk operation by disk operation. What the two have in
common is `UnderJournal`: all that happens to an install while a journal exists is
the last rename (`MoveIn`), the unlink of the journal over a complete new release
(`Unlink`), an undo with `.update-old` in place (`Undo`), an undo cut short
(`UndoCutShort`), or the removal of `.update-new` alone after a failed swap whose
journal cannot be read (`FreshRemoved`). `SwapIsAbstracted` says that the transaction does nothing else,
under a mapping of its entries to releases (1 before the swap, 2 after it, 0 in
between), and `OnlySwapsUnderJournal` that the composed system does nothing else;
both are proved. `damaged` is the `cut` of
`InstallTransaction`, for the whole install instead of entry by entry: a restore
from the backup destroyed something and has not brought it back, so that the next
undo may call the install recovered although it is not the old one
(`install_recovered`). A restore that is cut short may set it or, when an entry
came back before it was cut short, clear it. An updater may be killed in any step, in
an undo too.

`AtomicUpdate` says what the whole of it promises: a release, a job for a newer one
handed over by a running process, and a replacement that begins and ends while
nothing runs. Its `release` is the installed release without a journal and the
moved-aside one with a journal, which is its `interrupted`; its `job` is the one in
`pending.json`. What loosens it is a failure of what keeps the two apart: a guard that
raises, or a look for processes that fails (`unguarded`, `failedOpen`).

`UpdateService` adds the thread that checks, the download, the pre-extraction, the
ready record, the restore of it at the next start, and the cleanup 30 seconds after
a start, which is one step. The gate of automatic work (entitlement, manifest,
settings, disk space, version tried before) is a free choice. A cancelled download
is a failed one.

Two facts of the code shape the properties. A launch whose guard raises, or finds
no updater to start, goes on (`main.py:93`), and an updater that cannot list or open
the processes takes them for none (`winsys.py:132`, `147`) and goes on too
(`WaitForInstallProcesses`); `failedOpen` remembers either, and these are the only
ways in which the application can run from an install being worked on. A launched
process that is still in the guard runs from it as well and leaves by itself:
`InstallNotInUse` speaks of the application. A launch request left by an updater
that ended before it looked (process timeout, invalid job, failed recovery), or
written after it looked, stays on disk and makes a later quiet install relaunch.

### PatreonService, PatreonLink

One Patreon account: its row in `patreon_links` is unique. An access token and the
refresh token issued with it are one number, and `accepted` are those Patreon still
takes. A session has its status and its age in the thresholds the code compares
with (`expires_at`, `EXCHANGE_GRACE_S`, `CONSUME_GRACE_S`). A D1 statement, or a
batch, is one action; so is what a request does between two of them. `callback`,
`poll` and `refresh` say at which statement a request is and what it has read:
what it writes later is decided by that and by the condition in the statement.
`unlinking` is a removal in flight. A refresh decides by the row it has read whether
the token has to be refreshed, so that it may be on its way to `fetchIdentity` with a
token that another request rotates meanwhile; the answer to it is a 401. A stored
token may turn out unreadable in `verify` and under the lock (`Unreadable`, a fault).
All refusals end in the unconditional `markReauth` (`RefreshWipes`). A request may die between two statements or
get an error (`Fault`); a lock of a dead request expires. `PatreonLink` adds the
desktop: the link worker and its polls, one refresh at a time, and the removal of a
device. A poll that the app has given up keeps being served in the second slot.

Abstractions: a session that ends in `not_entitled` behaves as one that ends in
linked; the throttle, the kill switch and an unavailable Patreon are failing calls;
whether a verification is stale is a free choice at the lookup; a lock expires only
when its holder is gone, because a call times out after 8 s and a lock after 30 s;
taking the lock and reading the row again is one step; polls that find the session
pending are left out. A token comes near its expiry (`TokenNearsExpiry`) only weeks
after it was issued: nobody being served then has read an older token, and no callback
has just written this one; refreshes that have read this very token may be anywhere.
Sessions are awaited by the maintenance until they are a day past their expiry, where
the code adds the hour of its other parameter. An access token may go on working when
its refresh token does not, so `RefreshVerifies` needs no accepted token. Patreon may
or may not end older tokens at a re-link; `ended` collects the tokens that cannot be
used any more although no token call of the Worker has used them. The apps outside `Linkers` were linked before, and only
refresh.

## Runs

| Run | Shows | Bounds | Size |
|---|---|---|---|
| `lane` | five invariants, two action properties and one liveness property of the lane | one request each of analysis, gear search, load, upgrade path and decomposition; two checks | 59 388 states, depth 26 |
| `install` | four invariants and one action property of the transaction, that it implements `AtomicInstall`, and that `UpdaterProcess` abstracts it | 3 entries, 2 jobs, 4 faults | 60 054 states, depth 48 |
| `item_check` | six invariants, two action properties and two liveness properties of checks and loads | 2 checks, 1 save, 2 user actions on the build, 2 deaths of the process | 582 880 states, depth 29 |
| `updates` | five invariants, one action property and one liveness property of the app, the guard and the updaters, and that they implement `AtomicUpdate` | 3 releases, 2 updaters starting, 2 launches, 1 fault, 1 check | 983 429 states, depth 133 |
| `patreon` | five invariants and one action property of the Worker and two apps | 2 apps of which one links, 1 session, 2 devices, 1 expiry, 1 fault | 2 654 529 states, depth 35 |

Two checks are needed for one to replace the other; a load and running analysis
together with them reach every pair of kinds on the lane that the scheduler treats
differently. Three entries are an executable, the runtime and one that may come,
go or be replaced; two jobs leave the remains of one update to the next; four
faults are a failed swap, a failed rollback, a failed restore and a crash of the
recovery after it. In `item_check` one save is enough for a copy before and after
it; two user actions replace a load that is queued behind a running one;
the second death meets the process that replaced the first, before or after its load
has settled; the three
load ids are never all on the lane. Wider instances (two saves, three checks) give
the same answers and take longer. In `updates` three releases are an installed one,
a ready one and a newer one found meanwhile; two launches are a session that
prepares an update and the start that races its installation; two updaters are a
hand-off and a recovery started by a launch. In `patreon` one session is linked
while the device linked before refreshes, or the linking app re-links; two
sessions or two faults are beyond what TLC can finish, and are covered by the
proofs, which hold for every value of the bounds. Of two devices linked earlier the
one that only refreshes is the older (`LinkedFirst`), so that a re-link of the other
evicts it. All of `install`, `item_check`,
`updates` and `patreon` end with their bounds used up (the updater is done, no item
is left to copy, no launch, no session), so they do not check for deadlock.

What the properties say:

* `LaneHasOneOwner`, `QueuedCheckIsServed`: the lane is never blocked or doubled, and
  a queued check gets its turn or is replaced.
* `QueuedCheckIsNext`: its safety part. Whoever gets the lane outranks all that stays
  in the queue, also when a handler resumes an analysis or drops queued work, and a
  queued check leaves the queue only for the lane, for a newer copy, or because the
  worker is unhealthy.
* `PreemptionIsRequested`, `OnlyAnalysisIsAskedToYield`: the scheduler's yield
  request stands exactly as long as it should.
* `AtMostOneQueuedOfEachPreemptingKind`: rapid copies and reloads do not pile up.
* `NoWorkForReplacedBuildStarts`: no analysis of a replaced build is started, from
  the queue or by resuming.
* `CheckNeverUsesOlderBuild`: no verdict from a build older than the file was when
  the item was copied; the one exception is a file that has disappeared by the
  time the worker looks, for which the engine keeps what it has.
* `LoadingHasOwner`, `HeldCheckHasRelease`, `BuildLoadSettles`,
  `NewestCheckIsAnswered`: nothing is shown as loading without somebody who will
  settle it, and no check waits for nobody, the one aside that is held while the
  recovery from a dead process raises.
* `DeadProcessIsReplaced`: a check that finds the process dead always boots another
  one, unless that raises; the flag that allows one recovery only is never the reason to give up.
* `SettledBuildIsFinal`: no load still under way can touch a settled build, and the
  revision that later copies are compared with is that of the baseline.
* `OnlyNewestIsPainted`: late results of older checks are not painted, and a check
  that was painted or superseded keeps that phase whatever arrives for it later.
* `NothingIsStranded`: the newest check, until it is answered, is running, queued or
  held; and while anything runs, waits, is held or loads, the worker thread has a step
  to take or to report, or the boot of its replacement is under way. It is what
  `BuildLoadSettles` and `NewestCheckIsAnswered` need besides fairness.
* `BackupIsIntact`, `NothingIsLost`, `UndoneIsRestored`: as long as a journal exists
  the way back exists, and a reported undo is an undo.
* `SwapIsAbstracted`: whatever the transaction does under a journal, raising or killed
  at any disk operation, is one of the steps `UpdaterProcess` has for the swap, and
  `.update-old` is there, so that a recovery never refuses the journal. What the
  updater, the guard and the service are checked against is therefore all that an
  interrupted swap can look like.
* `CommitIsComplete`, `ImplementsAtomicInstall`: the journal is deleted as a commit
  only over a complete swap, and the whole is one atomic update.
* `InstallNotInUse`: between the end of its wait and its commit an updater works on
  an install the application does not run from, however launches, a second updater
  and the wait's timeout fall; the exceptions are a launch whose guard failed and a
  look for processes that failed.
* `InstalledIsComplete`, `JournalCanBeUndone`: what was staged, pre-extracted,
  interrupted or cleaned away is never committed half, and the moved-aside release
  is there as long as the journal may ask for it, whatever a cleanup removes.
* `NeverInstallsOlder`: jobs, staged trees and ready records outlive sessions; none
  of them ever takes the install back to an older release.
* `ImplementsAtomicUpdate`: threads, processes, crashes and cleanups together are one
  release that is replaced while nothing runs, or not at all.
* `OnlySwapsUnderJournal`: while a journal exists no cleanup, download, launch or second
  updater does anything to the install, `.update-old` or `.update-new` that the
  transaction itself is not shown to do (`SwapIsAbstracted`).
* `MutexIsReleased`: an updater lets go of the mutex on every path, so that no launch is
  deferred for ever.
* `DeliveredOnce`, `DeviceHasLink`: two polls of one session served at once give
  the credentials out once; no device row outlives its link, although nothing but
  the conditions in the statements ties them together.
* `OneTokenCall`, `TokensAreUsedOnce`: a refresh token is presented by one request at a
  time, and none is presented that an earlier call has used, although the token was read
  before the lock was taken and the lock is cleared by re-links, errors and time. Excepted
  are tokens that Patreon ended by itself and those whose replacement was lost.
* `RotationKeepsRelink`: a refresh overtaken by a re-link does not put its own token back.
  It speaks of the rotation only, not of `markReauth` (see below).

Each property has a mutant in `PROJECT.json`: an operator of the module, marked
"Mutant", that changes one definition as a plausible bug would and makes TLC find
the property violated.

### Fairness

`lane` and `item_check` assume weak fairness of the worker thread and of the
handlers: the event loops of both threads run, Qt delivers queued signals, and
every PoB transaction ends because the engine client kills the process at its
timeout. The boot thread reports success or failure, also by a timeout. Nothing is
assumed of the user, the file, the process or the watchdog. The install
transaction has no liveness properties: the user may never start the program
again. `updates` assumes that a started updater and a launched process run until
they end (`UpdaterRuns`, `GuardRuns`, `RestartApplication`): the wait for processes
has a timeout, and each other step is bounded work. It assumes nothing of the user,
who may never close the program, the network or the threads of the service.
`patreon` has safety properties only and no fairness.

### Where documents and code disagree

Seven runs end in a violation. Each states what a document or comment says.

* `lane_resume`, `InterruptedAnalysisResumes`: an analysis that yielded to an Item
  Check is said to resume. The resume is tried while the delivered check still
  holds the lane, so it is not done; only a later upgrade-path job or cache hit
  resumes it.
* `lane_yield`, `WaitingCheckReachesWorker`: an analysis clears the yield flag when
  it starts; a check submitted between its dispatch and its start is not heard
  until the analysis ends.
* `install_recovered`, `RecoveredMeansRestored`: needs a rollback that moved an
  entry back and then failed, and a restore cut short at that entry. The next
  recovery takes what is there for "never moved and still in place".
* `item_check_restore`, `RestoredBuildIsKept`: after the previous bytes were put
  back, the capture looks at the file again, loads the rejected bytes again, and
  the build ends FAILED instead of restored.
* `item_check_midload`, `SaveDuringLoadIsSeen`: a save during a load is loaded in
  the middle of the capture; metrics and equipment are of the older revision, the
  remembered revision is the newer one, and the next check sees no change.
* `item_check_crash`, `CrashedLoadIsRecovered`: a death of the process found by a
  load is only reported; only Item Checks start a recovery, and they are refused
  while the build is FAILED.
* `updates_exit`, `ExitNeverExtracts`: installing at exit is said never to extract,
  because a restored ready update is extracted ahead (`docs/UPDATE_RELEASE_SIGNING.md:401`,
  `app/updates/service.py:457`). The cleanup 30 seconds after the start removes the
  staged tree without asking whether it has just been made, and the exit extracts
  it again.

## Proofs

TLAPS proves the following for every value of the constants, from the named
assumptions in the modules only. None of these theorems uses fairness.

**PobLaneProofs** (any set of requests of any kinds): `TypeCorrect`, `OneOwner`,
`NoQueueBehindIdleLane`, `PreemptionStands`, `ChecksAreNotAskedToYield`,
`QueueIsBounded`, `OnlyCurrentWorkStarts`, `CheckIsNext`. The inductive invariant `LaneInv` joins
the scheduler's own invariant (`SchedInv`: its type and three properties) with
`LaneHasOneOwner`, with the fact that a request is not used twice
(`RequestsAreDistinct`: fresh requests are neither active nor queued, and the
active one is not queued), that only analysis is resumed, and that whatever waits
for a replaced build is a check or a load. The argument has two layers:
`SubmitKeepsSchedInv` and `CompleteKeepsSchedInv` (in `PobSchedulerProofs`) are
facts about the two operators of the scheduler, in which `PreemptingOutranks` (checks and loads have a
higher priority than anything else) is what makes `yield_requested = FALSE` after
a hand-over correct; `SubmitKeepsOneOwner`, `SignalIsOfActive` and
`CompleteKeepsOneOwner` are the hand-over to the worker thread. Each action of the
controller is then a use of `SubmitStep` or `CompleteStep`. `CheckIsNext` has the same
two layers: `SubmitKeepsTurns` (a submission moves the lane only if nothing waits, and
takes the place of a check only if it is one) and `CompleteKeepsTurns` (a hand-over
takes the highest priority and nothing else); what is left for the actions is that no
handler drops a check before it submits.

**ItemCheckProofs** (any number of checks, loads, saves, user actions and deaths of
the process; `LoadIdAssumption`: whatever two load ids are in use there is another,
which the scheduler's bound of one queued load justifies): `TypeCorrect`,
`NeverOlderBuild`, `LoadingIsOwned`, `HeldIsReleased`, `SettledStays`,
`DeadIsReplaced`. `ItemInv` joins the properties with `SchedInv`,
`EngineInv` (without a worker the lane is empty and the build reloading or failed;
after a recovery no check is on the lane until a load has settled), `JobInv` (no load
on the lane is newer than the controller's generation and one at most is of it),
`BaselineInv` (an unsettled build has no baseline, and the cache is of the
baseline), `ReportInv` and `EvaluatedInv` (a finished check was
evaluated on a revision not older than the file it saw), `CopiedInv` (what is held,
queued, active or painted was copied) and `FileInv` (no copy saw a later revision
than was saved). `NeverOlderBuild` needs them because
the revision the check was compared with, the one the process has loaded and the one
reported are set by three different actions. `LoadBuildAsyncStep`, `OwnerStep`,
`FailedReloadStep` and `LoadLeaves` deal with what several handlers share.

**ItemCheckWaitingProofs** (the same): `NothingStranded` and `NewestIsPainted`. Both
need more than `ItemInv`, which says what the actors hold but not who owes an answer.
`AnswerInv` is `WorkInv` (the worker thread is idle exactly with the lane, whatever it
captures or reports has an outcome, and every load on the lane is in `_baseline_jobs`,
so that a dispatched request can always be begun) and `AskedInv` (the newest
unanswered check is on the lane or held, no other check is held beside it, none is
held and on the lane at once, and a settled check is neither). The last part is why a
phase is final: every action that sets a phase sets that of a check on the lane, a
held one, or one that is just copied. Copies are the hard case: `CopyRefused` answers
at once, `CopyDeferred` replaces what is held, `CopyAccepted` replaces what is queued,
and all three may leave an older check running, whose report then meets the guard of
the handler. That the lane is not empty while a build loads or a check is held comes
from `LoadingHasOwner` and `HeldCheckHasRelease` in `ItemInv`.

**InstallTransactionProofs** (any number of entries, jobs and faults):
`TypeCorrect`, `BackupStaysIntact`, `JournalStaysRecognized`, `NothingGetsLost`,
`UndoneStaysRestored`, `CommitStaysComplete`, `ImplementsAtomic`, the
refinement, and `SwapStaysAbstracted`. The properties alone are not inductive: that the swap commits a
complete release depends on where its loop is. `InstallInv` has one conjunct per
phase: `PhaseInv` (the journal exists in the phases that use it), `PrepareInv`
(what prepare has built before the journal names it), `JournalInv` (for each
entry, where its old version is), `SwapInv` (entries done are new, the others as
they were), `UndoInv` (entries already undone) and `UndoneIsRestored`. One lemma
per conjunct goes through the actions; `JournalLifecycle` states how the journal,
`snap` and `cut` change in a step and carries the commit property and the
refinement. `SwapStaysAbstracted` needs one more invariant, `AgeInv`: what was
installed when the journal was written is older than the running job, or else an old
entry could be taken for a new one and half a swap for a whole one. Renames, removals
and copies then leave the install in between (`SwapIsInBetween`, `UndoIsInBetween`)
except the last rename (`SwapInIsMoveIn`); the two unlinks are `Unlink` and `Undo`
(`CommitIsUnlink`, `UndoUnlinkIsUndo`, by `UndoneIsRestored` and `CommitStaysComplete`'s
argument).

**UpdateServiceProofs** (any number of releases, updaters, launches, faults and
checks): `TypeCorrect`, `NeverInUse`, `AlwaysComplete`, `AlwaysUndoable`,
`NeverOlder`, `UpdateIsAtomic`, the refinement, and `UnderJournalOnlySwaps`. None of the properties is inductive: that
nothing runs from the install while the updater works depends on the order in which
a launch looks at the mutex and becomes visible as a process. `UpdateInv` adds
`PhaseInv` (what the updater's program counter says about its job, the journal and
the trees), `RootInv` (the four directories and the journal agree), `UseInv` (from
the end of the wait a launch can only be in front of the guard, unless the guard or the
look for processes failed),
`TaskInv` and `BackupInv` (the job and the backup are of the swap they are taken
for), `VersionInv` and `VerifiedInv` (whatever may still be installed, in a job, a
ready record or memory, is newer than what is installed) and `ReportInv` (what an
updater is about to report). Steps of the service, the guard and the updater that leave a part
alone are dealt with once per part. The refinement is argued over the same invariant
with `SessionInv` (a release runs exactly while the application does):
`UpdaterReleaseStep` says of every step of an updater whether it leaves the release,
begins, undoes or completes a replacement; `OverlookStep` is the look for processes
that fails; `UpdaterRefines` adds from `UseInv` that nothing runs then, and from `VersionInv` that the job is not
older; `ServiceRefines` maps starting, stopping, handing over and the cleanup.
`RootInv` is what makes the mapping work: the moved-aside release with a journal is
the one that was installed without it. `UnderJournalOnlySwaps` states
`OnlySwapsUnderJournal`, the other half of `SwapStaysAbstracted`: over the same
invariant (`PhaseInv`: who commits has swapped in all of the verified tree; `RootInv`:
who undoes finds `.update-old`) no step of an updater, launch or service touches an
install under a journal in any other way.

**PatreonProofs** (any number of apps, sessions, devices, expiries and faults):
`TypeCorrect`, `DevicesHaveLinks`, `DeliveredAtMostOnce`, `CallsOneAtATime`,
`TokensUsedOnce`, `RelinkIsKept`. `PatreonInv` adds `RequestInv`
(what a request in flight has read are rows and tokens that existed, and a linking
app has its session and slot), `LockInv` (at most one request is past the lock with
the tokens of the row), `AgeInv` (identifiers and row versions only grow, so that a
condition on a version in a statement does mean "unchanged since"), and `TokenInv`:
the row's token, the one a token call presents and the one a callback is about to
write are `Good`, which is accepted by Patreon or ended without a call of the Worker; a
row may hold a used token only while the request that used it is about to write its
replacement under the lock. One lemma per refresh and callback statement says
what it does to the row (the "Effect" lemmas); `CoreStep` says that every other
action leaves row, tokens, callbacks and refreshes alone, so that each conjunct of
the invariant is argued over a handful of statements.

Only model-checked: the liveness properties (`QueuedCheckIsServed`,
`BuildLoadSettles`, `NewestCheckIsAnswered`, `MutexIsReleased`), which the prover
cannot treat under fairness. What of the first three does not need fairness is proved:
`CheckIsNext`, and `NothingStranded`.

## Not modelled

The Lua bridge (its transactions call PoB code that is not in the repository),
preboot, build cache, single instance, IPC, clipboard and hotkeys, evaluation and
search algorithms, filters and user interface; the market and price check, which
are switched off in this release (`LIVE_TRADE2_AUTHORIZED = False`); of the cloud
the telemetry queue and its ingestion, the policy, and the signing and verification
of leases; of updates the signature and archive checks, the resumed download and
the timer. `PROJECT.json` gives the reason for each. Time is not modelled: a timeout
may happen whenever it could matter. Most of the program's lines are evaluation,
search, provider and widget code without state that outlives a call; the share of
the sources that the map covers is therefore small.

Behaviours the models have and no property is stated for, because the code does not do
what a document or comment says, or none says what is wanted:

* The comment at `entitlement.ts:157` says that a concurrent re-link wins, and the
  header (9-10) that only an `invalid_grant` or a 401 makes a link `reauth_required`.
  `markReauth` is unconditional: an `invalid_grant` for the old token that arrives after
  the re-link clears the new tokens (172); so does a 401 to a request that read the
  older access token before another request rotated it (214); and a stored token that
  cannot be decrypted is treated as a refusal (139, 146, 205).
* `docs/UPDATE_RELEASE_SIGNING.md:405` says that nothing ever relaunches unasked. A
  launch request that no updater consumed (see `UpdateService` above) makes a later
  install on exit, meant to be quiet, relaunch. A request written between the look and
  the release of the mutex is not served by that updater.
* A recovery that raises leaves a held check held (`controller.py:5671`).
* A re-link that finds an old row without devices can lose it to the maintenance between
  its SELECT and its UPDATE; the session is linked to nothing and its poll ends it.
* A 401 to a refresh clears a device linked meanwhile (`cloud/patreon.py:451`); the
  removal of the last device deletes a link that another session is about to deliver
  (`link.ts:369`); a rotated token is lost when the answer times out
  (`entitlement.ts:174`); a downloaded package and the manifest it is recorded under may
  differ, and the next start discards the record.

## Plan

1. More of `ItemCheck`: the unreadable second request while rejected bytes are
   being put back, the identity switch forgotten by a restored load, checks
   replaced in the queue as the registry sees them, `restart_engine`, a result that
   arrives after the watchdog.
2. The start of a swap (`prepare` and the journal), which has no journal yet, is tied
   between `InstallTransaction` and `UpdaterProcess` by the description above only; the
   rest of the swap by `SwapStaysAbstracted` and `UnderJournalOnlySwaps`.
3. The telemetry queue of the cloud client with its ingestion.
