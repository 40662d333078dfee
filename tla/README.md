# Specifications of nginx-online-build

TLA+ modules that model the build service, TLC runs that check them on small
instances, and proofs, checked by TLAPS, that hold for every value of the
constants. Every definition is translated from the Go source; `PROJECT.json`
maps each one to its lines.

## The system

| Component | Source | State | Operations | Modelled in |
| --- | --- | --- | --- | --- |
| Build manager | `internal/builder/manager.go` | job table, cancel functions, workspaces, broadcasters, semaphore, `closed` | CreateJob, CancelJob, PruneOldBuilds, Shutdown, loadHistoricalJobs, one `runWorker` per job | `BuildManager`, `BuildService` |
| Build executor | `internal/builder/executor.go` | `meta.json` per build, scratch directories, archive | ExecuteBuild and its phases, saveMetadata, cleanIntermediateFiles | `BuildManager` (control), `BuildRequest` (libraries, arguments, smoke test) |
| Workspaces, IDs | `internal/builder/isolate.go`, `id.go` | directories, last time used | NewWorkspace, GenerateBuildID | `BuildManager` (creation only) |
| Build logs | `internal/builder/log.go`, `handler.handleGetLogs` | bounded file, listeners, `closed` | Write, SubscribeWithHistory, Unsubscribe, Close | `LogBroadcaster` |
| Source cache | `internal/nginx/download.go` | cache directory, lock per file with a reference count | fetchSource, trimCache, lockDownload | `DownloadLock`, `SourceCache` |
| Version list | `internal/nginx/version.go` | cached list and its time | GetVersionsContext, GetVersionContext | `VersionCache` (the list), `BuildRequest` (looking a version up) |
| Sessions | `internal/auth/auth.go` | session table | create, valid, remove | `SessionStore` |
| Dependency installer | `internal/system/deps.go`, `distro.go` | `isInstalling`, log lines, listeners | InstallDependencies, runInstall, Subscribe | `DepInstaller` |
| Options | `internal/nginx/options.go`, `presets.go` | none | ValidateAndBuildArgs | `ConfigureOptions` |
| Dependency tables | `internal/nginx/deps.go` | none | ResolveDepSource | `ConfigureOptions`, `BuildRequest` |
| Server | `cmd/server/main.go` | HTTP server, one deadline | signal, Manager.Shutdown, server.Shutdown | `WebServer`, `BuildManager` |
| HTTP handlers | `internal/handler/handler.go` | none of their own | preview, builds, logs, installer, archives | with the part each of them calls |
| Singleflight, network client | `internal/safenet/client.go` | calls in flight | Group.Do (unused by the service), address checks | not modelled |
| Configuration, web page, images | `internal/config`, `web`, `Dockerfile` | none on the server | parsing, display | not modelled |

How they interact: an HTTP handler calls CreateJob, which admits a job under
`Manager.mu` and starts a worker goroutine. The worker waits for a token of the
semaphore or for the end of its context, runs ExecuteBuild, which moves the job
from phase to phase, saves the job's metadata after each phase and writes to the
log broadcaster, and ends in one deferred function that decides the outcome,
saves it, closes the log, cleans up, deregisters the job and prunes old builds.
CancelJob, the timeout of the context and Shutdown reach the worker through its
context only. Metadata writes are serialised by `metadataMu`, which CreateJob and
CancelJob take while they hold `Manager.mu`. A new process reads the metadata of
the old one. The same request is validated three times: by the preview, by
CreateJob and, after the sources are fetched, by the worker. The installer, the
sessions and the version list each have one lock and share nothing with the
builds; the streams of the installer and those of builds are what
server.Shutdown waits for.

What makes each part correct. Manager and executor: admission and slots are
bounded, a job has one outcome, decided once, recorded and kept across restarts,
an acknowledged cancellation included; nothing in use or newer is pruned; every
admitted job ends. Logs: no reader loses or repeats a chunk it has room for, and
the end is told after all of it. Source cache: one download per file, no archive
is served that was not verified or that was evicted meanwhile, the budget holds,
every fetch returns. Options: what is accepted of a release is built, with the
version and the arguments that were shown, without pairs that exclude each other and with every feature asked
for. Version list: an official list that is handed out is recent, however
refreshes overlap. Sessions: no more than fit, none lost while it is among the
last ones, none valid after it expired or was removed. Installer: one
installation at a time, and its lines reach a reader in order, none twice; lines
may be lost between the history and the subscription, and the end is never told.
Server: it stops accepting, drains, and ends by its deadline.

What is hard here: cancellation, timeout and the worker's own end decide the
same status concurrently; a status is first changed in memory and later written
from a copy; pruning runs whenever any worker ends; the process may stop between
any two steps; writes and removals may fail alone; options, conflicts and
dependencies are adjusted in stages that undo each other's reasons; refreshes of
the version list overlap. `PROJECT.json` lists these
hazards at their lines with the properties that cover them.

## Modules

### BuildManager

Memory: `jobs` (status of every entry of `Manager.jobs`), `context` (an entry of
`cancelFuncs` and the state of its context), `workspaces`, `logOpen`, `worker`
(the program counter of each job's goroutine), `phase`, `buildErr`, `sem`, `mu`
with `muJob` (what the holder of `Manager.mu` does next, for which job),
`metadataMu` with `snapshot` (the copy saveMetadata is about to rename into
place), `closed`, `shutdown`. Disk: `meta`, `scratch`, `artifacts`. The other
variables record what the properties speak of: `acked` (cancellations answered
with success) and `unsaved`, `uncleaned`, `damaged` (which disk operation of a
build failed).

A critical section of `Manager.mu` without another lock inside is one step.
CreateJob and CancelJob call saveMetadata inside theirs, so they are chains of
steps: `CreateBegin`, `CreateSave`, `CreateSaved` or `CreateAborts`,
`CreateRegister`; and `CancelBegin`, `CancelContext`, `CancelSave`,
`CancelReturns`. Refusals (queue full, shutting down, terminal job) change
nothing and are disabled guards. The worker is `GiveUpWaiting` or `Acquire`,
`Recheck`, then for each phase `WorkDone` (the work that precedes it),
`EnterPhase`, `UpdatePhase` (setBuildPhase, whose two checks are separate steps),
`WorkerSave`, `WorkerSaved`; then `PublishArtifact`, `SmokeTestPasses`, or at any
point of the work `WorkFails`; `Release` returns the token (the inner defer);
`Finish`, `WorkerSave`, `WorkerSaved`, `CloseLog`, `CleanIntermediateFiles`,
`Deregister`, `WorkerPrune` are the outer defer in its order. Shutdown is `ShutdownBegin` and `ShutdownDone`; a deadline that passes
while it waits changes nothing but the error main logs before it ends the process
(`Stop`).

Abstractions: the work of a phase is one step that succeeds or fails at any
time, which includes every reason ExecuteBuild has to fail. A build ID is a
number; IDs and start times both grow under `Manager.mu`, so "newest first" is
"largest first". A workspace is the two facts that properties need, whether there
are scratch directories and whether there is an archive. GetJob, ListJobs and
GetArtifactPath read and change nothing. The time of the context is not counted:
a deadline may pass at any time while the job is admitted and undecided.

`Stop` ends the process at any step and keeps the disk; `LoadHistoricalJobs` and
`StartupPrune` are NewManager. Files that loadHistoricalJobs cannot read are not
modelled: meta.json is only ever replaced by a rename, so that the process meets
none that it wrote itself. A stop inside a removal is not modelled apart: what it
leaves is what a removal that fails leaves (`damaged`), and the next process, with the
same limit, prunes the same job before it serves.

### BuildService

What a client may rely on: a build is unknown, pending, or has one outcome that
never becomes another except that a build whose outcome was not durable is
`failed` after a crash; no more builds are pending than fit; builds disappear
only after they have ended. `BuildManager` implements it (`ImplementsService`)
under the mapping at the end of that module: while the process is down the
client's view is what the next process will make of the files.

### LogBroadcaster

The log of one build. `file`, `size`, `truncated`, `closed`, `listeners` are the
fields of the broadcaster; each reader is a request with its history, its channel
(bounded, with the non-blocking send of Write) and what it has been sent. All
four methods hold the lock of the broadcaster from begin to end and are one step
each; receiving from a channel, telling the end and leaving are steps of the
reader. Chunks are numbers with lengths, so that order, loss, duplication and
size can be told. A chunk in the file is its number and the offset where it ends; the
disk may take all of a chunk, a part or nothing of it, and the stream gets all of
it in each case, as in the code. The notice has a number after all chunks and does
not count towards `size`. `Limit` is what readLog reads at most.

### DownloadLock

The lock of one cache file. `entries` is the table, `refs` and `tokens` are the
count and the channel of each entry object; `caller`, `wants` and `entry` are
where each goroutine is in lockDownload and its local variables. Each of the two
sections under the mutex of the table is one step (`Lock`, `ReleaseRef`); the
two cases of the select (`Take`, `GiveUp`) and putting the token back (`Unlock`)
are steps of their own, so that callers come, give up and leave between them. An
object that nobody refers to stands for the next one that is made; there are as
many objects as callers, which is always enough. The context of a caller ends at
any time after it came.

### SourceCache

fetchSource, trimCache and copyFileContext on top of `DownloadLock`: `GotLock` is
its `Take`, `Leave` its `Unlock`, and `Return` its `ReleaseRef`. State: `cache`
(the archive under each name), `older` (which archive was modified before which,
with the downloads that are not published yet, because a rename keeps the time),
`temp`, `cacheMu`; `step`, `expected`, `hash` and `copied` are local to
each fetch and reset when it returns. A section under cacheMu that can be
disturbed by another caller only at its end is one step; a section that goes on
to copy keeps `cacheMu` for two (`Reuse`, `Copy`) so that the work of others in
between shows. The download itself holds the lock of the file alone.

An archive is its size, which also stands for its hash: archives that differ
have different sizes in the instances. Requests, downloads, removals, renames,
copies and setting the time may fail; reading and listing the cache do not. The
first state has any archives in any order, as earlier processes with other limits
may have left them. Removals of the cache that fail leave the file (trimCache
returns the error); `TrimFailed` is what is gone then. The process does not stop
in this module: what a crash leaves behind are `.download-*` files, which nothing
reads.

### ConfigureOptions

ValidateAndBuildArgs as an operator, with the whole catalog of options, the
presets, the path keys and the library tables as data. An option is its ID; what
it is called, its flag and the wording of warnings are left out, and a warning is
the pair of its reason and its option. The stages are the operators of
`Adjusted`, in the order of the code, each from a record of the selection, the
warnings and the conflicts to the next one. `ResolveConflicts` is the one stage
whose result depends on the order of the catalog: `Turns` gives the states of its
loop over the catalog and `Turn` those of the inner loop over the conflicts of one
option, as functions of the number of passes. The other stages are set operations.
Two loops of the code run until nothing changes; that one pass is enough is the
lemma `DependenciesAreRoots`. The arguments come in the order of the tables, so
their set is kept. Checks of strings are membership: a value that fails one is a
member of no table.

### BuildRequest

What becomes of one request: `Preview` (handlePreview), `CreateJob` up to the
queue, `FetchSource`, `PrepareDep` for each library, `Configure` (the validation
of the worker, always with resolution) and `BuildAndTest`. Whether the request is
to be resolved is free, because the page decides it by the last preview that was
answered (app.js:510), which need not be of this selection.

The version is looked up three times, by the preview, by CreateJob and by the
worker. `GetVersion` is that look-up in one list, and each of the three may meet
another one (`Lists`): the page of nginx.org changes, the cache expires, and the
bundled list takes its place. `offered` is the version the preview showed,
`version` that of the job, `fetched` that of the source. A request is `rejected`
for what it asks (manager.go:118-131: another platform, invalid options,
conflicts, an unknown version) and `refused` for the state of the service
(shutting down, full, a disk that fails). A failure of the network, the compiler
or the machine ends in `failed`, at any step. A failure that only the worker's own
decisions can cause ends in `misconfigured`: a version it does not take
(`Downloadable`), a library it does not know, arguments it cannot reconcile, a
smoke test that does not fit the binary.

Admission and worker do not agree on versions. CreateJob takes what the list
names (version.go:97), and the page links old releases such as 0.8.55; the worker
takes `1.N.N` only (version.go:204). A request of an old release is previewed and
accepted, and its job always fails. `PreviewIsBuilt` and `BuildableArgs` therefore
speak of releases (`Releases`, the versions `1.N.N`): for those, no list can
make a look-up fail, and `misconfigured` is never reached.

`SmokeTestConfig` is what the generated configuration needs, `Understands` what a
binary built with the arguments has.

### DepInstaller and WebServer

Attempt n is the n-th request to install; a line is the attempt that wrote it and
its number, so that order, loss and repetition can be told. Setting the flag
(`InstallDependencies`) and checking the host (`CheckDependencies`) are two steps,
as the lock is released in between. `StartInstall`, `CommandPrints`, `UpdateEnds`,
`InstallEnds`, `Recheck` and `FinishInstall` are runInstall with its one or two
commands. `LineTooLong` is the scanner that gives up: the command blocks on its
pipe and the attempt is `stuck` for good. Lines written one after another without
a command in between are one line. A reader reads the history (`ReadHistory`),
registers its channel (`Subscribe`), receives and leaves; a full channel drops the
line. A host is its family, its package managers and whether root's rights are at
hand; what is found installed is any set.

`WebServer` adds main: a signal, Manager.Shutdown, then server.Shutdown with the
rest of the same deadline. Requests come until the listener is closed. The
goroutine of an installation is not waited for.

### SessionStore

The table of sessions under its lock, with the clock: `Create` drops what expired
and, if the store is still full, one of the sessions next to expire (any of them,
where the code's map order decides); `Valid` removes what it finds expired;
`Logout` removes. `logins` and `loggedOut` record what the property speaks of.

### VersionCache

An official list stands for the time nginx.org had it, which is not before it was
asked; the bundled list is a value of its own. `GetVersions` looks at the cache,
`FetchOfficialVersions` is the answer or the failure without the lock, `Store` is
the section that stores and returns. A request takes less than the timeout of its
client, and storing takes no time. Time that passes forgets the lists handed out.

`MCWebService` checks the last four modules in one run. They have no variable in
common, so that a behaviour moves one of them (`part`) and the others rest: what
is explored is the sum of the three and not their product.

### How the faulty variants are used

Definitions preceded by a `Fault:` comment are no part of any specification. Each
is a plausible mistake in one definition (a dropped guard, an off-by-one, another
order), and each property is known to fail when the variant takes its place.

## Runs

| Run | Instance | Shows |
| --- | --- | --- |
| `manager_restart` | 2 builds, 2 slots, 1 stop, disk faults for 1 build | `TypeOK`, `CompletedHasArtifact`, `AckedCancelStays`, `RetentionBound`, `RecordNeverRegresses`, `ImplementsService` |
| `manager_faults` | 2 builds through two phases, 2 slots, Shutdown, disk faults for 1 build | `InactiveIsSettled`, `EofMeansEnded`, `EndIsRecorded`, `UnfinishedIsActive`, `ShutdownIsFinal`, `PruneKeepsNewest`, `TerminalIsFinal` |
| `manager_queue` | 3 builds, 1 slot | `AdmissionBound`, `SlotsMatchWorkers` |
| `manager_liveness` | 2 builds, 1 slot, Shutdown, fairness | `EveryJobEnds`, `ShutdownDrains` |
| `build_log` | 2 readers, 3 chunks of 1 or 2 bytes, limit 3, channels of 1 | `StreamMatchesFile`, `EofMeansComplete`, `FileIsBounded`, `NoPanic`, `ClosedLogEnds` |
| `download_lock` | 3 callers, 2 files, 3 entry objects | `MutualExclusion`, `RefsMatchCallers`, `TokenIsConserved`, `EveryCallerIsServed` |
| `cache_safety` | 2 callers, 3 files, archives of 0, 2 and 3 bytes, limits 2 and 2 | `SourceTypeOK`, `OneDownloadPerFile`, `ArchiveStaysForCopy`, `ServedIsVerified`, `BudgetKept`, `OldestGoFirst` |
| `cache_liveness` | 2 callers, 2 files, room for one archive | `EveryFetchReturns` |
| `build_request` | every selection of 11 options, every pair, every preset, 3 sources; 7 other versions, 2 platforms, 4 lists | `PreviewIsBuilt`, `BuildableArgs` |
| `options_redundant` | the same | `RedundantMeansDisabled` is violated |
| `web_service` | 2 attempts, 1 reader, 4 hosts; 2 sessions, 5 logins; 2 refreshes | `OneInstaller`, `StreamInOrder`, `SessionsAreKept`, `ServedIsRecent`, `ServerExits` |
| `versions_fallback` | the same | `ListIsCached` is violated |

Bounds. Every run of `BuildManager` has one place in the queue and retains one
build. Two builds that run at once show every race between two workers, a
worker and a canceller, and a worker and the pruning of the other; with one
retained build the second to end always prunes the first. Three builds with one
slot and one place in the queue fill the service and refuse the third. One stop
shows what a restart does with each state of the disk; every later stop starts
from files of the same kinds. Faults hit one build at a time, at any of its saves
and removals, which is enough for each to meet a healthy other build. Shutdown
cancels every context at once, which runs without it do one by one; the
combination of Shutdown with a restart is not checked, because a stop keeps
nothing of Shutdown but what its cancellations did. One phase is enough where the
number of phases does not matter (it is both the first and the last);
`manager_faults` has a first that is not the last. In `build_log` the limit is
reached with chunks that fit exactly, that do not fit by one byte, and after the
notice, and each chunk may be stored in part; a second chunk overflows the channel
of a reader that receives nothing, and a third comes when it has room again.

In `download_lock` one caller holds a lock, one waits and a third comes or gives
up while the others leave; with the second file two entries are in the table and
one object is reused. Two callers show every race of two fetches, of the same
archive or of two that evict each other. The sizes of `cache_safety` are the
empty archive, one at both limits and one beyond, which earlier limits may have
left, in any combination of three files: an eviction takes none, one or more, and
a download that is published meets files that came in meanwhile. `SourceTypeOK`
also says that cacheMu is held in the steps that need it and in no other. Callers
and files are interchangeable and symmetric in this run; symmetry is not used
with liveness.

In `build_request` the eleven options are those that appear in a conflict, a
dependency or a rule in more than one way: http as a whole, a feature with and
without a dependency, an option with two conflicts, the engines, and the
disabling flags. Every other option differs from one of them only by its name,
which the pairs show: each pair of the whole catalog is a request. The sources
are none, OpenSSL and PCRE, the two libraries the algorithm looks at; the rest of
the requests combine paths, compiler options, URLs and unknown values, and three
selections with every kind of version (the names of the default, a release that
some lists name, one that none does, an old release that some lists name, one that
none does) for this platform and another. The lists are one with and one without an
old release, one after a new stable release, and one without a stable entry; the
first is also the bundled one. In these runs old releases do end in
`misconfigured`, and a preview without conflicts is rejected when the default is
gone.

In `web_service` a second attempt meets every step of the first, is refused or
follows it, and its reader has a channel shorter than the log of two attempts.
Five logins fill a store of two sessions twice beyond its limit, within a clock
that lets sessions of two units expire. A list is used for 3 units and a request
takes up to 2, so that within 8 a list expires, two refreshes overlap, and the
one stored last expires as well.

Deadlock is checked in the runs of the manager, the lock, the cache and the
requests. For `BuildManager`, `Exited` stands for
the end of main or, in an instance that does not call Shutdown, for a service
that has nothing left to do; callers of the cache may always come again; a log
that nobody reads or writes may rest, and the process, the clocks and the logins
of `web_service` end, so their runs do not check it.

Fairness (`FairSpec`): the steps of CreateJob, of CancelJob and of each worker are
weakly fair, because goroutines that can run are run and Go's mutexes do not
starve a waiter; timers fire; Shutdown returns once `wg.Wait` does. A worker whose
context is live may stay in the work of a phase for ever (`MayHang`): only the end
of the context, which kills the process group (newBuildCommand), makes it leave.
Nothing makes clients call, builds succeed or the process stop. In the log only
the steps of a handler that has something to receive, to tell or to leave are
fair; a client need not disconnect. They include what a handler writes to its
client: the server has no write timeout (main.go:101), so that a client that keeps
its connection and reads nothing holds its handler, and `ClosedLogEnds` is about
the others.

Receivers of a channel and waiters of a Go mutex are served in turn, so that
taking the token of a download lock (`Take`) and entering cacheMu (`LookUp`,
`Publish`) are strongly fair: each becomes possible again and again while others
come and go. The other steps of a fetch are weakly fair; that a download ends is
the timeout of its client. Callers need not come and contexts need not end.

In `WebServer` (`ServerFairness`) the timer of the deadline fires and main goes on
when it can: Manager.Shutdown returns at the deadline (`LeaveWorkers`) and
server.Shutdown ends the requests there (`CloseServer`). Clients, commands of the
installer and workers need not proceed, and no signal need come.

## Proofs

Every safety and action property that a passing run checks is also a theorem, for
every value of the constants, and so is the refinement of `BuildService`. Each comes from an inductive invariant; which part of it is needed
for what is said here.

| Module | About | Invariant |
| --- | --- | --- |
| `BuildManagerProofs` | types, slots, admission; outcomes and cancellations | `TypeInv`, `LifeInv` |
| `BuildRecordProofs` | records, archives, logs, Shutdown, retention | `EndInv` |
| `BuildServiceProofs` | the refinement of `BuildService` | `ServiceInv` |
| `LogBroadcasterProofs` | the log and its streams | `LogInv` |
| `DownloadLockProofs` | the lock of a cache file | `LockInv` |
| `SourceCacheProofs` | the fetch; the directory | `SourceInv`, `CacheInv` |
| `BuildRequestProofs` | what becomes of a request, ValidateAndBuildArgs | `RequestInv` |
| `WebServiceProofs` | installer, sessions, version list | `InstallerInv`, `SessionInv`, `VersionInv` |

`BuildManagerProofs` proves, for all limits, any nonempty sequence of phases and
any number of builds (`LimitsAssumption` and `PhasesAssumption` are the only
assumptions; the latter says that a phase is an unfinished status other than
`queued`, as setBuildPhase is called):

- `TypesHold`: `Spec => []TypeOK`.
- `SlotsCorrect`: `Spec => []SlotsMatchWorkers`. That `sem` is the number of
  workers that execute is inductive together with the types. `TypeOK` alone is
  not: that a phase number is in range when it is used needs `PhaseIsSet`, that
  the holder of the lock has a job needs `MuHasJob`, that registering a job adds
  no token needs `NewIsIdle` (its ID has no worker yet), and that `sem - 1` is not
  negative needs the count itself. `TypeInv` is their conjunction.
- `AdmissionCorrect`: `Spec => []AdmissionBound`. Only `CreateBegin` takes a
  place, after the check and under the same lock; every other step keeps the set
  of places or shrinks it (`PlacesOnlyShrink`).

Its second part proves, from the same assumptions, with any number of stops and of
failing builds:

- `OutcomeIsFinal`: `Spec => TerminalIsFinal`.
- `UnfinishedJobsAreActive`: `Spec => []UnfinishedIsActive`.
- `CancellationsStay`: `Spec => []AckedCancelStays`.

They follow from `LifeInv`, which adds to `TypeInv` what the code relies on but
writes nowhere: IDs are generated in order and an ID in creation has left nothing
yet (`BornInOrder`), a process that does not serve does nothing else (`Quiet`,
`DownIsEmpty`), a worker's job stays in the tables until it deregisters
(`WorkerIsRegistered`), CancelJob decides before it saves (`CancelIsDecided`),
and the clone on its way to the disk belongs to the holder of metadataMu
(`OneWriter`) and shows a cancellation that is acknowledged (`CancelIsWritten`).
Without the last two, `AckedCancelStays` is not inductive: a save that began
before the cancellation could end after it. Restarts are covered because a
record that is `cancelled` is loaded as it is.

`BuildRecordProofs` proves, from the same assumptions, what the end of a build
leaves: `InactiveIsSettled` (`SettledWhenInactive`), `EofMeansEnded`
(`EndedAtEof`), `EndIsRecorded` (`EndsAreRecorded`), `CompletedHasArtifact`
(`ArtifactsOfCompleted`), `ShutdownIsFinal` (`ShutdownCorrect`), `RetentionBound`
(`RetentionCorrect`), and of steps `RecordNeverRegresses` (`RecordsNeverRegress`)
and `PruneKeepsNewest` (`RetentionTakesOldest`). `EndInv` adds to `LifeInv`:

- `TableParts`: the log is open exactly until its worker has closed it, who has a
  context has a worker, and the worker has cleaned before it deregisters. They turn
  "no longer active" into a place in the worker's defer, which `InactiveIsSettled`
  and `EofMeansEnded` need.
- `RecordParts`: an outcome on record is that of the job (`RecordIsJob`), a record
  begins with `queued` before its job is registered (`NewIsQueued`), and the clone
  a worker is about to write is not older than the record (`CloneIsNewer`).
  `RecordNeverRegresses` says what a step does to the disk; without the last part
  the step that writes could write anything.
- `ArtifactParts`: a worker that reaches its end without an error has published its
  archive (`SuccessHasArtifact`); a completed job has it because of that, and
  because pruning first makes the job absent or damaged.
- `ShutdownInOrder`: the service is closed before Shutdown waits, under the lock
  that CreateJob holds until its worker runs, so that nothing starts afterwards.
- `RetentionReached`: while no worker is about to prune, the ended jobs are no more
  than are retained. The bound itself is not inductive, as a worker that
  deregisters breaks it until it has pruned.

`BuildServiceProofs` proves `RefinesService`, `Spec => ImplementsService`, from
`EndInv` and `AdmissionBound`. `View` is what a client is told of each build, while
the process is down what the next one will tell; `Durable` are the outcomes on disk,
`Seen` the IDs given to jobs, `Accepting` whether the service takes more. One lemma
per action of the service says which change of these four is that action
(`AdmitStep` to `InterruptStep`); every step of the manager is then one of them or
changes none. That a write makes an outcome of the job durable and changes no other
is `RecordIsJob` and `CloneIsNewer`; that a stop keeps every durable outcome as it
was told, and makes every other build fail or vanish, is `RecordIsJob`; that an
admission has room is the bound of `BuildManagerProofs`; and that a build expires
only while enough newer ones have their outcome is the order of the candidates,
as in `PruneKeepsNewest`.

`LogBroadcasterProofs` proves, for any readers, any number and sizes of chunks and
any limits (`LogAssumption`), `StreamMatchesFile` (`StreamsMatchFile`),
`EofMeansComplete` (`EofAfterAll`), `FileIsBounded` (`FileBounded`) and `NoPanic`
(`NeverPanics`) from `LogInv`: the numbers in the file grow and its ends stay
within `size` and, for the notice, `NoticeSize` (`FileInv`); a listener's channel
is open and a closed log has no listener (`ReaderInv`); what a reader has been
given, followed by its channel, is in order, of chunks written so far, and with
what it missed all of the file (`StreamInv`). The lemma `WholeFileIsRead` shows
that the limit of readLog is never reached, because the notice fits its slack:
without it a history could be cut.

`DownloadLockProofs` proves, for any finite set of callers and any files and entry
objects (`LockAssumption`), one inductive invariant, `LockInv`: the types, exact
reference counts (`RefsMatchCallers`), the token in its channel or with one holder
(`TokenIsConserved`), at most one holder per object (`OneHolder`), and each object
under one name only (`EntriesDistinct`). Mutual exclusion alone is not inductive:
it needs that two callers of a file find the same object, which rests on the
exact count, which keeps an object in the table as long as anybody refers to it.
`DownloadsExclude`, `EntriesDoNotLeak` and `TokensConserved` follow.

`SourceCacheProofs` proves for any sizes and limits (`SourceAssumption`):

- `SourceUsesLock`: `Spec => LockSpec`, the cache implements its lock, so that
  everything above holds for it.
- `FetchesExclude`: `OneDownloadPerFile`, because whoever is in the fetch holds
  the lock of its file.
- `ArchivesStay`: `ArchiveStaysForCopy`. The invariant `SourceInv` adds to
  `LockInv` who holds cacheMu in which step, and what `hash`, `temp` and `copied`
  are worth there. An archive that is about to be copied is safe because
  evictions and publications need cacheMu, and its own holder spares it.
- `VerifiedIsServed`: `ServedIsVerified`, from the same invariant.

`CacheInv` adds the directory to it: the archives are finitely many and in an order
(`OrderOK`), a finished download is about to be published or removed
(`FinishedIsLate`), cacheMu is kept for a known archive only (`MuHasHash`), and
whoever is about to copy does so out of a cache that keeps its budget
(`CopiesFit`). From it follow

- `SourceTypesHold`: `SourceTypeOK`. The order is kept by lemmas about relations:
  without some archives, with one made the newest, or with one renamed, a strict
  total order is one again (`OrderRestricts`, `NewestIsOrdered`,
  `RenamedIsOrdered`).
- `BudgetHolds`: `BudgetKept`. The size of a set of files is the number of their
  bytes (`TotalSize`), so that fewer files have no more bytes (`FewerBytes`) and one
  more file adds its size (`OneMoreFile`) without a sum.
- `TrimTakesTheOldest`: `OldestGoFirst`. Of two candidates the older has fewer
  before it; if it stayed while the other went, a larger set would have fewer
  elements (`TakenAreOlder`).

`BuildRequestProofs` proves, for every request (`Requests` is any set and nothing is
assumed of it) and any lists and releases (`RequestAssumption`: what a list names is a
version and not a name of the default):

- `PreviewBuilt`: `PreviewIsBuilt`.
- `ArgsBuildable`: `BuildableArgs`.

`RequestInv` has two parts. `VersionInv` says that a version that the request names
is the one shown, queued and fetched, that the source is of the version of the job,
and that the worker goes beyond the source for a release only; it rests on
`VersionFound`, which says what a look-up returns whatever the list. `AnswerInv` says
what is known of the arguments at each stage: the preview is the
answer without resolution, an admitted request is of known options, its job
has the answer it was admitted with until the worker replaces it by the resolved
one, and a rejected request has another platform, no release or an answer that is
not accepted. `WorkerAgrees` is the lemma that no step after the source gives up a
job by the worker's decision. What that needs of the answers is proved of the
operators of `ConfigureOptions`:

- `CatalogWellPlaced`: what the algorithm relies on in its table and checks
  nowhere (`WellPlaced`). Only the engines and http_ssl are depended on, and they
  depend on nothing; nothing excludes an engine or its TLS module; http_ssl and
  without_http_rewrite exclude only without_http and the reverse; one of two
  options that exclude each other is a disabling one; what depends on http_ssl
  excludes without_http.
- `CompletedSound`: the stages before the conflicts leave an engine, a TLS module
  for an OpenSSL that is built, the flag that goes with without_pcre, and every
  dependency.
- `LoopResolved`: the loop removes options only, one of every pair it saw, no
  feature that was asked for, no engine and, unless http is disabled, not http_ssl
  (`Resolved`, an invariant of both loops); at its end nothing selected excludes
  anything selected. `LoopReported` is the loop without resolution: if it reports
  nothing there was no conflict.
- `ClosureSound`: what the last stage adds is excluded by nothing that is left, so
  that the error "cannot reconcile" (options.go:820) never comes. Without
  `WellPlaced` this fails: an option that loses a conflict could be brought back
  by one that depends on it.
- `ResolvedIsBuildable` and `PreviewAgrees` put these together. The second needs
  that the stages ask nothing of the resolution when no conflict is reported
  (`CompletedAgree`), and that neither loop nor closure then changes anything.

An induction over a loop is an induction over the set of the passes at which the
invariant holds (`LoopInduction`, from the least element of a set of numbers); that
the functions of the passes satisfy their equations is proved in the same way
(`TurnStates`, `TurnsStates`).

`WebServiceProofs` proves, for any hosts, dependencies, readers and bounds
(`InstallerAssumption`), of `ServerSpec`:

- `InstallersExclude`: `OneInstaller`.
- `StreamsInOrder`: `StreamInOrder`. The invariant `InstallerInv` adds that
  requests come in order and those after the one that installs have written
  nothing (`InTurn`), so that the next line is later than any that exists; that
  the log is in order (`LogOrdered`); and that for each reader what it was sent,
  followed by what its channel holds, is in order and has only lines that were
  written (`StreamOrdered`). The order of what was sent is not inductive: it needs
  the channel, and the channel needs that a line that comes is the latest.

It proves `SessionsStay` (`SessionsAreKept`) for any capacity and
lifetime (`SessionAssumption`). `SessionInv` says that a session in the store has
the expiry its login gave it (`StoredMatches`) and that no login is of the future
(`LoginsArePast`); a session that is evicted then has at least as many others
after it as the store holds, because those in it expire no earlier.

It proves `VersionsAreRecent` (`ServedIsRecent`) for any callers
and times (`VersionAssumption`). `VersionInv` says that no request is older than
its timeout (`RequestsAreShort`) and that an official list in the cache is at most
one timeout older than the time it was stored (`StoredInTime`).

Only model-checked is liveness: `EveryJobEnds`, `ShutdownDrains`, `ClosedLogEnds`,
`EveryCallerIsServed`, `EveryFetchReturns` and `ServerExits`. Fairness is beyond the
prover.

## Where the code and its documentation differ

- `options_redundant`: the comment at options.go:683 and the warning at 690 say
  that flags that disable parts of http are ignored because all of http is
  disabled. The flags are dropped (688) before conflicts are resolved, and the
  resolution may then drop `without_http` itself: for `without_http`,
  `without_http_gzip` and `http_ssl`, http is built with gzip, which the user
  disabled, and the warning says the contrary.
- `versions_fallback`: the README promises a list that is cached for 30 minutes
  and the bundled list if retrieval fails. Of two refreshes that overlap, one that
  fails, or whose client disconnects, stores the bundled list over the official
  one that the other has just stored (version.go:67), for the next 30 minutes.

- Old releases, without a run of their own: README.md:205 says that "invalid values
  return 400" and that a preview does not guarantee that an older version compiles.
  A listed version that is not `1.N.N` gets a clean preview and 202, and the worker
  then answers "invalid Nginx version" (version.go:204) before anything is
  downloaded or compiled. `build_request` reaches this (`misconfigured`), and the
  two properties and theorems name it as the one exception among accepted requests.

## Not modelled

- The network client: its checks of addresses and redirects depend on the resolver
  and the network and keep no state. Its singleflight Group is used by tests only.
- Configuration, read once at start; its positive limits are the assumptions of
  the modules.
- The HTML and JavaScript of the web page, except where it explains a choice
  (resolution by an earlier preview, what an end of a stream is taken for).
- What archives contain and what commands compute: extraction with its limits, the
  comparison of `nginx -V` with the arguments, compilers and make are each a step
  that succeeds or fails.
- The characters of build IDs (a number that grows stands for them), command lines
  and package names, cookies, access keys and origins, the text of messages and
  logs, the Docker files.
- The command that CreateJob asks for the compiler while it holds `Manager.mu` is
  taken to return.

## Plan

What would come next are algorithms against reference definitions over bounded
inputs, where a module is worth it: parseConfigureArguments and the limits of
extraction.
