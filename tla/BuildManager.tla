---------------------------- MODULE BuildManager ----------------------------
(***************************************************************************)
(* The build scheduler of the service: builder.Manager (manager.go), the   *)
(* life of one worker goroutine (runWorker, ExecuteBuild) and the metadata *)
(* files they keep under the build directory (saveMetadata, executor.go).  *)
(*                                                                         *)
(* Actors: HTTP handlers that call CreateJob and CancelJob, one worker per *)
(* admitted job, one timer per job context, the shutdown path of main, and *)
(* the environment that may stop the process between any two steps.  They  *)
(* share Manager.mu, metadataMu, the semaphore channel and the disk.       *)
(*                                                                         *)
(* A build ID is a number: IDs and StartTime both grow in creation order,  *)
(* so "newer" is ">".  A build's work inside one phase is one step that    *)
(* succeeds or fails; what a phase does to the disk is kept only as the    *)
(* two facts the properties need, the scratch directories and the artifact.*)
(***************************************************************************)
EXTENDS Integers, Sequences, FiniteSets

CONSTANTS
    Phases,             \* the statuses ExecuteBuild goes through, in order
    MaxBuilds,          \* bound: build IDs ever generated
    MaxConcurrentJobs,  \* Config.MaxConcurrentJobs, capacity of Manager.sem
    MaxQueuedJobs,      \* Config.MaxQueuedJobs
    MaxRetainedBuilds,  \* Config.MaxRetainedBuilds
    MaxStops,           \* bound: times the process stops and is started again
    MaxShutdowns,       \* bound: calls of Shutdown per process; main makes one
    MaxFaulty           \* bound: builds the disk fails for at a time

(* NewManager replaces nonpositive limits by positive defaults. *)
ASSUME LimitsAssumption ==
    /\ MaxBuilds \in Nat
    /\ MaxConcurrentJobs \in Nat \ {0}
    /\ MaxQueuedJobs \in Nat \ {0}
    /\ MaxRetainedBuilds \in Nat \ {0}
    /\ MaxStops \in Nat
    /\ MaxShutdowns \in 0 .. 1
    /\ MaxFaulty \in Nat

Builds == 1 .. MaxBuilds
NoBuild == 0

Unfinished == {"queued", "downloading", "configuring", "building", "packaging"}
Terminal == {"completed", "failed", "cancelled"}

(* The code's Phases are all of Unfinished but "queued", in this order.     *)
ASSUME PhasesAssumption ==
    /\ Phases \in Seq(Unfinished \ {"queued"})
    /\ Len(Phases) > 0

LastPhase == Len(Phases)

IsTerminal(s) == s \in Terminal
Absent == "absent"      \* no entry in Manager.jobs, or no meta.json on disk
Statuses == Unfinished \cup Terminal \cup {Absent}

VARIABLES
  (* memory of the process *)
    server,     \* "loading" (NewManager), "serving" or "down"
    jobs,       \* Manager.jobs: the Status of each job, or Absent
    context,    \* the job's context while it is in Manager.cancelFuncs, else "none"
    workspaces, \* keys of Manager.workspaces: jobs this process created
    logOpen,    \* jobs whose LogBroadcaster is not closed
    worker,     \* where the job's goroutine is, "none" before it starts and after it ends
    phase,      \* the phase ExecuteBuild is in: 0 before the first
    buildErr,   \* runWorker's buildErr is not nil
    sem,        \* tokens in Manager.sem
    mu,         \* what the holder of Manager.mu is about to do, or "free"
    muJob,      \* the job that holder works on
    metadataMu, \* the job whose metadata is being written, or NoBuild
    snapshot,   \* the clone that write puts on disk
    closed,     \* Manager.closed
    shutdown,   \* "no", "waiting" or "done": the call of Shutdown
  (* the build directory *)
    meta,       \* the status in <id>/meta.json, or Absent
    scratch,    \* builds that have source/, deps/ or work/ on disk
    artifacts,  \* builds that have their archive in artifacts/
  (* bookkeeping of the model *)
    lastID,     \* the last build ID generated
    stops,      \* times the process has stopped
    acked,      \* builds for which CancelJob has returned nil
    unsaved,    \* builds whose latest saveMetadata failed
    uncleaned,  \* builds whose scratch directories could not be removed
    damaged     \* builds whose removal by PruneOldBuilds failed part way

service == <<server, closed, shutdown>>
tables == <<jobs, context, workspaces, logOpen>>
workers == <<worker, phase, buildErr, sem>>
lock == <<mu, muJob>>
saving == <<metadataMu, snapshot>>
disk == <<meta, scratch, artifacts>>
book == <<lastID, stops, acked, unsaved, uncleaned, damaged>>
vars == <<service, tables, workers, lock, saving, disk, book>>

-----------------------------------------------------------------------------
(* Types *)

(* The order in which runWorker and ExecuteBuild pass through them. *)
WorkerSteps == {"none", "waiting", "recheck", "work", "enter", "update", "save",
                "saving", "smoke", "release", "finish", "record", "recording",
                "close", "clean", "deregister", "prune"}

(* Steps taken while holding a token of Manager.sem. *)
SlotSteps == {"recheck", "work", "enter", "update", "save", "saving", "smoke",
              "release"}

MuSteps == {"free", "createSave", "createSaving", "createRegister",
            "cancelContext", "cancelSave", "cancelSaving"}

TypeOK ==
    /\ server \in {"loading", "serving", "down"}
    /\ jobs \in [Builds -> Statuses]
    /\ context \in [Builds -> {"none", "live", "canceled", "deadline"}]
    /\ workspaces \subseteq Builds
    /\ logOpen \subseteq Builds
    /\ worker \in [Builds -> WorkerSteps]
    /\ phase \in [Builds -> 0 .. LastPhase]
    /\ buildErr \in [Builds -> BOOLEAN]
    /\ sem \in 0 .. MaxConcurrentJobs
    /\ mu \in MuSteps
    /\ muJob \in Builds \cup {NoBuild}
    /\ metadataMu \in Builds \cup {NoBuild}
    /\ snapshot \in Statuses
    /\ closed \in BOOLEAN
    /\ shutdown \in {"no", "waiting", "done"}
    /\ meta \in [Builds -> Statuses]
    /\ scratch \subseteq Builds
    /\ artifacts \subseteq Builds
    /\ lastID \in 0 .. MaxBuilds
    /\ stops \in 0 .. MaxStops
    /\ acked \subseteq Builds
    /\ unsaved \subseteq Builds
    /\ uncleaned \subseteq Builds
    /\ damaged \subseteq Builds

Active == {j \in Builds : context[j] # "none"}      \* keys of Manager.cancelFuncs
Present == {j \in Builds : jobs[j] # Absent}        \* keys of Manager.jobs
HoldsSlot == {j \in Builds : worker[j] \in SlotSteps}

(* The build ID CreateJob is working on, before it is registered.           *)
Creating == IF mu \in {"createSave", "createSaving", "createRegister"}
            THEN {muJob} ELSE {}

Serving == server = "serving"
Done(j) == context[j] \in {"canceled", "deadline"}  \* ctx.Err() != nil

Init ==
    /\ server = "serving"
    /\ jobs = [j \in Builds |-> Absent]
    /\ context = [j \in Builds |-> "none"]
    /\ workspaces = {}
    /\ logOpen = {}
    /\ worker = [j \in Builds |-> "none"]
    /\ phase = [j \in Builds |-> 0]
    /\ buildErr = [j \in Builds |-> FALSE]
    /\ sem = 0
    /\ mu = "free"
    /\ muJob = NoBuild
    /\ metadataMu = NoBuild
    /\ snapshot = Absent
    /\ closed = FALSE
    /\ shutdown = "no"
    /\ meta = [j \in Builds |-> Absent]
    /\ scratch = {}
    /\ artifacts = {}
    /\ lastID = 0
    /\ stops = 0
    /\ acked = {}
    /\ unsaved = {}
    /\ uncleaned = {}
    /\ damaged = {}

-----------------------------------------------------------------------------
(* Disk faults: a save or a removal may fail at any time, for MaxFaulty     *)
(* builds at a time.                                                        *)

MayFail(j) ==
    Cardinality({j} \cup unsaved \cup uncleaned \cup damaged) <= MaxFaulty

(* saveMetadata: clone the job under metadataMu, write a temporary file and *)
(* rename it over meta.json.  Any error leaves the old file.                *)

SaveBegin(j, status) ==
    /\ metadataMu = NoBuild
    /\ metadataMu' = j
    /\ snapshot' = status

SaveOK(j) ==
    /\ metadataMu' = NoBuild
    /\ snapshot' = Absent
    /\ meta' = [meta EXCEPT ![j] = snapshot]
    /\ unsaved' = unsaved \ {j}

SaveError(j) ==
    /\ MayFail(j)
    /\ metadataMu' = NoBuild
    /\ snapshot' = Absent
    /\ unsaved' = unsaved \cup {j}
    /\ UNCHANGED meta

-----------------------------------------------------------------------------
(* PruneOldBuilds, called with Manager.mu held: the terminal jobs without an *)
(* active worker, newest first; those beyond MaxRetainedBuilds are removed   *)
(* in that order until a RemoveAll fails, which may have removed any part    *)
(* of its directory.                                                         *)

Candidates == {j \in Present \ Active : IsTerminal(jobs[j])}

\* Fault: one terminal job too many is kept.
ExcessOffByOne ==
    {j \in Candidates :
        Cardinality({k \in Candidates : k > j}) > MaxRetainedBuilds}

\* Fault: sorted oldest first.
ExcessNewest ==
    {j \in Candidates :
        Cardinality({k \in Candidates : k < j}) >= MaxRetainedBuilds}

Excess ==
    {j \in Candidates :
        Cardinality({k \in Candidates : k > j}) >= MaxRetainedBuilds}

Forget(gone) ==
    /\ jobs' = [j \in Builds |-> IF j \in gone THEN Absent ELSE jobs[j]]
    /\ workspaces' = workspaces \ gone

RemoveFiles(records, scratches, archives) ==
    /\ meta' = [j \in Builds |-> IF j \in records THEN Absent ELSE meta[j]]
    /\ scratch' = scratch \ scratches
    /\ artifacts' = artifacts \ archives

PruneOldBuilds ==
    \/ /\ Forget(Excess)
       /\ RemoveFiles(Excess, Excess, Excess)
       /\ logOpen' = logOpen \ Excess
       /\ UNCHANGED damaged
    \/ \E failing \in Excess :
         LET gone == {j \in Excess : j > failing}
             some == {gone, gone \cup {failing}}
         IN  /\ MayFail(failing)
             /\ Forget(gone)
             /\ \E records \in some, scratches \in some, archives \in some :
                    RemoveFiles(records, scratches, archives)
             /\ logOpen' = logOpen \ (gone \cup {failing})
             /\ damaged' = damaged \cup {failing}

-----------------------------------------------------------------------------
(* CreateJob.  Validation and the version lookup come before the lock and   *)
(* change nothing; the refusals (ErrShuttingDown, ErrQueueFull) change      *)
(* nothing either.  Everything else happens with Manager.mu held.           *)

\* Fault: the bound is off by one.
HasRoomOffByOne == Cardinality(Active) <= MaxConcurrentJobs + MaxQueuedJobs

HasRoom == Cardinality(Active) < MaxConcurrentJobs + MaxQueuedJobs

Admits ==
    /\ Serving
    /\ mu = "free"
    /\ ~closed
    /\ HasRoom
    /\ lastID < MaxBuilds

(* GenerateBuildID and NewWorkspace. *)
CreateBegin ==
    /\ Admits
    /\ lastID' = lastID + 1
    /\ mu' = "createSave"
    /\ muJob' = lastID + 1
    /\ scratch' = scratch \cup {lastID + 1}
    /\ UNCHANGED <<service, tables, workers, saving, meta, artifacts,
                   stops, acked, unsaved, uncleaned, damaged>>

(* NewWorkspace fails part way and leaves what it made, or the log file     *)
(* cannot be opened and RemoveAll may leave something.                      *)
CreateFails ==
    /\ Admits
    /\ lastID' = lastID + 1
    /\ MayFail(lastID + 1)
    /\ \E left \in SUBSET {lastID + 1} : scratch' = scratch \cup left
    /\ UNCHANGED <<service, tables, workers, lock, saving, meta,
                   artifacts, stops, acked, unsaved, uncleaned, damaged>>

CreateSave ==
    /\ mu = "createSave"
    /\ SaveBegin(muJob, "queued")
    /\ mu' = "createSaving"
    /\ UNCHANGED <<service, tables, workers, muJob, disk, book>>

CreateSaved ==
    /\ mu = "createSaving"
    /\ SaveOK(muJob)
    /\ mu' = "createRegister"
    /\ UNCHANGED <<service, tables, workers, muJob, scratch, artifacts,
                   lastID, stops, acked, uncleaned, damaged>>

(* The save failed: RemoveAll, whose error is ignored, and return. *)
CreateAborts ==
    /\ mu = "createSaving"
    /\ MayFail(muJob)
    /\ metadataMu' = NoBuild
    /\ snapshot' = Absent
    /\ mu' = "free"
    /\ muJob' = NoBuild
    /\ \E left \in SUBSET {muJob} : scratch' = (scratch \ {muJob}) \cup left
    /\ UNCHANGED <<service, tables, workers, meta, artifacts, book>>

(* Register the job with its broadcaster, workspace and cancel function and *)
(* start its worker; the response is a clone taken here.                    *)
CreateRegister ==
    /\ mu = "createRegister"
    /\ jobs' = [jobs EXCEPT ![muJob] = "queued"]
    /\ context' = [context EXCEPT ![muJob] = "live"]
    /\ workspaces' = workspaces \cup {muJob}
    /\ logOpen' = logOpen \cup {muJob}
    /\ worker' = [worker EXCEPT ![muJob] = "waiting"]
    /\ mu' = "free"
    /\ muJob' = NoBuild
    /\ UNCHANGED <<service, phase, buildErr, sem, saving, disk, book>>

-----------------------------------------------------------------------------
(* CancelJob: everything happens with Manager.mu held; a terminal or        *)
(* unknown job is refused and nothing changes.                              *)

Cancel(c) == IF c = "live" THEN "canceled" ELSE c

CancelBegin(j) ==
    /\ Serving
    /\ mu = "free"
    /\ jobs[j] \in Unfinished
    /\ jobs' = [jobs EXCEPT ![j] = "cancelled"]
    /\ mu' = "cancelContext"
    /\ muJob' = j
    /\ UNCHANGED <<service, context, workspaces, logOpen, workers,
                   saving, disk, book>>

CancelContext ==
    /\ mu = "cancelContext"
    /\ context' = [context EXCEPT ![muJob] = Cancel(context[muJob])]
    /\ mu' = "cancelSave"
    /\ UNCHANGED <<service, jobs, workspaces, logOpen, workers, muJob,
                   saving, disk, book>>

CancelSave ==
    /\ mu = "cancelSave"
    /\ SaveBegin(muJob, jobs[muJob])
    /\ mu' = "cancelSaving"
    /\ UNCHANGED <<service, tables, workers, muJob, disk, book>>

(* CancelJob returns nil if the save succeeded and its error if it failed.  *)
CancelReturns ==
    /\ mu = "cancelSaving"
    /\ \/ SaveOK(muJob) /\ acked' = acked \cup {muJob}
       \/ SaveError(muJob) /\ UNCHANGED acked
    /\ mu' = "free"
    /\ muJob' = NoBuild
    /\ UNCHANGED <<service, tables, workers, scratch, artifacts,
                   lastID, stops, uncleaned, damaged>>

-----------------------------------------------------------------------------
(* runWorker and ExecuteBuild, one goroutine per admitted job.              *)

Goto(j, step) == worker' = [worker EXCEPT ![j] = step]

At(j, step) == worker[j] = step

(* A step that concerns nothing but the goroutine and its token.            *)
WorkersOnly == UNCHANGED <<service, tables, lock, saving, disk, book>>

\* Fault: the receive from the semaphore is deferred before the select.
GiveUpWaitingReleases(j) ==
    /\ At(j, "waiting")
    /\ Done(j)
    /\ buildErr' = [buildErr EXCEPT ![j] = TRUE]
    /\ Goto(j, "release")
    /\ WorkersOnly /\ UNCHANGED <<phase, sem>>

\* Fault: a job that never ran is saved without an outcome.
GiveUpWaitingUndecided(j) ==
    /\ At(j, "waiting")
    /\ Done(j)
    /\ Goto(j, "record")
    /\ WorkersOnly /\ UNCHANGED <<phase, buildErr, sem>>

(* The select on ctx.Done() and the semaphore: a job that never ran.        *)
GiveUpWaiting(j) ==
    /\ At(j, "waiting")
    /\ Done(j)
    /\ buildErr' = [buildErr EXCEPT ![j] = TRUE]
    /\ Goto(j, "finish")
    /\ WorkersOnly /\ UNCHANGED <<phase, sem>>

SlotFree == sem < MaxConcurrentJobs

(* The select may take the token although the context is done as well.      *)
Acquire(j) ==
    /\ At(j, "waiting")
    /\ SlotFree
    /\ sem' = sem + 1
    /\ Goto(j, "recheck")
    /\ WorkersOnly /\ UNCHANGED <<phase, buildErr>>

\* Fault: the early return keeps its token.
RecheckLeaks(j) ==
    /\ At(j, "recheck")
    /\ buildErr' = [buildErr EXCEPT ![j] = Done(j)]
    /\ Goto(j, IF Done(j) THEN "finish" ELSE "work")
    /\ WorkersOnly /\ UNCHANGED <<phase, sem>>

(* The checks of the context after the token and on entering ExecuteBuild.  *)
Recheck(j) ==
    /\ At(j, "recheck")
    /\ buildErr' = [buildErr EXCEPT ![j] = Done(j)]
    /\ Goto(j, IF Done(j) THEN "release" ELSE "work")
    /\ WorkersOnly /\ UNCHANGED <<phase, sem>>

(* setBuildPhase: first the context ...                                     *)
EnterPhase(j) ==
    /\ At(j, "enter")
    /\ buildErr' = [buildErr EXCEPT ![j] = Done(j)]
    /\ Goto(j, IF Done(j) THEN "release" ELSE "update")
    /\ WorkersOnly /\ UNCHANGED <<phase, sem>>

\* Fault: setBuildPhase does not look at the status.
UpdatePhaseAlways(j) ==
    /\ At(j, "update")
    /\ jobs' = [jobs EXCEPT ![j] = Phases[phase[j]]]
    /\ Goto(j, "save")
    /\ UNCHANGED <<service, context, workspaces, logOpen, phase, buildErr, sem,
                   lock, saving, disk, book>>

(* ... then, under the job's lock, the status, unless it is terminal.       *)
UpdatePhase(j) ==
    /\ At(j, "update")
    /\ IF IsTerminal(jobs[j])
         THEN /\ buildErr' = [buildErr EXCEPT ![j] = TRUE]
              /\ Goto(j, "release")
              /\ UNCHANGED jobs
         ELSE /\ jobs' = [jobs EXCEPT ![j] = Phases[phase[j]]]
              /\ Goto(j, "save")
              /\ UNCHANGED buildErr
    /\ UNCHANGED <<service, context, workspaces, logOpen, phase, sem, lock,
                   saving, disk, book>>

\* Fault: the worker saves the phase it has set instead of a clone.
WorkerSaveOfPhase(j) ==
    /\ \/ At(j, "save") /\ Goto(j, "saving") /\ SaveBegin(j, Phases[phase[j]])
       \/ At(j, "record") /\ Goto(j, "recording") /\ SaveBegin(j, jobs[j])
    /\ UNCHANGED <<service, tables, phase, buildErr, sem, lock, disk, book>>

(* The saves of the worker: after each phase change, and in its final defer. *)
WorkerSave(j) ==
    /\ \/ At(j, "save") /\ Goto(j, "saving")
       \/ At(j, "record") /\ Goto(j, "recording")
    /\ SaveBegin(j, jobs[j])
    /\ UNCHANGED <<service, tables, phase, buildErr, sem, lock, disk, book>>

(* The error of either save is dropped or logged; the worker goes on.       *)
WorkerSaved(j) ==
    /\ \/ At(j, "saving") /\ Goto(j, "work")
       \/ At(j, "recording") /\ Goto(j, "close")
    /\ SaveOK(j) \/ SaveError(j)
    /\ UNCHANGED <<service, tables, phase, buildErr, sem, lock,
                   scratch, artifacts, lastID, stops, acked, uncleaned, damaged>>

(* The work of a phase succeeds: opening error.log before the first one,    *)
(* then download and extraction, configure, make and verification.          *)
WorkDone(j) ==
    /\ At(j, "work")
    /\ phase[j] < LastPhase
    /\ phase' = [phase EXCEPT ![j] = @ + 1]
    /\ Goto(j, "enter")
    /\ WorkersOnly /\ UNCHANGED <<buildErr, sem>>

(* packageArtifactsContext renames the finished archive into artifacts/.    *)
PublishArtifact(j) ==
    /\ At(j, "work")
    /\ phase[j] = LastPhase
    /\ artifacts' = artifacts \cup {j}
    /\ Goto(j, "smoke")
    /\ UNCHANGED <<service, tables, phase, buildErr, sem, lock, saving,
                   meta, scratch, book>>

(* The smoke test passes and the last check of the context does too.        *)
SmokeTestPasses(j) ==
    /\ At(j, "smoke")
    /\ ~Done(j)
    /\ Goto(j, "release")
    /\ WorkersOnly /\ UNCHANGED <<phase, buildErr, sem>>

(* Any of it fails, for its own reasons or because the context is done.     *)
WorkFails(j) ==
    /\ worker[j] \in {"work", "smoke"}
    /\ buildErr' = [buildErr EXCEPT ![j] = TRUE]
    /\ Goto(j, "release")
    /\ WorkersOnly /\ UNCHANGED <<phase, sem>>

\* Fault: the log is closed when execution ends, before the outcome is set.
ReleaseClosesLog(j) ==
    /\ At(j, "release")
    /\ sem' = sem - 1
    /\ phase' = [phase EXCEPT ![j] = 0]
    /\ logOpen' = logOpen \ {j}
    /\ Goto(j, "finish")
    /\ UNCHANGED <<service, jobs, context, workspaces, buildErr, lock, saving,
                   disk, book>>

(* The deferred receive from the semaphore runs before the final defer.     *)
Release(j) ==
    /\ At(j, "release")
    /\ sem' = sem - 1
    /\ phase' = [phase EXCEPT ![j] = 0]
    /\ Goto(j, "finish")
    /\ WorkersOnly /\ UNCHANGED buildErr

\* Fault: the error of the build is dropped.
OutcomeIgnoresError(j) ==
    IF context[j] = "canceled" THEN "cancelled"
    ELSE IF Done(j) THEN "failed"
    ELSE "completed"

Outcome(j) ==
    IF context[j] = "canceled" THEN "cancelled"
    ELSE IF Done(j) \/ buildErr[j] THEN "failed"
    ELSE "completed"

\* Fault: a job that is terminal already is not saved again.
FinishSkipsSave(j) ==
    /\ At(j, "finish")
    /\ jobs' = [jobs EXCEPT ![j] = IF IsTerminal(@) THEN @ ELSE Outcome(j)]
    /\ buildErr' = [buildErr EXCEPT ![j] = FALSE]
    /\ Goto(j, IF IsTerminal(jobs[j]) THEN "close" ELSE "record")
    /\ UNCHANGED <<service, context, workspaces, logOpen, phase, sem, lock,
                   saving, disk, book>>

(* The final defer: a terminal status already there is kept.                *)
Finish(j) ==
    /\ At(j, "finish")
    /\ jobs' = [jobs EXCEPT ![j] = IF IsTerminal(@) THEN @ ELSE Outcome(j)]
    /\ buildErr' = [buildErr EXCEPT ![j] = FALSE]
    /\ Goto(j, "record")
    /\ UNCHANGED <<service, context, workspaces, logOpen, phase, sem, lock,
                   saving, disk, book>>

\* Fault: the intermediate files are not cleaned.
CloseLogSkipsClean(j) ==
    /\ At(j, "close")
    /\ logOpen' = logOpen \ {j}
    /\ Goto(j, "deregister")
    /\ UNCHANGED <<service, jobs, context, workspaces, phase, buildErr, sem,
                   lock, saving, disk, book>>

CloseLog(j) ==
    /\ At(j, "close")
    /\ logOpen' = logOpen \ {j}
    /\ Goto(j, "clean")
    /\ UNCHANGED <<service, jobs, context, workspaces, phase, buildErr, sem,
                   lock, saving, disk, book>>

(* cleanIntermediateFiles ignores the errors of its three RemoveAll calls.  *)
CleanIntermediateFiles(j) ==
    /\ At(j, "clean")
    /\ \/ scratch' = scratch \ {j} /\ UNCHANGED uncleaned
       \/ MayFail(j) /\ UNCHANGED scratch /\ uncleaned' = uncleaned \cup {j}
    /\ Goto(j, "deregister")
    /\ UNCHANGED <<service, tables, phase, buildErr, sem, lock, saving,
                   meta, artifacts, lastID, stops, acked, unsaved, damaged>>

(* Under Manager.mu: release the context and leave cancelFuncs.             *)
Deregister(j) ==
    /\ At(j, "deregister")
    /\ mu = "free"
    /\ context' = [context EXCEPT ![j] = "none"]
    /\ Goto(j, "prune")
    /\ UNCHANGED <<service, jobs, workspaces, logOpen, phase, buildErr, sem,
                   lock, saving, disk, book>>

(* PruneOldBuilds, then wg.Done: the goroutine is gone.                     *)
WorkerPrune(j) ==
    /\ At(j, "prune")
    /\ mu = "free"
    /\ PruneOldBuilds
    /\ Goto(j, "none")
    /\ UNCHANGED <<service, context, phase, buildErr, sem, lock, saving, lastID, stops,
                   acked, unsaved, uncleaned>>

\* Fault: the timeout covers the time in the queue only.
JobTimeoutInQueue(j) ==
    /\ context[j] = "live"
    /\ At(j, "waiting")
    /\ context' = [context EXCEPT ![j] = "deadline"]
    /\ UNCHANGED <<service, jobs, workspaces, logOpen, workers, lock, saving,
                   disk, book>>

(* context.WithTimeout: the clock started at admission.  After the outcome  *)
(* is decided nobody reads the context any more.                            *)
JobTimeout(j) ==
    /\ context[j] = "live"
    /\ worker[j] \in SlotSteps \cup {"waiting", "finish"}
    /\ context' = [context EXCEPT ![j] = "deadline"]
    /\ UNCHANGED <<service, jobs, workspaces, logOpen, workers, lock, saving,
                   disk, book>>

-----------------------------------------------------------------------------
(* Shutdown, called once by main: refuse new jobs, cancel the parent of all *)
(* contexts, wait for every worker or until main's own deadline.  When the  *)
(* deadline passes it only returns its error: the workers go on until they  *)
(* end or the process does.                                                 *)

ShutdownBegin ==
    /\ Serving
    /\ mu = "free"
    /\ MaxShutdowns > 0
    /\ shutdown = "no"
    /\ shutdown' = "waiting"
    /\ closed' = TRUE
    /\ context' = [j \in Builds |-> Cancel(context[j])]
    /\ UNCHANGED <<server, jobs, workspaces, logOpen, workers, lock, saving,
                   disk, book>>

\* Fault: only the jobs that hold a token are waited for.
ShutdownDoneEarly ==
    /\ shutdown = "waiting"
    /\ sem = 0
    /\ shutdown' = "done"
    /\ UNCHANGED <<server, closed, tables, workers, lock, saving, disk, book>>

(* wg.Wait has returned.                                                    *)
ShutdownDone ==
    /\ shutdown = "waiting"
    /\ \A j \in Builds : worker[j] = "none"
    /\ shutdown' = "done"
    /\ UNCHANGED <<server, closed, tables, workers, lock, saving, disk, book>>

-----------------------------------------------------------------------------
(* The process ends at any moment, killed or after Shutdown; memory is lost *)
(* and the disk stays.                                                      *)

Stop ==
    /\ server # "down"
    /\ stops < MaxStops
    /\ stops' = stops + 1
    /\ server' = "down"
    /\ closed' = FALSE
    /\ shutdown' = "no"
    /\ jobs' = [j \in Builds |-> Absent]
    /\ context' = [j \in Builds |-> "none"]
    /\ workspaces' = {}
    /\ logOpen' = {}
    /\ worker' = [j \in Builds |-> "none"]
    /\ phase' = [j \in Builds |-> 0]
    /\ buildErr' = [j \in Builds |-> FALSE]
    /\ sem' = 0
    /\ mu' = "free"
    /\ muJob' = NoBuild
    /\ metadataMu' = NoBuild
    /\ snapshot' = Absent
    /\ UNCHANGED <<disk, lastID, acked, unsaved, uncleaned, damaged>>

\* Fault: whatever did not complete is failed again.
RestoredCompleted(status) ==
    IF status \in {"completed", Absent} THEN status ELSE "failed"

Restored(status) == IF status \in Unfinished THEN "failed" ELSE status

(* NewManager, loadHistoricalJobs: every readable meta.json becomes a job;  *)
(* an interrupted one is failed and saved again, and a failed save is only  *)
(* logged.                                                                  *)
LoadHistoricalJobs ==
    /\ server = "down"
    /\ server' = "loading"
    /\ jobs' = [j \in Builds |-> Restored(meta[j])]
    /\ LET interrupted == {j \in Builds : meta[j] \in Unfinished}
       IN  \E saved \in SUBSET interrupted :
              /\ \A j \in interrupted \ saved : MayFail(j)
              /\ meta' = [j \in Builds |->
                             IF j \in saved THEN Restored(meta[j]) ELSE meta[j]]
              /\ unsaved' = interrupted \ saved
    /\ UNCHANGED <<closed, shutdown, context, workspaces, logOpen,
                   workers, lock, saving, scratch, artifacts, lastID, stops, acked,
                   uncleaned, damaged>>

(* NewManager, PruneOldBuilds, then the routes are served.                  *)
StartupPrune ==
    /\ server = "loading"
    /\ server' = "serving"
    /\ PruneOldBuilds
    /\ UNCHANGED <<closed, shutdown, context, workers, lock, saving,
                   lastID, stops, acked, unsaved, uncleaned>>

-----------------------------------------------------------------------------

CreateJob == CreateBegin \/ CreateFails \/ CreateSave \/ CreateSaved
             \/ CreateAborts \/ CreateRegister

CancelJob == (\E j \in Builds : CancelBegin(j)) \/ CancelContext \/ CancelSave
             \/ CancelReturns

Worker(j) ==
    \/ GiveUpWaiting(j) \/ Acquire(j) \/ Recheck(j)
    \/ EnterPhase(j) \/ UpdatePhase(j) \/ WorkerSave(j) \/ WorkerSaved(j)
    \/ WorkDone(j) \/ PublishArtifact(j) \/ SmokeTestPasses(j) \/ WorkFails(j)
    \/ Release(j) \/ Finish(j) \/ CloseLog(j) \/ CleanIntermediateFiles(j)
    \/ Deregister(j) \/ WorkerPrune(j)

Shutdown == ShutdownBegin \/ ShutdownDone

(* main has returned from Shutdown and nothing is left to run, or nothing   *)
(* is left to ask for within the bounds of an instance.                     *)
Exited ==
    /\ shutdown = "done" \/ (MaxShutdowns = 0 /\ lastID = MaxBuilds)
    /\ \A j \in Builds : worker[j] = "none"
    /\ mu = "free"
    /\ UNCHANGED vars

Next ==
    \/ CreateJob
    \/ CancelJob
    \/ \E j \in Builds : Worker(j) \/ JobTimeout(j)
    \/ Shutdown
    \/ Stop \/ LoadHistoricalJobs \/ StartupPrune
    \/ Exited

Spec == Init /\ [][Next]_vars

\* Fault: commands are started without the context.
MayHangForEver(j) == worker[j] \in {"work", "smoke"}

(* A command, download or test that has a live context may run for ever.    *)
MayHang(j) == worker[j] \in {"work", "smoke"} /\ ~Done(j)

(* The Go scheduler runs every goroutine that can run, its mutexes do not   *)
(* starve a waiter, timers fire, and commands end once their context is     *)
(* done (newBuildCommand kills the process group).  Nobody has to call the  *)
(* service, builds need not end by themselves, the process need not stop.   *)
Fairness ==
    /\ WF_vars(CreateSave \/ CreateSaved \/ CreateAborts \/ CreateRegister)
    /\ WF_vars(CancelContext \/ CancelSave \/ CancelReturns)
    /\ \A j \in Builds : WF_vars(Worker(j) /\ ~MayHang(j))
    /\ \A j \in Builds : WF_vars(JobTimeout(j))
    /\ WF_vars(ShutdownDone)

FairSpec == Spec /\ Fairness

-----------------------------------------------------------------------------
(* Safety *)

(* README: at most --jobs + --queue-limit unfinished jobs are admitted,     *)
(* counting the one CreateJob is about to register.                         *)
AdmissionBound ==
    Cardinality(Active \cup Creating)
        <= MaxConcurrentJobs + MaxQueuedJobs

(* README: --jobs limits simultaneous build jobs, however their workers     *)
(* leave: no worker executes without a token and no token is lost.          *)
SlotsMatchWorkers ==
    /\ sem = Cardinality(HoldsSlot)
    /\ Cardinality(HoldsSlot) <= MaxConcurrentJobs

(* A job that is not terminal still has its context in cancelFuncs, so that *)
(* CancelJob and Shutdown reach its worker, and a worker that will end it.  *)
UnfinishedIsActive ==
    \A j \in Builds :
        jobs[j] \in Unfinished =>
            context[j] # "none" /\ worker[j] \notin {"none", "record", "recording",
                "close", "clean", "deregister", "prune"}

(* Manager.go: registrations are kept until execution, logs and cleanup have *)
(* stopped.  A job of this process that is no longer active is terminal, its *)
(* log closed, its scratch directories gone unless their removal failed.     *)
InactiveIsSettled ==
    \A j \in Present \ Active :
        /\ IsTerminal(jobs[j])
        /\ j \notin logOpen
        /\ j \in workspaces => j \notin scratch \/ j \in uncleaned

(* A client that is told the end of a log closes its stream for good        *)
(* (web/app.js:617): by then the job has its outcome, in memory and as far  *)
(* as the disk allowed on record.                                           *)
EofMeansEnded ==
    \A j \in workspaces \ logOpen :
        /\ IsTerminal(jobs[j])
        /\ meta[j] = jobs[j] \/ j \in unsaved \cup damaged

(* GetArtifactPath serves completed jobs: whatever a job's races with        *)
(* cancellation, timeout, pruning and restarts, a completed one has its      *)
(* archive on disk, in memory's eyes and in those of the next process.  A    *)
(* stop inside os.RemoveAll (manager.go:364) may leave a record without its  *)
(* archive as well; here only a removal that fails does (damaged).  The next *)
(* process, with the same limit, finds that job beyond it and prunes it      *)
(* before it serves (StartupPrune).                                          *)
CompletedHasArtifact ==
    \A j \in Builds \ damaged :
        "completed" \in {jobs[j], meta[j]} => j \in artifacts

(* A cancellation that was answered with success is never taken back: not   *)
(* by the worker's own end, a save it had under way, or a restart.          *)
AckedCancelStays ==
    \A j \in acked :
        /\ jobs[j] \in {"cancelled", Absent}
        /\ meta[j] \in {"cancelled", Absent}

(* Once its worker is gone the record of a job is on disk as memory has it, *)
(* unless the last write failed: all worker exits record a terminal status. *)
EndIsRecorded ==
    \A j \in Present \ (unsaved \cup damaged) :
        worker[j] \in {"none", "close", "clean", "deregister", "prune"} =>
            meta[j] = jobs[j]

(* README: once no worker is left only the newest MaxRetainedBuilds jobs    *)
(* are, unless a directory could not be removed.                            *)
RetentionBound ==
    /\ server = "serving"
    /\ \A j \in Builds : worker[j] = "none"
    /\ Present \cap damaged = {}
    => Cardinality(Present) <= MaxRetainedBuilds

(* Shutdown returns nil only when all work has stopped, every job has its   *)
(* end, and no request still on its way can start another.                  *)
ShutdownIsFinal ==
    shutdown = "done" =>
        /\ Active = {} /\ sem = 0 /\ logOpen = {}
        /\ \A j \in Present : IsTerminal(jobs[j])
        /\ Creating = {}

-----------------------------------------------------------------------------
(* What a step may never do *)

(* model.IsTerminal: terminal states are not overwritten by later phases;   *)
(* the process that decided an outcome never decides another.               *)
TerminalIsFinal ==
    [][\A j \in Builds :
          IsTerminal(jobs[j]) => jobs'[j] \in {jobs[j], Absent}]_vars

(* Nor does the record on disk go back, across restarts as well: a stale    *)
(* clone is never written over a newer one.                                 *)
RecordNeverRegresses ==
    [][\A j \in Builds :
          /\ IsTerminal(meta[j]) => meta'[j] \in {meta[j], Absent}
          /\ meta[j] # Absent => meta'[j] # "queued" \/ meta[j] = "queued"]_vars

(* Pruning only takes the record or the archive of a job that no worker     *)
(* uses, and only while MaxRetainedBuilds newer terminal jobs stay.         *)
PruneKeepsNewest ==
    [][\A j \in Builds :
          \/ meta[j] # Absent /\ meta'[j] = Absent
          \/ j \in artifacts /\ j \notin artifacts'
          => /\ worker[j] = "none" \/ j \notin Active
             /\ Cardinality({k \in Builds : k > j /\ IsTerminal(jobs'[k])})
                    >= MaxRetainedBuilds]_vars

-----------------------------------------------------------------------------
(* Liveness *)

(* README: the timeout starts at admission.  Every admitted job reaches its *)
(* end and frees its place, even when builds hang and the queue is full.    *)
EveryJobEnds == \A j \in Builds : (j \in Active) ~> (worker[j] = "none" /\ j \notin Active)

(* After Shutdown has begun all workers leave.                              *)
ShutdownDrains == closed ~> (\A j \in Builds : worker[j] = "none")

-----------------------------------------------------------------------------
(* The abstract service.  While the process is down a client is told, by    *)
(* the next one, what loadHistoricalJobs makes of the records.              *)

Told(status) == IF status \in Unfinished THEN "pending" ELSE status

Service == INSTANCE BuildService WITH
    Capacity <- MaxConcurrentJobs + MaxQueuedJobs,
    view <- [j \in Builds |->
                IF server = "down" THEN Restored(meta[j]) ELSE Told(jobs[j])],
    durable <- {j \in Builds : IsTerminal(meta[j])},
    seen <- (1 .. lastID) \ Creating,
    open <- server = "serving" /\ ~closed

(* Every behaviour of the manager, with all its races, disk faults and      *)
(* restarts, is one the abstract service allows: outcomes are decided once, *)
(* recorded outcomes survive, retention never takes a newer build.          *)
ImplementsService == Service!Spec

=============================================================================
