-------------------------- MODULE BuildRecordProofs --------------------------
(***************************************************************************)
(* Proofs about what the end of a job leaves in BuildManager: its record   *)
(* and its archive on disk, its log, its scratch directories, and the jobs *)
(* that retention and Shutdown leave.                                      *)
(***************************************************************************)
EXTENDS BuildManagerProofs, WellFoundedInduction

-----------------------------------------------------------------------------
(* The invariant *)

(* What this process created it lists; a context has a worker that has not  *)
(* deregistered; a log is open exactly until its worker has closed it.      *)
LogClosed == {"none", "clean", "deregister", "prune"}
WorkspaceIsListed == workspaces \subseteq Present
ContextHasWorker == \A j \in Builds : context[j] # "none" => worker[j] \notin {"none", "prune"}
LogMatchesWorker == logOpen = {j \in Builds : worker[j] \notin LogClosed}

(* The worker has cleaned before it deregisters.                            *)
ScratchIsCleaned ==
    \A j \in workspaces :
        worker[j] \in {"none", "deregister", "prune"} => j \notin scratch \/ j \in uncleaned

TableParts ==
    WorkspaceIsListed /\ ContextHasWorker /\ LogMatchesWorker /\ ScratchIsCleaned

(* An outcome on record is that of the job, while a process is up.          *)
RecordIsJob ==
    server # "down" => \A j \in Builds : IsTerminal(meta[j]) => jobs[j] = meta[j]

(* The record of a job begins with "queued", before it is registered.       *)
NewIsQueued ==
    /\ mu \in {"createSave", "createSaving"} => meta[muJob] = Absent
    /\ mu = "createSaving" => snapshot = "queued"
    /\ mu = "createRegister" => meta[muJob] = "queued"

(* The clone a worker is about to put on disk is not older than the record, *)
(* and an outcome in it is the job's; the last one has an outcome.          *)
CloneIsNewer ==
    \A j \in Builds :
        /\ worker[j] = "save" => jobs[j] # "queued"
        /\ worker[j] \in SaveSteps =>
              /\ snapshot \notin {"queued", Absent}
              /\ IsTerminal(snapshot) => jobs[j] = snapshot
              /\ IsTerminal(meta[j]) => meta[j] = snapshot
        /\ worker[j] = "recording" => IsTerminal(snapshot)

RecordParts == EndIsRecorded /\ RecordIsJob /\ NewIsQueued /\ CloneIsNewer

(* A build that reaches its end without an error has published its archive. *)
SuccessHasArtifact ==
    \A j \in Builds :
        \/ worker[j] = "smoke"
        \/ worker[j] \in {"release", "finish"} /\ ~buildErr[j]
        => j \in artifacts

ArtifactParts == SuccessHasArtifact /\ CompletedHasArtifact

(* Shutdown closes the service before it waits, under the lock CreateJob    *)
(* holds until its worker runs; nothing starts afterwards.                  *)
ShutdownInOrder ==
    /\ closed <=> shutdown # "no"
    /\ closed => server = "serving" /\ mu \notin CreateSteps
    /\ shutdown = "done" => \A j \in Builds : worker[j] = "none"

(* Whoever makes a job a candidate for retention prunes afterwards.         *)
RetentionReached ==
    /\ server = "serving"
    /\ \A j \in Builds : worker[j] # "prune"
    /\ Present \cap damaged = {}
    => Cardinality(Candidates) <= MaxRetainedBuilds

EndParts ==
    TableParts /\ RecordParts /\ ArtifactParts /\ ShutdownInOrder /\ RetentionReached

EndInv == LifeInv /\ EndParts

LEMMA EndInit == Init => EndParts
<1> SUFFICES ASSUME Init PROVE EndParts
  OBVIOUS
<1>1. TableParts
  BY DEF Init, TableParts, WorkspaceIsListed, ContextHasWorker, LogMatchesWorker, LogClosed,
     ScratchIsCleaned
<1>2. RecordParts
  BY DEF Init, RecordParts, EndIsRecorded, RecordIsJob, NewIsQueued, CloneIsNewer, SaveSteps
<1>3. ArtifactParts /\ ShutdownInOrder
  BY DEF Init, ArtifactParts, SuccessHasArtifact, CompletedHasArtifact, Absent, ShutdownInOrder,
     CreateSteps
<1>4. Candidates = {}
  BY DEF Init, Candidates, Present
<1>5. RetentionReached
  BY <1>4, FS_EmptySet, LimitsAssumption DEF RetentionReached
<1>6. QED
  BY <1>1, <1>2, <1>3, <1>5 DEF EndParts

(* The types of what the steps change. *)
LEMMA EndTyped ==
    ASSUME EndInv
    PROVE  /\ jobs \in [Builds -> Statuses] /\ meta \in [Builds -> Statuses]
           /\ context \in [Builds -> {"none", "live", "canceled", "deadline"}]
           /\ worker \in [Builds -> WorkerSteps] /\ buildErr \in [Builds -> BOOLEAN]
           /\ {workspaces, logOpen, scratch, artifacts, unsaved, damaged} \subseteq SUBSET Builds
           /\ NoBuild \notin Builds /\ lastID \in Nat
           /\ \A k \in Builds : k \in Nat
           /\ Absent \notin Unfinished \cup Terminal /\ Unfinished \cap Terminal = {}
BY LimitsAssumption DEF EndInv, LifeInv, TypeInv, TypeOK, Builds, NoBuild, Absent, Unfinished,
   Terminal

(* A step that makes no job a candidate and lets no pruning be skipped. *)
LEMMA RetentionKept ==
    ASSUME EndInv, server' = "serving" => server = "serving",
           Candidates' \subseteq Candidates,
           Present \cap damaged \subseteq Present' \cap damaged',
           \A j \in Builds : worker[j] = "prune" => worker'[j] = "prune"
    PROVE  RetentionReached'
<1> SUFFICES ASSUME server' = "serving",
                    \A j \in Builds : worker'[j] # "prune",
                    Present' \cap damaged' = {}
             PROVE  Cardinality(Candidates') <= MaxRetainedBuilds
  BY DEF RetentionReached
<1>1. Cardinality(Candidates) <= MaxRetainedBuilds
  BY DEF EndInv, EndParts, RetentionReached
<1>2. Candidates \in SUBSET Builds
  BY DEF Candidates, Present
<1>3. Cardinality(Candidates') <= Cardinality(Candidates)
  BY <1>2, BuildsFinite, FS_Subset
<1>4. Cardinality(Candidates') \in Nat /\ Cardinality(Candidates) \in Nat
  BY <1>2, BuildsFinite
<1>5. QED
  BY <1>1, <1>3, <1>4, LimitsAssumption

-----------------------------------------------------------------------------
(* Steps of a worker *)

(* Those that concern its own goroutine, and at most its archive. *)
LEMMA WorkerMovesOn ==
    ASSUME EndInv, NEW j \in Builds, NEW step, Goto(j, step),
           UNCHANGED <<server, closed, shutdown, jobs, context, workspaces, logOpen, mu, muJob,
                       metadataMu, snapshot, meta, scratch, unsaved, uncleaned, damaged>>,
           artifacts \subseteq artifacts',
           worker[j] \notin LogClosed \cup SaveSteps,
           step \notin LogClosed \cup SaveSteps \cup {"save", "close"},
           SuccessHasArtifact'
    PROVE  EndParts'
<1>0. worker' = [worker EXCEPT ![j] = step] /\ worker \in [Builds -> WorkerSteps]
  BY EndTyped DEF Goto
<1>1. TableParts'
  BY <1>0 DEF EndInv, EndParts, TableParts, WorkspaceIsListed, Present, ContextHasWorker,
     LogMatchesWorker, LogClosed, ScratchIsCleaned
<1>2. RecordParts'
  BY <1>0 DEF EndInv, EndParts, RecordParts, EndIsRecorded, Present, RecordIsJob, NewIsQueued,
     CloneIsNewer, LogClosed, SaveSteps
<1>3. ArtifactParts'
  BY DEF EndInv, EndParts, ArtifactParts, CompletedHasArtifact
<1>4. ShutdownInOrder'
  BY <1>0 DEF EndInv, EndParts, ShutdownInOrder, LogClosed
<1>5. RetentionReached'
  <2>1. Candidates' = Candidates /\ Present' = Present
    BY DEF Candidates, Present, Active
  <2>2. QED
    BY <1>0, <2>1, RetentionKept DEF LogClosed
<1>6. QED
  BY <1>1, <1>2, <1>3, <1>4, <1>5 DEF EndParts

LEMMA QuietEndSteps ==
    ASSUME EndInv, NEW j \in Builds,
           \/ GiveUpWaiting(j) \/ Acquire(j) \/ Recheck(j) \/ EnterPhase(j) \/ WorkDone(j)
           \/ SmokeTestPasses(j) \/ WorkFails(j) \/ Release(j) \/ PublishArtifact(j)
    PROVE  EndParts'
<1>0. /\ worker \in [Builds -> WorkerSteps] /\ buildErr \in [Builds -> BOOLEAN]
      /\ SuccessHasArtifact
  BY EndTyped DEF EndInv, EndParts, ArtifactParts
<1>1. /\ UNCHANGED <<server, closed, shutdown, jobs, context, workspaces, logOpen, mu, muJob,
                     metadataMu, snapshot, meta, scratch, unsaved, uncleaned, damaged>>
      /\ artifacts \subseteq artifacts'
  BY DEF GiveUpWaiting, Acquire, Recheck, EnterPhase, WorkDone, SmokeTestPasses, WorkFails,
     Release, PublishArtifact, WorkersOnly, service, tables, lock, saving, disk, book
<1>2. /\ worker[j] \in {"waiting", "recheck", "enter", "work", "smoke", "release"}
      /\ \E step \in {"finish", "recheck", "release", "work", "update", "enter", "smoke"} :
            Goto(j, step)
  BY DEF GiveUpWaiting, Acquire, Recheck, EnterPhase, WorkDone, SmokeTestPasses, WorkFails,
     Release, PublishArtifact, At
<1>3. SuccessHasArtifact'
  <2>1. CASE GiveUpWaiting(j) \/ WorkFails(j)
    <3>1. buildErr' = [buildErr EXCEPT ![j] = TRUE] /\ artifacts' = artifacts
          /\ \E step \in {"finish", "release"} : worker' = [worker EXCEPT ![j] = step]
      BY <2>1 DEF GiveUpWaiting, WorkFails, Goto, WorkersOnly, disk
    <3>2. QED
      BY <1>0, <3>1 DEF SuccessHasArtifact
  <2>2. CASE Recheck(j) \/ EnterPhase(j)
    <3>1. /\ buildErr' = [buildErr EXCEPT ![j] = Done(j)] /\ artifacts' = artifacts
          /\ \/ worker' = [worker EXCEPT ![j] = "release"] /\ Done(j)
             \/ \E step \in {"work", "update"} : worker' = [worker EXCEPT ![j] = step]
      BY <2>2 DEF Recheck, EnterPhase, Goto, WorkersOnly, disk
    <3>2. QED
      BY <1>0, <3>1 DEF SuccessHasArtifact
  <2>3. CASE Acquire(j) \/ WorkDone(j)
    <3>1. /\ buildErr' = buildErr /\ artifacts' = artifacts
          /\ \E step \in {"recheck", "enter"} : worker' = [worker EXCEPT ![j] = step]
      BY <2>3 DEF Acquire, WorkDone, Goto, WorkersOnly, disk
    <3>2. QED
      BY <1>0, <3>1 DEF SuccessHasArtifact
  <2>4. CASE SmokeTestPasses(j) \/ Release(j)
    <3>1. /\ buildErr' = buildErr /\ artifacts' = artifacts
          /\ \/ worker[j] = "smoke" /\ worker' = [worker EXCEPT ![j] = "release"]
             \/ worker[j] = "release" /\ worker' = [worker EXCEPT ![j] = "finish"]
      BY <2>4 DEF SmokeTestPasses, Release, At, Goto, WorkersOnly, disk
    <3>2. QED
      BY <1>0, <3>1 DEF SuccessHasArtifact
  <2>5. CASE PublishArtifact(j)
    <3>1. /\ buildErr' = buildErr /\ artifacts' = artifacts \cup {j}
          /\ worker' = [worker EXCEPT ![j] = "smoke"]
      BY <2>5 DEF PublishArtifact, Goto
    <3>2. QED
      BY <1>0, <3>1 DEF SuccessHasArtifact
  <2>6. QED
    BY <2>1, <2>2, <2>3, <2>4, <2>5
<1>4. QED
  BY <1>1, <1>2, <1>3, WorkerMovesOn DEF LogClosed, SaveSteps

(* setBuildPhase gives a job without outcome one of the later statuses. *)
LEMMA UpdatePhaseEnd ==
    ASSUME EndInv, NEW j \in Builds, UpdatePhase(j)
    PROVE  EndParts'
<1>0. /\ jobs \in [Builds -> Statuses] /\ worker \in [Builds -> WorkerSteps]
      /\ buildErr \in [Builds -> BOOLEAN] /\ worker[j] = "update"
      /\ jobs[j] # Absent /\ context[j] # "none" /\ server = "serving"
  BY EndTyped DEF UpdatePhase, At, EndInv, LifeInv, LifeParts, WorkerIsRegistered, Quiet
<1>1. CASE IsTerminal(jobs[j])
  <2>1. /\ UNCHANGED <<server, closed, shutdown, jobs, context, workspaces, logOpen, mu, muJob,
                       metadataMu, snapshot, meta, scratch, unsaved, uncleaned, damaged,
                       artifacts>>
        /\ Goto(j, "release") /\ buildErr' = [buildErr EXCEPT ![j] = TRUE]
    BY <1>1 DEF UpdatePhase, service, lock, saving, disk, book
  <2>2. SuccessHasArtifact'
    BY <1>0, <2>1 DEF Goto, SuccessHasArtifact, EndInv, EndParts, ArtifactParts
  <2>3. QED
    BY <1>0, <2>1, <2>2, WorkerMovesOn DEF LogClosed, SaveSteps
<1>2. CASE ~IsTerminal(jobs[j])
  <2>1. /\ UNCHANGED <<server, closed, shutdown, context, workspaces, logOpen, mu, muJob,
                       metadataMu, snapshot, meta, scratch, unsaved, uncleaned, damaged,
                       artifacts, buildErr>>
        /\ worker' = [worker EXCEPT ![j] = "save"]
        /\ jobs' = [jobs EXCEPT ![j] = Phases[phase[j]]]
    BY <1>2 DEF UpdatePhase, Goto, service, lock, saving, disk, book
  <2>2. Phases[phase[j]] \in Unfinished \ {"queued"}
    BY <1>0, PhasesAssumption DEF EndInv, LifeInv, TypeInv, TypeOK, PhaseIsSet, InPhase, LastPhase
  <2>3. ~IsTerminal(meta[j]) /\ ~IsTerminal(jobs'[j]) /\ jobs'[j] \notin {"queued", Absent, "completed"}
    BY <1>0, <1>2, <2>1, <2>2 DEF EndInv, EndParts, RecordParts, RecordIsJob, IsTerminal,
       Unfinished, Terminal, Absent
  <2>4. TableParts'
    BY <1>0, <2>1, <2>3 DEF EndInv, EndParts, TableParts, WorkspaceIsListed, Present,
       ContextHasWorker, LogMatchesWorker, LogClosed, ScratchIsCleaned
  <2>5. RecordParts'
    BY <1>0, <2>1, <2>3 DEF EndInv, EndParts, RecordParts, EndIsRecorded, Present, RecordIsJob,
       NewIsQueued, CloneIsNewer, SaveSteps
  <2>6. ArtifactParts'
    BY <1>0, <2>1, <2>3 DEF EndInv, EndParts, ArtifactParts, SuccessHasArtifact,
       CompletedHasArtifact
  <2>7. ShutdownInOrder'
    BY <1>0, <2>1 DEF EndInv, EndParts, ShutdownInOrder
  <2>8. RetentionReached'
    <3>1. Candidates' = Candidates /\ Present' = Present
      BY <1>0, <2>1, <2>3 DEF Candidates, Present, Active
    <3>2. QED
      BY <1>0, <2>1, <3>1, RetentionKept
  <2>9. QED
    BY <2>4, <2>5, <2>6, <2>7, <2>8 DEF EndParts
<1>3. QED
  BY <1>1, <1>2

(* The final defer: a job completes only if its archive was published. *)
LEMMA FinishEnd ==
    ASSUME EndInv, NEW j \in Builds, Finish(j)
    PROVE  EndParts'
<1>1. /\ UNCHANGED <<server, closed, shutdown, context, workspaces, logOpen, mu, muJob,
                     metadataMu, snapshot, meta, scratch, unsaved, uncleaned, damaged,
                     artifacts>>
      /\ worker[j] = "finish" /\ worker' = [worker EXCEPT ![j] = "record"]
      /\ jobs' = [jobs EXCEPT ![j] = IF IsTerminal(jobs[j]) THEN jobs[j] ELSE Outcome(j)]
      /\ buildErr' = [buildErr EXCEPT ![j] = FALSE]
  BY DEF Finish, At, Goto, service, lock, saving, disk, book
<1>2. /\ jobs \in [Builds -> Statuses] /\ worker \in [Builds -> WorkerSteps]
      /\ buildErr \in [Builds -> BOOLEAN]
      /\ jobs[j] # Absent /\ context[j] # "none" /\ server = "serving"
  BY <1>1, EndTyped DEF EndInv, LifeInv, LifeParts, WorkerIsRegistered, Quiet
<1>3. /\ jobs'[j] \in Terminal
      /\ IsTerminal(meta[j]) => jobs'[j] = meta[j]
      /\ j \in damaged \/ (jobs'[j] = "completed" => j \in artifacts)
  <2>1. CASE IsTerminal(jobs[j])
    BY <1>1, <1>2, <2>1 DEF IsTerminal, EndInv, EndParts, RecordParts, RecordIsJob,
       ArtifactParts, CompletedHasArtifact
  <2>2. CASE ~IsTerminal(jobs[j])
    <3>1. jobs'[j] = Outcome(j) /\ ~IsTerminal(meta[j])
      BY <1>1, <1>2, <2>2 DEF EndInv, EndParts, RecordParts, RecordIsJob
    <3>2. Outcome(j) \in Terminal /\ (Outcome(j) = "completed" => ~buildErr[j])
      BY DEF Outcome, Terminal
    <3>3. QED
      BY <1>1, <3>1, <3>2 DEF EndInv, EndParts, ArtifactParts, SuccessHasArtifact
  <2>3. QED
    BY <2>1, <2>2
<1>4. jobs'[j] # Absent
  BY <1>3 DEF Terminal, Absent
<1>5. TableParts'
  BY <1>1, <1>2, <1>4 DEF EndInv, EndParts, TableParts, WorkspaceIsListed, Present,
     ContextHasWorker, LogMatchesWorker, LogClosed, ScratchIsCleaned
<1>6. RecordParts'
  BY <1>1, <1>2, <1>3 DEF EndInv, EndParts, RecordParts, EndIsRecorded, Present, RecordIsJob,
     NewIsQueued, CloneIsNewer, SaveSteps
<1>7. ArtifactParts'
  BY <1>1, <1>2, <1>3 DEF EndInv, EndParts, ArtifactParts, SuccessHasArtifact,
     CompletedHasArtifact
<1>8. ShutdownInOrder'
  BY <1>1, <1>2 DEF EndInv, EndParts, ShutdownInOrder
<1>9. RetentionReached'
  <2>1. Candidates' = Candidates /\ Present' = Present
    BY <1>1, <1>2, <1>4 DEF Candidates, Present, Active
  <2>2. QED
    BY <1>1, <1>2, <2>1, RetentionKept
<1>10. QED
  BY <1>5, <1>6, <1>7, <1>8, <1>9 DEF EndParts

(* The clone a worker takes is that of its job now, with metadataMu held. *)
LEMMA WorkerSaveEnd ==
    ASSUME EndInv, NEW j \in Builds, WorkerSave(j)
    PROVE  EndParts'
<1>1. /\ UNCHANGED <<server, closed, shutdown, context, workspaces, logOpen, mu, muJob, jobs,
                     meta, scratch, unsaved, uncleaned, damaged, artifacts, buildErr>>
      /\ metadataMu = NoBuild /\ metadataMu' = j /\ snapshot' = jobs[j]
      /\ \/ worker[j] = "save" /\ worker' = [worker EXCEPT ![j] = "saving"]
         \/ worker[j] = "record" /\ worker' = [worker EXCEPT ![j] = "recording"]
  BY DEF WorkerSave, SaveBegin, At, Goto, service, tables, lock, disk, book
<1>2. /\ jobs \in [Builds -> Statuses] /\ worker \in [Builds -> WorkerSteps]
      /\ jobs[j] # Absent /\ server = "serving"
  BY <1>1, EndTyped DEF EndInv, LifeInv, LifeParts, WorkerIsRegistered, Quiet
<1>3. mu \notin MuSaveSteps /\ \A k \in Builds : worker[k] \notin SaveSteps
  BY <1>1, EndTyped DEF EndInv, LifeInv, LifeParts, TypeInv, MuHasJob, OneWriter, MuSaveSteps
<1>4. /\ jobs[j] # "queued" /\ (worker[j] = "record" => IsTerminal(jobs[j]))
      /\ IsTerminal(meta[j]) => meta[j] = jobs[j]
  BY <1>1, <1>2 DEF EndInv, EndParts, RecordParts, CloneIsNewer, RecordIsJob, LifeInv, LifeParts,
     UnfinishedIsActive, IsTerminal, Statuses, Unfinished
<1>5. TableParts'
  BY <1>1, <1>2 DEF EndInv, EndParts, TableParts, WorkspaceIsListed, Present,
     ContextHasWorker, LogMatchesWorker, LogClosed, ScratchIsCleaned
<1>6. RecordParts'
  <2>1. EndIsRecorded' /\ RecordIsJob'
    BY <1>1, <1>2 DEF EndInv, EndParts, RecordParts, EndIsRecorded, Present, RecordIsJob
  <2>2. NewIsQueued'
    BY <1>1, <1>3 DEF EndInv, EndParts, RecordParts, NewIsQueued, MuSaveSteps
  <2>3. CloneIsNewer'
    BY <1>1, <1>2, <1>3, <1>4 DEF EndInv, EndParts, RecordParts, CloneIsNewer, SaveSteps
  <2>4. QED
    BY <2>1, <2>2, <2>3 DEF RecordParts
<1>7. ArtifactParts'
  BY <1>1, <1>2 DEF EndInv, EndParts, ArtifactParts, SuccessHasArtifact, CompletedHasArtifact
<1>8. ShutdownInOrder'
  BY <1>1, <1>2 DEF EndInv, EndParts, ShutdownInOrder
<1>9. RetentionReached'
  <2>1. Candidates' = Candidates /\ Present' = Present
    BY <1>1 DEF Candidates, Present, Active
  <2>2. QED
    BY <1>1, <1>2, <2>1, RetentionKept
<1>10. QED
  BY <1>5, <1>6, <1>7, <1>8, <1>9 DEF EndParts

LEMMA WorkerSavedEnd ==
    ASSUME EndInv, NEW j \in Builds, WorkerSaved(j)
    PROVE  EndParts'
<1>1. /\ UNCHANGED <<server, closed, shutdown, context, workspaces, logOpen, mu, muJob, jobs,
                     scratch, uncleaned, damaged, artifacts, buildErr>>
      /\ metadataMu' = NoBuild /\ snapshot' = Absent
      /\ \/ meta' = [meta EXCEPT ![j] = snapshot] /\ unsaved' = unsaved \ {j}
         \/ meta' = meta /\ unsaved' = unsaved \cup {j}
      /\ \/ worker[j] = "saving" /\ worker' = [worker EXCEPT ![j] = "work"]
         \/ worker[j] = "recording" /\ worker' = [worker EXCEPT ![j] = "close"]
  BY DEF WorkerSaved, SaveOK, SaveError, At, Goto, service, tables, lock
<1>2. /\ meta \in [Builds -> Statuses] /\ worker \in [Builds -> WorkerSteps]
      /\ server = "serving" /\ unsaved \subseteq Builds
  BY <1>1, EndTyped DEF EndInv, LifeInv, LifeParts, Quiet
<1>3. /\ mu \notin MuSaveSteps /\ \A k \in Builds \ {j} : worker[k] \notin SaveSteps
      /\ mu \in CreateSteps => muJob \in Builds \ {j}
  BY <1>1 DEF EndInv, LifeInv, LifeParts, TypeInv, MuHasJob, NewIsIdle, OneWriter, MuSaveSteps, SaveSteps,
     CreateSteps
<1>4. /\ snapshot \notin {"queued", Absent}
      /\ IsTerminal(snapshot) => jobs[j] = snapshot
      /\ worker[j] = "recording" => IsTerminal(snapshot)
  BY <1>1 DEF EndInv, EndParts, RecordParts, CloneIsNewer, SaveSteps
<1>5. TableParts'
  BY <1>1, <1>2 DEF EndInv, EndParts, TableParts, WorkspaceIsListed, Present,
     ContextHasWorker, LogMatchesWorker, LogClosed, ScratchIsCleaned
<1>6. RecordParts'
  <2>1. EndIsRecorded' /\ RecordIsJob'
    BY <1>1, <1>2, <1>4 DEF EndInv, EndParts, RecordParts, EndIsRecorded, Present, RecordIsJob
  <2>2. NewIsQueued'
    BY <1>1, <1>2, <1>3 DEF EndInv, EndParts, RecordParts, NewIsQueued, MuSaveSteps, CreateSteps
  <2>3. CloneIsNewer'
    BY <1>1, <1>2, <1>3 DEF EndInv, EndParts, RecordParts, CloneIsNewer, SaveSteps
  <2>4. QED
    BY <2>1, <2>2, <2>3 DEF RecordParts
<1>7. ArtifactParts'
  BY <1>1, <1>2, <1>4 DEF EndInv, EndParts, ArtifactParts, SuccessHasArtifact,
     CompletedHasArtifact, IsTerminal, Terminal
<1>8. ShutdownInOrder'
  BY <1>1, <1>2 DEF EndInv, EndParts, ShutdownInOrder
<1>9. RetentionReached'
  <2>1. Candidates' = Candidates /\ Present' = Present
    BY <1>1 DEF Candidates, Present, Active
  <2>2. QED
    BY <1>1, <1>2, <2>1, RetentionKept
<1>10. QED
  BY <1>5, <1>6, <1>7, <1>8, <1>9 DEF EndParts

(* Close the log, clean, leave the tables: what EofMeansEnded and            *)
(* InactiveIsSettled are about happens in this order.                       *)
LEMMA LeaveEnd ==
    ASSUME EndInv, NEW j \in Builds, CloseLog(j) \/ CleanIntermediateFiles(j) \/ Deregister(j)
    PROVE  EndParts'
<1>1. /\ UNCHANGED <<server, closed, shutdown, workspaces, mu, muJob, jobs, metadataMu, snapshot,
                     meta, unsaved, damaged, artifacts, buildErr>>
      /\ \/ /\ worker[j] = "close" /\ worker' = [worker EXCEPT ![j] = "clean"]
            /\ logOpen' = logOpen \ {j} /\ UNCHANGED <<context, scratch, uncleaned>>
         \/ /\ worker[j] = "clean" /\ worker' = [worker EXCEPT ![j] = "deregister"]
            /\ \/ scratch' = scratch \ {j} /\ uncleaned' = uncleaned
               \/ scratch' = scratch /\ uncleaned' = uncleaned \cup {j}
            /\ UNCHANGED <<context, logOpen>>
         \/ /\ worker[j] = "deregister" /\ worker' = [worker EXCEPT ![j] = "prune"]
            /\ context' = [context EXCEPT ![j] = "none"]
            /\ UNCHANGED <<logOpen, scratch, uncleaned>>
  BY DEF CloseLog, CleanIntermediateFiles, Deregister, At, Goto, service, tables, lock, saving,
     disk, book
<1>2. /\ worker \in [Builds -> WorkerSteps] /\ server = "serving"
      /\ context \in [Builds -> {"none", "live", "canceled", "deadline"}]
  BY <1>1, EndTyped DEF EndInv, LifeInv, LifeParts, Quiet
<1>3. WorkspaceIsListed' /\ ContextHasWorker'
  BY <1>1, <1>2 DEF EndInv, EndParts, TableParts, WorkspaceIsListed, Present, ContextHasWorker
<1>4. LogMatchesWorker'
  BY <1>1, <1>2 DEF EndInv, EndParts, TableParts, LogMatchesWorker, LogClosed
<1>5. ScratchIsCleaned'
  BY <1>1, <1>2, EndTyped DEF EndInv, EndParts, TableParts, ScratchIsCleaned
<1>6. RecordParts'
  BY <1>1, <1>2 DEF EndInv, EndParts, RecordParts, EndIsRecorded, Present, RecordIsJob,
     NewIsQueued, CloneIsNewer, SaveSteps
<1>7. ArtifactParts'
  BY <1>1, <1>2 DEF EndInv, EndParts, ArtifactParts, SuccessHasArtifact, CompletedHasArtifact
<1>8. ShutdownInOrder'
  BY <1>1, <1>2 DEF EndInv, EndParts, ShutdownInOrder
<1>9. RetentionReached'
  <2>1. CASE worker[j] = "deregister"
    BY <1>1, <1>2, <2>1 DEF RetentionReached
  <2>2. CASE worker[j] # "deregister"
    <3>1. Candidates' = Candidates /\ Present' = Present
      BY <1>1, <2>2 DEF Candidates, Present, Active
    <3>2. QED
      BY <1>1, <1>2, <2>2, <3>1, RetentionKept
  <2>3. QED
    BY <2>1, <2>2
<1>10. QED
  BY <1>3, <1>4, <1>5, <1>6, <1>7, <1>8, <1>9 DEF EndParts, TableParts

-----------------------------------------------------------------------------
(* PruneOldBuilds: how many jobs stay, and what is taken with the others.   *)

LEMMA LeastExists ==
    ASSUME NEW S \in SUBSET Nat, S # {}
    PROVE  \E m \in S : \A k \in S : m <= k
<1>1. PICK m \in S : \A k \in S : ~(<<k, m>> \in OpToRel(<, Nat))
  BY NatLessThanWellFounded, WFMin
<1>2. \A k \in S : ~(k < m)
  BY <1>1 DEF OpToRel
<1>3. QED
  BY <1>2

LEMMA GreatestExists ==
    ASSUME NEW S \in SUBSET Builds, S # {}
    PROVE  \E m \in S : \A k \in S : k <= m
<1> DEFINE distances == {MaxBuilds - k : k \in S}
<1>1. distances \in SUBSET Nat /\ distances # {}
  <2>1. \A k \in S : MaxBuilds - k \in Nat
    BY LimitsAssumption DEF Builds
  <2>2. QED
    BY <2>1
<1>2. PICK d \in distances : \A e \in distances : d <= e
  <2> HIDE DEF distances
  <2> QED
    BY <1>1, LeastExists
<1>3. PICK m \in S : d = MaxBuilds - m
  BY <1>2
<1>4. \A k \in S : MaxBuilds - m <= MaxBuilds - k
  BY <1>2, <1>3
<1>5. QED
  BY <1>4, LimitsAssumption DEF Builds

(* Of any set of builds fewer than MaxRetainedBuilds of which are newer,    *)
(* there are at most MaxRetainedBuilds.                                     *)
LEMMA RetainedAreFew ==
    ASSUME NEW S \in SUBSET Builds
    PROVE  Cardinality({j \in S : ~(Cardinality({k \in S : k > j}) >= MaxRetainedBuilds)})
               <= MaxRetainedBuilds
<1> DEFINE kept == {j \in S : ~(Cardinality({k \in S : k > j}) >= MaxRetainedBuilds)}
<1>1. CASE kept = {}
  <2> HIDE DEF kept
  <2>1. Cardinality(kept) <= MaxRetainedBuilds
    BY <1>1, FS_EmptySet, LimitsAssumption
  <2>2. QED
    BY <2>1 DEF kept
<1>2. CASE kept # {}
  <2>1. Builds \subseteq Nat /\ kept \subseteq S
    BY LimitsAssumption DEF Builds
  <2>2. PICK m \in kept : \A k \in kept : m <= k
    <3> HIDE DEF kept
    <3> QED
      BY <1>2, <2>1, LeastExists
  <2> DEFINE newer == {k \in S : k > m}
  <2>3. IsFiniteSet(newer) /\ Cardinality(newer) \in Nat /\ m \notin newer
    BY <2>1, <2>2, BuildsFinite
  <2>4. Cardinality(newer \cup {m}) = Cardinality(newer) + 1
    BY <2>3, FS_AddElement
  <2>5. kept \subseteq newer \cup {m}
    <3> SUFFICES ASSUME NEW k \in kept PROVE k \in newer \cup {m}
      OBVIOUS
    <3>1. k \in S /\ m \in S /\ k \in Nat /\ m \in Nat /\ m <= k
      BY <2>1, <2>2
    <3>2. QED
      BY <3>1
  <2>6. Cardinality(newer) < MaxRetainedBuilds
    BY <2>2, <2>3, LimitsAssumption
  <2>7. newer \cup {m} \in SUBSET Builds
    BY <2>2
  <2>8. IsFiniteSet(newer \cup {m}) /\ Cardinality(newer \cup {m}) \in Nat /\ Cardinality(kept) \in Nat
    BY <2>7, BuildsFinite
  <2>9. Cardinality(kept) <= Cardinality(newer \cup {m})
    <3> HIDE DEF kept, newer
    <3> QED
      BY <2>5, <2>8, FS_Subset
  <2>10. QED
    <3> HIDE DEF kept, newer
    <3>1. Cardinality(kept) <= MaxRetainedBuilds
      BY <2>3, <2>4, <2>6, <2>8, <2>9, LimitsAssumption
    <3>2. QED
      BY <3>1 DEF kept
<1>3. QED
  BY <1>1, <1>2

(* Whose files are all gone, and of whom some may be left. *)
PruneTakes(gone, broken) ==
    /\ \/ gone = Excess /\ broken = {}
       \/ \E failing \in Excess : broken = {failing} /\ gone = {j \in Excess : j > failing}
    /\ jobs' = [j \in Builds |-> IF j \in gone THEN Absent ELSE jobs[j]]
    /\ workspaces' = workspaces \ gone
    /\ \A j \in Builds :
          /\ meta'[j] \in {meta[j], Absent}
          /\ j \in gone => meta'[j] = Absent
          /\ j \notin gone \cup broken => meta'[j] = meta[j]
    /\ scratch' \subseteq scratch
    /\ artifacts \ (gone \cup broken) \subseteq artifacts'
    /\ logOpen' = logOpen \ (gone \cup broken)
    /\ damaged' = damaged \cup broken

LEMMA PruneEffect ==
    ASSUME PruneOldBuilds
    PROVE  \E gone, broken \in SUBSET Excess : PruneTakes(gone, broken)
<1>1. CASE /\ Forget(Excess)
           /\ RemoveFiles(Excess, Excess, Excess)
           /\ logOpen' = logOpen \ Excess
           /\ UNCHANGED damaged
  <2>1. PruneTakes(Excess, {})
    BY <1>1 DEF PruneTakes, Forget, RemoveFiles
  <2>2. QED
    BY <2>1
<1>2. ASSUME NEW failing \in Excess, NEW gone, gone = {j \in Excess : j > failing},
             NEW records \in {gone, gone \cup {failing}},
             NEW scratches \in {gone, gone \cup {failing}},
             NEW archives \in {gone, gone \cup {failing}},
             Forget(gone), RemoveFiles(records, scratches, archives),
             logOpen' = logOpen \ (gone \cup {failing}), damaged' = damaged \cup {failing}
      PROVE  \E missing, broken \in SUBSET Excess : PruneTakes(missing, broken)
  <2>1. gone \subseteq records /\ records \cup archives \subseteq gone \cup {failing}
    BY <1>2
  <2>2. /\ \A j \in Builds :
              /\ meta'[j] \in {meta[j], Absent}
              /\ j \in gone => meta'[j] = Absent
              /\ j \notin gone \cup {failing} => meta'[j] = meta[j]
        /\ scratch' \subseteq scratch
        /\ artifacts \ (gone \cup {failing}) \subseteq artifacts'
    BY <1>2, <2>1 DEF RemoveFiles
  <2>3. PruneTakes(gone, {failing})
    BY <1>2, <2>2 DEF PruneTakes, Forget
  <2>4. QED
    BY <1>2, <2>3
<1>3. QED
  <2>1. CASE \E failing \in Excess :
               LET gone == {j \in Excess : j > failing}
                   some == {gone, gone \cup {failing}}
               IN  /\ Forget(gone)
                   /\ \E records \in some, scratches \in some, archives \in some :
                          RemoveFiles(records, scratches, archives)
                   /\ logOpen' = logOpen \ (gone \cup {failing})
                   /\ damaged' = damaged \cup {failing}
    BY <1>2, <2>1
  <2>2. QED
    BY <1>1, <2>1 DEF PruneOldBuilds

(* Both callers of PruneOldBuilds: a worker at its end, and NewManager. *)
LEMMA PruneEnd ==
    ASSUME EndInv, PruneOldBuilds, mu = "free",
           UNCHANGED <<closed, shutdown, context, buildErr, mu, muJob, metadataMu, snapshot,
                       unsaved, uncleaned>>,
           \/ server' = server /\ \E j \in Builds : worker[j] = "prune" /\ Goto(j, "none")
           \/ server = "loading" /\ server' = "serving" /\ worker' = worker
    PROVE  EndParts'
<1>1. PICK gone \in SUBSET Excess, broken \in SUBSET Excess : PruneTakes(gone, broken)
  BY PruneEffect
<1>2. /\ \A k \in Builds : \/ worker'[k] = worker[k]
                           \/ worker[k] = "prune" /\ worker'[k] = "none"
      /\ server' # "down" /\ server # "down"
  BY EndTyped DEF Goto, EndInv, LifeInv, LifeParts, Quiet
<1>3. \A k \in gone \cup broken : /\ k \in Builds /\ IsTerminal(jobs[k]) /\ k \notin Active
                                  /\ jobs[k] # Absent /\ worker[k] \in {"none", "prune"}
  BY DEF Excess, Candidates, Present, Active, EndInv, LifeInv, LifeParts, WorkerIsRegistered
<1>4. \A k \in Builds : /\ k \in gone => jobs'[k] = Absent /\ meta'[k] = Absent
                        /\ k \notin gone => jobs'[k] = jobs[k]
                        /\ k \notin gone \cup broken => meta'[k] = meta[k]
                        /\ meta'[k] \in {meta[k], Absent}
  BY <1>1 DEF PruneTakes
<1>5. workspaces' = workspaces \ gone /\ scratch' \subseteq scratch /\ damaged' = damaged \cup broken
      /\ logOpen' = logOpen \ (gone \cup broken) /\ artifacts \ (gone \cup broken) \subseteq artifacts'
  BY <1>1 DEF PruneTakes
<1>6. WorkspaceIsListed'
  BY <1>4, <1>5, EndTyped DEF EndInv, EndParts, TableParts, WorkspaceIsListed, Present
<1>7. ContextHasWorker'
  BY <1>2 DEF EndInv, EndParts, TableParts, ContextHasWorker
<1>8. LogMatchesWorker'
  BY <1>2, <1>3, <1>5 DEF EndInv, EndParts, TableParts, LogMatchesWorker, LogClosed
<1>9. ScratchIsCleaned'
  BY <1>2, <1>5, EndTyped DEF EndInv, EndParts, TableParts, ScratchIsCleaned
<1>10. EndIsRecorded'
  BY <1>2, <1>4, <1>5 DEF EndInv, EndParts, RecordParts, EndIsRecorded, Present
<1>11. RecordIsJob'
  BY <1>2, <1>4 DEF EndInv, EndParts, RecordParts, RecordIsJob, IsTerminal, Terminal, Absent
<1>12. NewIsQueued'
  BY DEF NewIsQueued
<1>13. CloneIsNewer'
  <2>1. ASSUME NEW k \in Builds, worker'[k] \in {"save"} \cup SaveSteps
        PROVE  worker[k] = worker'[k] /\ jobs'[k] = jobs[k] /\ meta'[k] = meta[k]
    BY <1>2, <1>3, <1>4, <2>1 DEF SaveSteps
  <2>2. QED
    BY <2>1 DEF EndInv, EndParts, RecordParts, CloneIsNewer, SaveSteps
<1>14. SuccessHasArtifact'
  <2>1. ASSUME NEW k \in Builds, worker'[k] \in {"smoke", "release", "finish"}
        PROVE  worker[k] = worker'[k] /\ (k \in artifacts => k \in artifacts')
    BY <1>2, <1>3, <1>5, <2>1
  <2>2. QED
    BY <2>1 DEF EndInv, EndParts, ArtifactParts, SuccessHasArtifact
<1>15. CompletedHasArtifact'
  BY <1>4, <1>5 DEF EndInv, EndParts, ArtifactParts, CompletedHasArtifact, Absent
<1>16. ShutdownInOrder'
  BY <1>2 DEF EndInv, EndParts, ShutdownInOrder
<1>17. RetentionReached'
  <2> SUFFICES ASSUME Present' \cap damaged' = {}
               PROVE  Cardinality(Candidates') <= MaxRetainedBuilds
    BY DEF RetentionReached
  <2>1. broken = {}
    <3> SUFFICES ASSUME NEW failing \in Excess, broken = {failing},
                        gone = {j \in Excess : j > failing}
                 PROVE  FALSE
      BY <1>1 DEF PruneTakes
    <3>1. failing \notin gone /\ failing \in Builds
      BY <1>3, EndTyped
    <3>2. failing \in Present' \cap damaged'
      BY <1>3, <1>4, <1>5, <3>1 DEF Present
    <3>3. QED
      BY <3>2
  <2>2. gone = Excess
    BY <1>1, <2>1 DEF PruneTakes
  <2>3. Candidates' \subseteq {j \in Candidates : ~(Cardinality({k \in Candidates : k > j})
                                                        >= MaxRetainedBuilds)}
    <3>1. Active' = Active
      BY DEF Active
    <3>2. Candidates' \subseteq Candidates \ Excess
      BY <1>4, <2>2, <3>1 DEF Candidates, Present
    <3>3. QED
      BY <3>2 DEF Excess
  <2>4. Candidates \in SUBSET Builds
    BY DEF Candidates, Present
  <2> DEFINE kept == {j \in Candidates : ~(Cardinality({k \in Candidates : k > j})
                                               >= MaxRetainedBuilds)}
  <2>5. Cardinality(kept) <= MaxRetainedBuilds /\ kept \in SUBSET Builds /\ Candidates' \subseteq kept
    BY <2>3, <2>4, RetainedAreFew
  <2>6. QED
    <3> HIDE DEF kept
    <3>1. /\ Cardinality(Candidates') <= Cardinality(kept)
          /\ Cardinality(Candidates') \in Nat /\ Cardinality(kept) \in Nat
      BY <2>5, BuildsFinite, FS_Subset
    <3>2. QED
      BY <2>5, <3>1, LimitsAssumption
<1>18. QED
  BY <1>6, <1>7, <1>8, <1>9, <1>10, <1>11, <1>12, <1>13, <1>14, <1>15, <1>16, <1>17
  DEF EndParts, TableParts, RecordParts, ArtifactParts

LEMMA WorkerEnd ==
    ASSUME EndInv, NEW j \in Builds, Worker(j)
    PROVE  EndParts'
<1>1. CASE WorkerPrune(j)
  BY <1>1, PruneEnd DEF WorkerPrune, At, service, lock, saving
<1>2. CASE ~WorkerPrune(j)
  BY <1>2, QuietEndSteps, UpdatePhaseEnd, FinishEnd, WorkerSaveEnd, WorkerSavedEnd, LeaveEnd
  DEF Worker
<1>3. QED
  BY <1>1, <1>2

-----------------------------------------------------------------------------
(* The handlers *)

LEMMA CreateBeginEnd ==
    ASSUME EndInv, CreateBegin \/ CreateFails
    PROVE  EndParts'
<1>1. /\ UNCHANGED <<server, closed, shutdown, jobs, context, workspaces, logOpen, worker, buildErr,
                     metadataMu, snapshot, meta, artifacts, unsaved, uncleaned, damaged>>
      /\ scratch' \subseteq scratch \cup {lastID + 1} /\ lastID + 1 \in Builds
      /\ mu = "free" /\ ~closed
      /\ mu' = mu \/ (mu' = "createSave" /\ muJob' = lastID + 1)
  <2>1. /\ Admits /\ scratch' \subseteq scratch \cup {lastID + 1}
        /\ mu' = mu \/ (mu' = "createSave" /\ muJob' = lastID + 1)
    BY DEF CreateBegin, CreateFails, lock
  <2>2. mu = "free" /\ ~closed /\ lastID + 1 \in Builds
    BY <2>1, EndTyped, LimitsAssumption DEF Admits, Builds
  <2>3. QED
    BY <2>1, <2>2 DEF CreateBegin, CreateFails, service, tables, workers, saving
<1>2. jobs[lastID + 1] = Absent /\ meta[lastID + 1] = Absent
  BY <1>1, EndTyped DEF EndInv, LifeInv, LifeParts, BornInOrder, Unborn
<1>3. lastID + 1 \notin workspaces
  BY <1>2 DEF EndInv, EndParts, TableParts, WorkspaceIsListed, Present
<1>4. TableParts'
  BY <1>1, <1>3, EndTyped DEF EndInv, EndParts, TableParts, WorkspaceIsListed, Present,
     ContextHasWorker, LogMatchesWorker, ScratchIsCleaned
<1>5. RecordParts'
  BY <1>1, <1>2 DEF EndInv, EndParts, RecordParts, EndIsRecorded, Present, RecordIsJob,
     NewIsQueued, CloneIsNewer
<1>6. ArtifactParts' /\ ShutdownInOrder'
  BY <1>1 DEF EndInv, EndParts, ArtifactParts, SuccessHasArtifact, CompletedHasArtifact,
     ShutdownInOrder
<1>7. RetentionReached'
  BY <1>1 DEF EndInv, EndParts, RetentionReached, Candidates, Present, Active
<1>8. QED
  BY <1>4, <1>5, <1>6, <1>7 DEF EndParts

(* The first record of a job is on disk before the job is in the tables. *)
LEMMA CreateSaveEnd ==
    ASSUME EndInv, CreateSave \/ CreateSaved \/ CreateAborts
    PROVE  EndParts'
<1>1. /\ UNCHANGED <<server, closed, shutdown, jobs, context, workspaces, logOpen, worker, buildErr,
                     artifacts, uncleaned, damaged>>
      /\ scratch' \subseteq scratch \cup {muJob} /\ unsaved \ {muJob} \subseteq unsaved'
      /\ \/ /\ mu = "createSave" /\ mu' = "createSaving" /\ muJob' = muJob
            /\ metadataMu = NoBuild /\ snapshot' = "queued" /\ meta' = meta
         \/ /\ mu = "createSaving" /\ mu' = "createRegister" /\ muJob' = muJob
            /\ meta' = [meta EXCEPT ![muJob] = snapshot]
         \/ mu = "createSaving" /\ mu' = "free" /\ meta' = meta
  BY DEF CreateSave, CreateSaved, CreateAborts, SaveBegin, SaveOK, service, tables, workers,
     disk, book
<1>2. /\ muJob \in Builds /\ jobs[muJob] = Absent /\ worker[muJob] = "none" /\ ~closed
      /\ meta \in [Builds -> Statuses]
  BY <1>1, EndTyped DEF EndInv, EndParts, ShutdownInOrder, LifeInv, LifeParts, TypeInv, MuHasJob,
     BornInOrder, Unborn, CreateSteps
<1>3. \A k \in Builds : worker[k] \notin SaveSteps
  BY <1>1, EndTyped DEF EndInv, LifeInv, LifeParts, OneWriter, MuSaveSteps, SaveSteps
<1>4. mu = "createSaving" => snapshot = "queued" /\ meta[muJob] = Absent
  BY DEF EndInv, EndParts, RecordParts, NewIsQueued
<1>5. \A k \in Builds : meta'[k] = meta[k] \/ (k = muJob /\ meta'[k] = "queued")
  BY <1>1, <1>2, <1>4
<1>6. TableParts'
  <2>1. muJob \notin workspaces
    BY <1>2 DEF EndInv, EndParts, TableParts, WorkspaceIsListed, Present
  <2>2. QED
    BY <1>1, <2>1, EndTyped DEF EndInv, EndParts, TableParts, WorkspaceIsListed, Present,
       ContextHasWorker, LogMatchesWorker, ScratchIsCleaned
<1>7. RecordParts'
  <2>1. EndIsRecorded'
    BY <1>1, <1>2, <1>5 DEF EndInv, EndParts, RecordParts, EndIsRecorded, Present
  <2>2. RecordIsJob'
    BY <1>1, <1>5 DEF EndInv, EndParts, RecordParts, RecordIsJob, IsTerminal, Terminal
  <2>3. NewIsQueued'
    BY <1>1, <1>2, <1>4 DEF EndInv, EndParts, RecordParts, NewIsQueued
  <2>4. CloneIsNewer'
    BY <1>1, <1>3 DEF EndInv, EndParts, RecordParts, CloneIsNewer, SaveSteps
  <2>5. QED
    BY <2>1, <2>2, <2>3, <2>4 DEF RecordParts
<1>8. ArtifactParts' /\ ShutdownInOrder'
  BY <1>1, <1>2, <1>5 DEF EndInv, EndParts, ArtifactParts, SuccessHasArtifact,
     CompletedHasArtifact, ShutdownInOrder
<1>9. RetentionReached'
  BY <1>1 DEF EndInv, EndParts, RetentionReached, Candidates, Present, Active
<1>10. QED
  BY <1>6, <1>7, <1>8, <1>9 DEF EndParts

LEMMA CreateRegisterEnd ==
    ASSUME EndInv, CreateRegister
    PROVE  EndParts'
<1>1. /\ UNCHANGED <<server, closed, shutdown, buildErr, metadataMu, snapshot, meta, scratch,
                     artifacts, unsaved, uncleaned, damaged>>
      /\ mu = "createRegister" /\ mu' = "free"
      /\ jobs' = [jobs EXCEPT ![muJob] = "queued"]
      /\ context' = [context EXCEPT ![muJob] = "live"]
      /\ worker' = [worker EXCEPT ![muJob] = "waiting"]
      /\ workspaces' = workspaces \cup {muJob} /\ logOpen' = logOpen \cup {muJob}
  BY DEF CreateRegister, service, saving, disk, book
<1>2. /\ muJob \in Builds /\ jobs[muJob] = Absent /\ ~closed /\ meta[muJob] = "queued"
      /\ server = "serving" /\ shutdown = "no"
      /\ jobs \in [Builds -> Statuses] /\ worker \in [Builds -> WorkerSteps]
      /\ context \in [Builds -> {"none", "live", "canceled", "deadline"}]
  BY <1>1, EndTyped DEF EndInv, EndParts, RecordParts, NewIsQueued, ShutdownInOrder, LifeInv,
     LifeParts, TypeInv, MuHasJob, BornInOrder, Unborn, Quiet, CreateSteps
<1>3. WorkspaceIsListed' /\ ContextHasWorker' /\ ScratchIsCleaned'
  BY <1>1, <1>2, EndTyped DEF EndInv, EndParts, TableParts, WorkspaceIsListed, Present, Absent,
     ContextHasWorker, ScratchIsCleaned
<1>4. LogMatchesWorker'
  BY <1>1, <1>2 DEF EndInv, EndParts, TableParts, LogMatchesWorker, LogClosed
<1>5. RecordParts'
  BY <1>1, <1>2 DEF EndInv, EndParts, RecordParts, EndIsRecorded, Present, RecordIsJob,
     NewIsQueued, CloneIsNewer, SaveSteps, IsTerminal, Terminal
<1>6. ArtifactParts' /\ ShutdownInOrder'
  BY <1>1, <1>2 DEF EndInv, EndParts, ArtifactParts, SuccessHasArtifact, CompletedHasArtifact,
     ShutdownInOrder
<1>7. RetentionReached'
  <2>1. Candidates' \subseteq Candidates /\ Present \subseteq Present'
    BY <1>1, <1>2 DEF Candidates, Present, Active, IsTerminal, Terminal, Absent
  <2>2. \A k \in Builds : worker[k] = "prune" => worker'[k] = "prune"
    BY <1>1, <1>2 DEF EndInv, LifeInv, LifeParts, BornInOrder, Unborn, CreateSteps
  <2>3. QED
    BY <1>1, <2>1, <2>2, RetentionKept
<1>8. QED
  BY <1>3, <1>4, <1>5, <1>6, <1>7 DEF EndParts, TableParts

(* CancelJob decides the outcome of a job whose worker has not ended ...    *)
LEMMA CancelBeginEnd ==
    ASSUME EndInv, NEW j \in Builds, CancelBegin(j)
    PROVE  EndParts'
<1>1. /\ UNCHANGED <<server, closed, shutdown, context, workspaces, logOpen, worker, buildErr,
                     metadataMu, snapshot, meta, scratch, artifacts, unsaved, uncleaned,
                     damaged>>
      /\ server = "serving" /\ mu = "free" /\ mu' = "cancelContext"
      /\ jobs[j] \in Unfinished /\ jobs' = [jobs EXCEPT ![j] = "cancelled"]
  BY DEF CancelBegin, Serving, service, workers, saving, disk, book
<1>2. /\ jobs \in [Builds -> Statuses] /\ context[j] # "none" /\ jobs[j] # Absent
      /\ worker[j] \notin {"none", "record", "recording", "close", "clean", "deregister", "prune"}
  BY <1>1, EndTyped DEF EndInv, LifeInv, LifeParts, UnfinishedIsActive
<1>3. ~IsTerminal(meta[j]) /\ (worker[j] \in SaveSteps => ~IsTerminal(snapshot))
  BY <1>1, EndTyped DEF EndInv, EndParts, RecordParts, RecordIsJob, CloneIsNewer, IsTerminal
<1>4. TableParts'
  BY <1>1, <1>2 DEF EndInv, EndParts, TableParts, WorkspaceIsListed, Present, Absent,
     ContextHasWorker, LogMatchesWorker, ScratchIsCleaned
<1>5. RecordParts'
  BY <1>1, <1>2, <1>3 DEF EndInv, EndParts, RecordParts, EndIsRecorded, Present, Absent,
     RecordIsJob, NewIsQueued, CloneIsNewer
<1>6. ArtifactParts' /\ ShutdownInOrder'
  BY <1>1, <1>2 DEF EndInv, EndParts, ArtifactParts, SuccessHasArtifact, CompletedHasArtifact,
     ShutdownInOrder, CreateSteps
<1>7. RetentionReached'
  <2>1. Candidates' = Candidates /\ Present' = Present
    BY <1>1, <1>2 DEF Candidates, Present, Active, Absent
  <2>2. QED
    BY <1>1, <2>1, RetentionKept
<1>8. QED
  BY <1>4, <1>5, <1>6, <1>7 DEF EndParts

(* ... and records it. *)
LEMMA CancelReturnsEnd ==
    ASSUME EndInv, CancelReturns
    PROVE  EndParts'
<1>1. /\ UNCHANGED <<server, closed, shutdown, jobs, context, workspaces, logOpen, worker, buildErr,
                     scratch, artifacts, uncleaned, damaged>>
      /\ mu = "cancelSaving" /\ mu' = "free"
      /\ \/ meta' = [meta EXCEPT ![muJob] = snapshot] /\ unsaved' = unsaved \ {muJob}
         \/ meta' = meta /\ unsaved' = unsaved \cup {muJob}
  BY DEF CancelReturns, SaveOK, SaveError, service, tables, workers
<1>2. /\ muJob \in Builds /\ meta \in [Builds -> Statuses]
      /\ snapshot = "cancelled" /\ jobs[muJob] = "cancelled"
      /\ \A k \in Builds : worker[k] \notin SaveSteps
  BY <1>1, EndTyped DEF EndInv, LifeInv, LifeParts, TypeInv, MuHasJob, CancelIsWritten,
     CancelIsDecided, CancelSteps, OneWriter, MuSaveSteps
<1>3. TableParts'
  BY <1>1 DEF EndInv, EndParts, TableParts, WorkspaceIsListed, Present, ContextHasWorker,
     LogMatchesWorker, ScratchIsCleaned
<1>4. RecordParts'
  BY <1>1, <1>2 DEF EndInv, EndParts, RecordParts, EndIsRecorded, Present, RecordIsJob,
     NewIsQueued, CloneIsNewer, SaveSteps
<1>5. ArtifactParts' /\ ShutdownInOrder'
  BY <1>1, <1>2 DEF EndInv, EndParts, ArtifactParts, SuccessHasArtifact, CompletedHasArtifact,
     ShutdownInOrder, CreateSteps
<1>6. RetentionReached'
  BY <1>1 DEF EndInv, EndParts, RetentionReached, Candidates, Present, Active
<1>7. QED
  BY <1>3, <1>4, <1>5, <1>6 DEF EndParts

(* Steps that only end contexts, move CancelJob on, or wait for the workers. *)
LEMMA ContextEnd ==
    ASSUME EndInv, \/ CancelContext \/ CancelSave \/ ShutdownBegin \/ ShutdownDone
                   \/ \E j \in Builds : JobTimeout(j)
    PROVE  EndParts'
<1>1. /\ UNCHANGED <<server, jobs, workspaces, logOpen, worker, buildErr, meta, scratch,
                     artifacts, unsaved, uncleaned, damaged>>
      /\ \A k \in Builds : (context'[k] = "none") <=> (context[k] = "none")
      /\ (mu' = mu /\ muJob' = muJob) \/ mu' \notin CreateSteps
      /\ snapshot' = snapshot \/ (metadataMu = NoBuild /\ mu' = "cancelSaving")
  <2>1. CASE CancelContext
    BY <2>1, EndTyped DEF CancelContext, Cancel, CreateSteps, service, workers, saving, disk, book
  <2>2. CASE CancelSave
    BY <2>2 DEF CancelSave, SaveBegin, CreateSteps, service, tables, workers, disk, book
  <2>3. CASE ShutdownBegin
    BY <2>3, EndTyped DEF ShutdownBegin, Cancel, workers, lock, saving, disk, book
  <2>4. CASE ShutdownDone
    BY <2>4 DEF ShutdownDone, tables, workers, lock, saving, disk, book
  <2>5. CASE \E j \in Builds : JobTimeout(j)
    BY <2>5, EndTyped DEF JobTimeout, service, workers, lock, saving, disk, book
  <2>6. QED
    BY <2>1, <2>2, <2>3, <2>4, <2>5
<1>2. snapshot' = snapshot \/ \A k \in Builds : worker[k] \notin SaveSteps
  BY <1>1, EndTyped DEF EndInv, LifeInv, LifeParts, OneWriter
<1>3. TableParts'
  BY <1>1 DEF EndInv, EndParts, TableParts, WorkspaceIsListed, Present, ContextHasWorker,
     LogMatchesWorker, ScratchIsCleaned
<1>4. RecordParts'
  BY <1>1, <1>2 DEF EndInv, EndParts, RecordParts, EndIsRecorded, Present, RecordIsJob,
     NewIsQueued, CloneIsNewer, CreateSteps, SaveSteps
<1>5. ArtifactParts'
  BY <1>1 DEF EndInv, EndParts, ArtifactParts, SuccessHasArtifact, CompletedHasArtifact
<1>6. ShutdownInOrder'
  <2>1. CASE ShutdownBegin
    BY <2>1 DEF ShutdownBegin, Serving, lock, CreateSteps, ShutdownInOrder
  <2>2. CASE ShutdownDone
    BY <1>1, <2>2 DEF ShutdownDone, lock, EndInv, EndParts, ShutdownInOrder
  <2>3. CASE CancelContext \/ CancelSave \/ \E j \in Builds : JobTimeout(j)
    <3>1. UNCHANGED <<closed, shutdown>>
      BY <2>3 DEF CancelContext, CancelSave, JobTimeout, service
    <3>2. QED
      BY <1>1, <3>1 DEF EndInv, EndParts, ShutdownInOrder
  <2>4. QED
    BY <2>1, <2>2, <2>3
<1>7. RetentionReached'
  <2>1. Candidates' = Candidates /\ Present' = Present
    BY <1>1 DEF Candidates, Present, Active
  <2>2. QED
    BY <1>1, <2>1, RetentionKept
<1>8. QED
  BY <1>3, <1>4, <1>5, <1>6, <1>7 DEF EndParts

-----------------------------------------------------------------------------
(* The process *)

LEMMA StopEnd ==
    ASSUME EndInv, Stop
    PROVE  EndParts'
<1>1. /\ server' = "down" /\ ~closed' /\ shutdown' = "no" /\ mu' = "free"
      /\ workspaces' = {} /\ logOpen' = {} /\ UNCHANGED <<meta, artifacts, damaged>>
      /\ \A k \in Builds : jobs'[k] = Absent /\ context'[k] = "none" /\ worker'[k] = "none"
  BY DEF Stop, disk
<1>2. TableParts'
  BY <1>1 DEF TableParts, WorkspaceIsListed, ContextHasWorker, LogMatchesWorker, LogClosed,
     ScratchIsCleaned
<1>3. RecordParts'
  BY <1>1 DEF RecordParts, EndIsRecorded, Present, RecordIsJob, NewIsQueued, CloneIsNewer,
     SaveSteps
<1>4. ArtifactParts' /\ ShutdownInOrder' /\ RetentionReached'
  BY <1>1 DEF EndInv, EndParts, ArtifactParts, SuccessHasArtifact, CompletedHasArtifact, Absent,
     ShutdownInOrder, RetentionReached
<1>5. QED
  BY <1>2, <1>3, <1>4 DEF EndParts

LEMMA LoadEnd ==
    ASSUME EndInv, LoadHistoricalJobs
    PROVE  EndParts'
<1>1. PICK saved \in SUBSET {j \in Builds : meta[j] \in Unfinished} :
          /\ server = "down" /\ server' = "loading"
          /\ jobs' = [j \in Builds |-> Restored(meta[j])]
          /\ meta' = [j \in Builds |-> IF j \in saved THEN Restored(meta[j]) ELSE meta[j]]
          /\ unsaved' = {j \in Builds : meta[j] \in Unfinished} \ saved
          /\ UNCHANGED <<closed, shutdown, context, workspaces, logOpen, worker, buildErr, mu, muJob,
                         metadataMu, snapshot, scratch, artifacts, uncleaned, damaged>>
  BY DEF LoadHistoricalJobs, workers, lock, saving
<1>2. /\ mu = "free" /\ \A k \in Builds : worker[k] = "none" /\ context[k] = "none"
      /\ workspaces = {} /\ ~closed
  BY <1>1, EndTyped DEF EndInv, LifeInv, LifeParts, Quiet, DownIsEmpty, EndParts, TableParts,
     WorkspaceIsListed, Present, ShutdownInOrder
<1>3. \A k \in Builds :
         /\ meta'[k] = jobs'[k] \/ k \in unsaved'
         /\ IsTerminal(meta'[k]) => jobs'[k] = meta'[k]
         /\ "completed" \in {jobs'[k], meta'[k]} => meta[k] = "completed"
  BY <1>1 DEF Restored, IsTerminal, Terminal, Unfinished
<1>4. TableParts'
  BY <1>1, <1>2 DEF EndInv, EndParts, TableParts, WorkspaceIsListed, ContextHasWorker,
     LogMatchesWorker, ScratchIsCleaned
<1>5. RecordParts'
  BY <1>1, <1>2, <1>3 DEF RecordParts, EndIsRecorded, Present, RecordIsJob, NewIsQueued,
     CloneIsNewer, SaveSteps
<1>6. ArtifactParts' /\ ShutdownInOrder' /\ RetentionReached'
  BY <1>1, <1>2, <1>3 DEF EndInv, EndParts, ArtifactParts, SuccessHasArtifact,
     CompletedHasArtifact, ShutdownInOrder, RetentionReached
<1>7. QED
  BY <1>4, <1>5, <1>6 DEF EndParts

LEMMA StillEnd ==
    ASSUME EndInv, UNCHANGED vars
    PROVE  EndParts'
<1>1. UNCHANGED <<server, closed, shutdown, jobs, context, workspaces, logOpen, worker, buildErr, mu,
                  muJob, metadataMu, snapshot, meta, scratch, artifacts, unsaved, uncleaned,
                  damaged>>
  BY DEF vars, service, tables, workers, lock, saving, disk, book
<1>2. TableParts'
  BY <1>1 DEF EndInv, EndParts, TableParts, WorkspaceIsListed, Present, ContextHasWorker,
     LogMatchesWorker, ScratchIsCleaned
<1>3. RecordParts'
  BY <1>1 DEF EndInv, EndParts, RecordParts, EndIsRecorded, Present, RecordIsJob, NewIsQueued,
     CloneIsNewer
<1>4. ArtifactParts' /\ ShutdownInOrder' /\ RetentionReached'
  BY <1>1 DEF EndInv, EndParts, ArtifactParts, SuccessHasArtifact, CompletedHasArtifact,
     ShutdownInOrder, RetentionReached, Candidates, Present, Active
<1>5. QED
  BY <1>2, <1>3, <1>4 DEF EndParts

-----------------------------------------------------------------------------
(* The theorems *)

LEMMA EndStep == EndInv /\ [Next]_vars => EndInv'
<1> SUFFICES ASSUME EndInv, [Next]_vars PROVE EndInv'
  OBVIOUS
<1>1. LifeInv'
  BY LifeStep DEF EndInv
<1>2. EndParts'
  <2>1. CASE CreateJob \/ CancelJob
    BY <2>1, CreateBeginEnd, CreateSaveEnd, CreateRegisterEnd, CancelBeginEnd, CancelReturnsEnd,
       ContextEnd DEF CreateJob, CancelJob
  <2>2. CASE \E j \in Builds : Worker(j) \/ JobTimeout(j)
    BY <2>2, WorkerEnd, ContextEnd
  <2>3. CASE StartupPrune
    <3>1. mu = "free"
      BY <2>3 DEF StartupPrune, EndInv, LifeInv, LifeParts, Quiet
    <3>2. QED
      BY <2>3, <3>1, PruneEnd DEF StartupPrune, workers, lock, saving
  <2>4. CASE Shutdown \/ Stop \/ LoadHistoricalJobs \/ Exited \/ UNCHANGED vars
    BY <2>4, ContextEnd, StopEnd, LoadEnd, StillEnd DEF Shutdown, Exited
  <2>5. QED
    BY <2>1, <2>2, <2>3, <2>4 DEF Next
<1>3. QED
  BY <1>1, <1>2 DEF EndInv

(* Tables, records, archives and Shutdown always agree as EndParts says.    *)
THEOREM EndCorrect == Spec => []EndInv
<1>1. Init => EndInv
  BY TypeInit, LifeInit, EndInit DEF EndInv, LifeInv
<1>2. QED
  BY <1>1, EndStep, PTL DEF Spec

(* The comment of manager.go: registrations are kept until execution, logs  *)
(* and cleanup have stopped.                                                *)
THEOREM SettledWhenInactive == Spec => []InactiveIsSettled
<1>1. EndInv => InactiveIsSettled
  <2> SUFFICES ASSUME EndInv, NEW j \in Present \ Active
               PROVE  /\ IsTerminal(jobs[j]) /\ j \notin logOpen
                      /\ j \in workspaces => j \notin scratch \/ j \in uncleaned
    BY DEF InactiveIsSettled
  <2>1. j \in Builds /\ jobs[j] # Absent /\ context[j] = "none" /\ jobs[j] \in Statuses
    BY EndTyped DEF Present, Active
  <2>2. worker[j] \in {"none", "prune"} /\ jobs[j] \notin Unfinished
    BY <2>1, EndTyped DEF EndInv, LifeInv, LifeParts, WorkerIsRegistered, UnfinishedIsActive
  <2>3. QED
    BY <2>1, <2>2 DEF IsTerminal, Statuses, EndInv, EndParts, TableParts, LogMatchesWorker,
       LogClosed, ScratchIsCleaned
<1>2. QED
  BY <1>1, EndCorrect, PTL

(* Who is told the end of a log can already ask for the outcome, and the    *)
(* next process will know it, as far as the disk allowed.                   *)
THEOREM EndedAtEof == Spec => []EofMeansEnded
<1>1. EndInv => EofMeansEnded
  <2> SUFFICES ASSUME EndInv, NEW j \in workspaces \ logOpen
               PROVE  IsTerminal(jobs[j]) /\ (meta[j] = jobs[j] \/ j \in unsaved \cup damaged)
    BY DEF EofMeansEnded
  <2>1. j \in Present /\ j \in Builds /\ jobs[j] \in Statuses /\ jobs[j] # Absent
    BY EndTyped DEF EndInv, EndParts, TableParts, WorkspaceIsListed, Present
  <2>2. worker[j] \in LogClosed
    BY <2>1 DEF EndInv, EndParts, TableParts, LogMatchesWorker
  <2>3. IsTerminal(jobs[j])
    BY <2>1, <2>2 DEF LogClosed, IsTerminal, Statuses, EndInv, LifeInv, LifeParts, UnfinishedIsActive
  <2>4. QED
    BY <2>1, <2>2, <2>3 DEF LogClosed, EndInv, EndParts, RecordParts, EndIsRecorded
<1>2. QED
  BY <1>1, EndCorrect, PTL

(* Every exit of runWorker leaves the record as memory has it.              *)
THEOREM EndsAreRecorded == Spec => []EndIsRecorded
<1>1. EndInv => EndIsRecorded
  BY DEF EndInv, EndParts, RecordParts
<1>2. QED
  BY <1>1, EndCorrect, PTL

(* What GetArtifactPath serves is there, whatever raced with the build.     *)
THEOREM ArtifactsOfCompleted == Spec => []CompletedHasArtifact
<1>1. EndInv => CompletedHasArtifact
  BY DEF EndInv, EndParts, ArtifactParts
<1>2. QED
  BY <1>1, EndCorrect, PTL

(* When Shutdown returns nil nothing runs and nothing can be started.       *)
THEOREM ShutdownCorrect == Spec => []ShutdownIsFinal
<1>1. EndInv => ShutdownIsFinal
  <2> SUFFICES ASSUME EndInv, shutdown = "done"
               PROVE  /\ Active = {} /\ sem = 0 /\ logOpen = {}
                      /\ \A j \in Present : IsTerminal(jobs[j])
                      /\ Creating = {}
    BY DEF ShutdownIsFinal
  <2>1. closed /\ mu \notin CreateSteps /\ \A j \in Builds : worker[j] = "none"
    BY DEF EndInv, EndParts, ShutdownInOrder
  <2>2. Active = {} /\ logOpen = {}
    BY <2>1 DEF Active, LogClosed, EndInv, EndParts, TableParts, ContextHasWorker, LogMatchesWorker
  <2>3. sem = 0
    <3>1. HoldsSlot = {}
      BY <2>1 DEF HoldsSlot, SlotSteps
    <3>2. QED
      BY <3>1, FS_EmptySet DEF EndInv, LifeInv, TypeInv, TokensMatch
  <2>4. \A j \in Present : IsTerminal(jobs[j])
    BY <2>1, EndTyped DEF Present, IsTerminal, Statuses, EndInv, LifeInv, LifeParts,
       UnfinishedIsActive
  <2>5. Creating = {}
    BY <2>1 DEF Creating, CreateSteps
  <2>6. QED
    BY <2>2, <2>3, <2>4, <2>5
<1>2. QED
  BY <1>1, EndCorrect, PTL

(* Retention holds whenever no worker is left that is still to prune.       *)
THEOREM RetentionCorrect == Spec => []RetentionBound
<1>1. EndInv => RetentionBound
  <2> SUFFICES ASSUME EndInv, server = "serving", \A j \in Builds : worker[j] = "none",
                      Present \cap damaged = {}
               PROVE  Cardinality(Present) <= MaxRetainedBuilds
    BY DEF RetentionBound
  <2>1. Present = Candidates
    BY EndTyped DEF Present, Candidates, Active, IsTerminal, Statuses, EndInv, LifeInv, LifeParts,
       UnfinishedIsActive, EndParts, TableParts, ContextHasWorker
  <2>2. QED
    BY <2>1 DEF EndInv, EndParts, RetentionReached
<1>2. QED
  BY <1>1, EndCorrect, PTL

-----------------------------------------------------------------------------
(* Where records change. *)
LEMMA RecordChanges ==
    ASSUME EndInv, [Next]_vars
    PROVE  \/ meta' = meta
           \/ PruneOldBuilds
           \/ CreateSaved \/ CancelReturns \/ LoadHistoricalJobs
           \/ \E j \in Builds : WorkerSaved(j)
<1>1. CASE CreateJob
  BY <1>1 DEF CreateJob, CreateBegin, CreateFails, CreateSave, CreateAborts, CreateRegister, disk
<1>2. CASE CancelJob
  BY <1>2 DEF CancelJob, CancelBegin, CancelContext, CancelSave, disk
<1>3. ASSUME NEW j \in Builds, Worker(j) \/ JobTimeout(j)
      PROVE  meta' = meta \/ PruneOldBuilds \/ WorkerSaved(j)
  BY <1>3 DEF Worker, JobTimeout, GiveUpWaiting, Acquire, Recheck, EnterPhase, UpdatePhase,
     WorkerSave, WorkDone, PublishArtifact, SmokeTestPasses, WorkFails, Release, Finish, CloseLog,
     CleanIntermediateFiles, Deregister, WorkerPrune, WorkersOnly, disk
<1>4. CASE Shutdown \/ Stop \/ StartupPrune \/ Exited \/ UNCHANGED vars
  BY <1>4 DEF Shutdown, ShutdownBegin, ShutdownDone, Stop, StartupPrune, Exited, vars, disk
<1>5. QED
  BY <1>1, <1>2, <1>3, <1>4 DEF Next

(* What saveMetadata puts in place of a record. *)
LEMMA SavedRecord ==
    ASSUME EndInv, \/ CreateSaved \/ CancelReturns \/ LoadHistoricalJobs
                   \/ \E j \in Builds : WorkerSaved(j)
    PROVE  \A j \in Builds :
               \/ meta'[j] = meta[j]
               \/ meta[j] = Absent /\ meta'[j] = "queued"
               \/ ~IsTerminal(meta[j]) /\ meta'[j] \notin {"queued", Absent}
<1>0. meta \in [Builds -> Statuses]
  BY EndTyped
<1>1. CASE CreateSaved
  BY <1>0, <1>1 DEF CreateSaved, SaveOK, EndInv, EndParts, RecordParts, NewIsQueued
<1>2. CASE CancelReturns
  <2>1. /\ muJob \in Builds /\ jobs[muJob] = "cancelled" /\ snapshot = "cancelled"
        /\ IsTerminal(meta[muJob]) => meta[muJob] = "cancelled"
    BY <1>2, EndTyped DEF CancelReturns, EndInv, EndParts, RecordParts, RecordIsJob, LifeInv,
       LifeParts, TypeInv, MuHasJob, CancelIsDecided, CancelSteps, CancelIsWritten, Quiet
  <2>2. meta' \in {meta, [meta EXCEPT ![muJob] = snapshot]}
    BY <1>2 DEF CancelReturns, SaveOK, SaveError
  <2>3. QED
    BY <1>0, <2>1, <2>2 DEF Absent
<1>3. CASE LoadHistoricalJobs
  <2>1. \A j \in Builds : \/ meta'[j] = meta[j]
                          \/ meta[j] \in Unfinished /\ meta'[j] = Restored(meta[j])
    BY <1>3 DEF LoadHistoricalJobs
  <2>2. QED
    BY <2>1 DEF Restored, IsTerminal, Terminal, Unfinished, Absent
<1>4. ASSUME NEW k \in Builds, WorkerSaved(k)
      PROVE  \A j \in Builds : \/ meta'[j] = meta[j]
                               \/ ~IsTerminal(meta[j]) /\ meta'[j] \notin {"queued", Absent}
  <2>1. /\ snapshot \notin {"queued", Absent}
        /\ IsTerminal(meta[k]) => meta[k] = snapshot
    BY <1>4 DEF WorkerSaved, At, SaveSteps, EndInv, EndParts, RecordParts, CloneIsNewer
  <2>2. meta' \in {meta, [meta EXCEPT ![k] = snapshot]}
    BY <1>4 DEF WorkerSaved, SaveOK, SaveError
  <2>3. QED
    BY <1>0, <2>1, <2>2
<1>5. QED
  BY <1>1, <1>2, <1>3, <1>4

(* meta.json never goes back: an outcome on disk stays until it is pruned,  *)
(* and no stale clone puts a job back in the queue, across restarts too.    *)
RecordsAdvance ==
    \A j \in Builds :
        /\ IsTerminal(meta[j]) => meta'[j] \in {meta[j], Absent}
        /\ meta[j] # Absent => meta'[j] # "queued" \/ meta[j] = "queued"

(* A stale clone is never written over a newer record.                      *)
THEOREM RecordsNeverRegress == Spec => RecordNeverRegresses
<1>1. EndInv /\ [Next]_vars => [RecordsAdvance]_vars
  <2> SUFFICES ASSUME EndInv, [Next]_vars PROVE RecordsAdvance
    OBVIOUS
  <2>1. CASE meta' = meta
    BY <2>1 DEF RecordsAdvance
  <2>2. CASE PruneOldBuilds
    <3>1. \A j \in Builds : meta'[j] \in {meta[j], Absent}
      BY <2>2, PruneTakesEnded
    <3>2. QED
      BY <3>1 DEF RecordsAdvance, Absent
  <2>3. CASE \/ CreateSaved \/ CancelReturns \/ LoadHistoricalJobs
             \/ \E j \in Builds : WorkerSaved(j)
    BY <2>3, SavedRecord DEF RecordsAdvance, IsTerminal, Terminal, Absent
  <2>4. QED
    BY <2>1, <2>2, <2>3, RecordChanges
<1>2. Spec => [][RecordsAdvance]_vars
  BY <1>1, EndCorrect, PTL DEF Spec
<1>3. QED
  BY <1>2 DEF RecordNeverRegresses, RecordsAdvance

(* Retention takes the oldest first: whatever it takes, MaxRetainedBuilds   *)
(* newer jobs with an outcome stay.                                         *)
NewerStay(j) ==
    /\ worker[j] = "none" \/ j \notin Active
    /\ Cardinality({k \in Builds : k > j /\ IsTerminal(jobs'[k])}) >= MaxRetainedBuilds

LEMMA PruneLeavesNewer ==
    ASSUME EndInv, PruneOldBuilds
    PROVE  \A j \in Excess : j \in Builds /\ NewerStay(j)
<1> SUFFICES ASSUME NEW j \in Excess PROVE j \in Builds /\ NewerStay(j)
  OBVIOUS
<1>1. PICK gone \in SUBSET Excess, broken \in SUBSET Excess : PruneTakes(gone, broken)
  BY PruneEffect
<1>2. /\ Excess \in SUBSET Builds /\ Candidates \in SUBSET Builds
      /\ Excess \subseteq Candidates
  BY DEF Excess, Candidates, Present
<1>3. PICK x \in Excess : \A k \in Excess : k <= x
  <2> HIDE DEF Excess
  <2> QED
    BY <1>2, GreatestExists
<1> DEFINE above == {k \in Candidates : k > x}
           newer == {k \in Builds : k > j /\ IsTerminal(jobs'[k])}
<1>4. Cardinality(above) >= MaxRetainedBuilds
  BY DEF Excess
<1>5. above \subseteq newer
  <2> SUFFICES ASSUME NEW k \in above PROVE k \in newer
    OBVIOUS
  <2>1. k \in Candidates /\ k \in Builds /\ k > x /\ j \in Nat /\ x \in Nat /\ k \in Nat /\ j <= x
    BY <1>2, <1>3, EndTyped
  <2>2. k \notin Excess
    BY <1>3, <2>1
  <2>3. jobs'[k] = jobs[k]
    BY <1>1, <2>1, <2>2 DEF PruneTakes
  <2>4. QED
    BY <2>1, <2>3 DEF Candidates
<1>6. above \in SUBSET Builds /\ newer \in SUBSET Builds
  BY <1>2
<1>7. Cardinality(newer) >= MaxRetainedBuilds
  <2> HIDE DEF above, newer
  <2>1. /\ Cardinality(above) <= Cardinality(newer)
        /\ Cardinality(above) \in Nat /\ Cardinality(newer) \in Nat
    BY <1>5, <1>6, BuildsFinite, FS_Subset
  <2>2. QED
    BY <1>4, <2>1, LimitsAssumption
<1>8. j \in Builds /\ j \notin Active
  BY <1>2 DEF Excess, Candidates
<1>9. QED
  BY <1>7, <1>8 DEF NewerStay

LEMMA ArtifactChanges ==
    ASSUME EndInv, [Next]_vars
    PROVE  artifacts \subseteq artifacts' \/ PruneOldBuilds
<1>1. CASE CreateJob
  BY <1>1 DEF CreateJob, CreateBegin, CreateFails, CreateSave, CreateSaved, CreateAborts,
     CreateRegister, disk
<1>2. CASE CancelJob
  BY <1>2 DEF CancelJob, CancelBegin, CancelContext, CancelSave, CancelReturns, disk
<1>3. ASSUME NEW j \in Builds, Worker(j) \/ JobTimeout(j)
      PROVE  artifacts \subseteq artifacts' \/ PruneOldBuilds
  BY <1>3 DEF Worker, JobTimeout, GiveUpWaiting, Acquire, Recheck, EnterPhase, UpdatePhase,
     WorkerSave, WorkerSaved, WorkDone, PublishArtifact, SmokeTestPasses, WorkFails, Release,
     Finish, CloseLog, CleanIntermediateFiles, Deregister, WorkerPrune, WorkersOnly, disk
<1>4. CASE Shutdown \/ Stop \/ LoadHistoricalJobs \/ StartupPrune \/ Exited \/ UNCHANGED vars
  BY <1>4 DEF Shutdown, ShutdownBegin, ShutdownDone, Stop, LoadHistoricalJobs, StartupPrune,
     Exited, vars, disk
<1>5. QED
  BY <1>1, <1>2, <1>3, <1>4 DEF Next

(* Only PruneOldBuilds takes records and archives, and only the oldest.     *)
OnlyOldTaken ==
    \A j \in Builds :
        \/ meta[j] # Absent /\ meta'[j] = Absent
        \/ j \in artifacts /\ j \notin artifacts'
        => /\ worker[j] = "none" \/ j \notin Active
           /\ Cardinality({k \in Builds : k > j /\ IsTerminal(jobs'[k])})
                  >= MaxRetainedBuilds

(* Pruning spares what a worker uses and the newest MaxRetainedBuilds.      *)
THEOREM RetentionTakesOldest == Spec => PruneKeepsNewest
<1>1. EndInv /\ [Next]_vars => [OnlyOldTaken]_vars
  <2> SUFFICES ASSUME EndInv, [Next]_vars, NEW j \in Builds,
                      \/ meta[j] # Absent /\ meta'[j] = Absent
                      \/ j \in artifacts /\ j \notin artifacts'
               PROVE  NewerStay(j)
    BY DEF OnlyOldTaken, NewerStay
  <2>1. PruneOldBuilds
    <3>1. CASE meta[j] # Absent /\ meta'[j] = Absent
      BY <3>1, RecordChanges, SavedRecord
    <3>2. CASE j \in artifacts /\ j \notin artifacts'
      BY <3>2, ArtifactChanges
    <3>3. QED
      BY <3>1, <3>2
  <2>2. j \in Excess
    <3>1. PICK gone \in SUBSET Excess, broken \in SUBSET Excess : PruneTakes(gone, broken)
      BY <2>1, PruneEffect
    <3>2. j \in gone \cup broken
      BY <3>1 DEF PruneTakes
    <3>3. QED
      BY <3>2
  <2>3. QED
    BY <2>1, <2>2, PruneLeavesNewer
<1>2. QED
  BY <1>1, EndCorrect, PTL DEF Spec, PruneKeepsNewest, OnlyOldTaken
=============================================================================
