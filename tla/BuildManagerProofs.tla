------------------------- MODULE BuildManagerProofs -------------------------
(***************************************************************************)
(* Proofs about BuildManager, for all values of its constants: types, the   *)
(* slots and admission, and then the life of a job, that its outcome is     *)
(* decided once, that it can be reached until then, and that an             *)
(* acknowledged cancellation stays, in memory and on disk.                  *)
(***************************************************************************)
EXTENDS BuildManager, FiniteSetTheorems, TLAPS

-----------------------------------------------------------------------------
(* Type correctness and the semaphore *)

(* The holder of Manager.mu always works on a build. *)
MuHasJob == mu # "free" => muJob \in Builds

(* The steps inside a phase are only reached with a phase. *)
InPhase == {"enter", "update", "save", "saving", "smoke"}
PhaseIsSet == \A j \in Builds : worker[j] \in InPhase => phase[j] > 0

(* A build ID that is not used yet, or that CreateJob works on, has no worker. *)
CreateSteps == {"createSave", "createSaving", "createRegister"}
NewIsIdle ==
    /\ \A j \in Builds : j > lastID => worker[j] = "none"
    /\ mu \in CreateSteps => muJob <= lastID /\ worker[muJob] = "none"

(* The semaphore holds one token per worker that executes. *)
TokensMatch == sem = Cardinality(HoldsSlot)

TypeInv == TypeOK /\ MuHasJob /\ PhaseIsSet /\ NewIsIdle /\ TokensMatch

(* Builds, and every set of builds, is finite. *)
LEMMA BuildsFinite ==
    /\ IsFiniteSet(Builds)
    /\ \A S \in SUBSET Builds : IsFiniteSet(S) /\ Cardinality(S) \in Nat
<1>1. IsFiniteSet(Builds)
  BY FS_Interval, LimitsAssumption DEF Builds
<1>2. ASSUME NEW S \in SUBSET Builds
      PROVE  IsFiniteSet(S) /\ Cardinality(S) \in Nat
  BY <1>1, FS_Subset, FS_CardinalityType
<1>3. QED
  BY <1>1, <1>2

(* Phases is a nonempty list of statuses. *)
LEMMA PhasesTyped ==
    /\ LastPhase \in Nat \ {0}
    /\ \A k \in 1 .. LastPhase : Phases[k] \in Unfinished
BY PhasesAssumption DEF LastPhase

(* A step of one worker that neither takes nor gives back a token. *)
LEMMA TokensKept ==
    ASSUME TypeInv, NEW j \in Builds, NEW step,
           Goto(j, step), sem' = sem,
           (worker[j] \in SlotSteps) <=> (step \in SlotSteps)
    PROVE  TokensMatch'
<1>1. HoldsSlot' = HoldsSlot
  BY DEF TypeInv, TypeOK, HoldsSlot, Goto
<1>2. QED
  BY <1>1 DEF TypeInv, TokensMatch

LEMMA TypeInit == Init => TypeInv
<1> SUFFICES ASSUME Init PROVE TypeInv
  OBVIOUS
<1>0. 0 \in 0 .. LastPhase /\ 0 \in 0 .. MaxConcurrentJobs /\ 0 \in 0 .. MaxBuilds /\ 0 \in 0 .. MaxStops
  BY LimitsAssumption, PhasesAssumption DEF LastPhase
<1>1. TypeOK
  BY <1>0 DEF Init, TypeOK, Statuses, WorkerSteps, MuSteps
<1>2. HoldsSlot = {}
  BY DEF Init, HoldsSlot, SlotSteps
<1>3. TokensMatch
  BY <1>2, FS_EmptySet DEF Init, TokensMatch
<1>4. QED
  BY <1>1, <1>3 DEF Init, TypeInv, MuHasJob, PhaseIsSet, InPhase, NewIsIdle,
     CreateSteps

(* A step that leaves the workers alone. *)
LEMMA TokensUntouched ==
    ASSUME TypeInv, UNCHANGED <<worker, sem>>
    PROVE  TokensMatch'
BY DEF TypeInv, TokensMatch, HoldsSlot

(* PruneOldBuilds keeps the types of all it changes. *)
LEMMA PruneTyped ==
    ASSUME TypeInv, PruneOldBuilds
    PROVE  /\ jobs' \in [Builds -> Statuses]
           /\ meta' \in [Builds -> Statuses]
           /\ {workspaces', logOpen', scratch', artifacts', damaged'} \subseteq SUBSET Builds
<1>1. Excess \subseteq Builds
  BY DEF Excess, Candidates, Present
<1>2. \A gone : Forget(gone) =>
          /\ jobs' \in [Builds -> Statuses]
          /\ workspaces' \subseteq Builds
  BY DEF TypeInv, TypeOK, Forget, Statuses
<1>3. \A records, scratches, archives : RemoveFiles(records, scratches, archives) =>
          /\ meta' \in [Builds -> Statuses]
          /\ scratch' \subseteq Builds
          /\ artifacts' \subseteq Builds
  BY DEF TypeInv, TypeOK, RemoveFiles, Statuses
<1>4. logOpen' \subseteq Builds /\ damaged' \subseteq Builds
  BY <1>1 DEF PruneOldBuilds, TypeInv, TypeOK
<1>5. \E gone : Forget(gone)
  BY DEF PruneOldBuilds
<1>6. \E records, scratches, archives : RemoveFiles(records, scratches, archives)
  BY DEF PruneOldBuilds
<1>7. QED
  BY <1>2, <1>3, <1>4, <1>5, <1>6

(* The types a step must keep, without the count of the tokens. *)
Typed == TypeOK /\ MuHasJob /\ PhaseIsSet /\ NewIsIdle

(* CreateJob *)
LEMMA CreateTypes ==
    ASSUME TypeInv, CreateJob
    PROVE  TypeInv'
<1>1. CASE CreateBegin
  <2>1. Typed'
    BY <1>1, LimitsAssumption DEF CreateBegin, Admits, Builds, TypeInv,
       Typed, TypeOK, MuHasJob, PhaseIsSet, InPhase, NewIsIdle,
       CreateSteps, Statuses, WorkerSteps, MuSteps, service, tables,
       workers, lock, saving, disk, book
  <2>2. TokensMatch'
    BY <1>1, TokensUntouched DEF CreateBegin, service, tables, workers,
       lock, saving, disk, book
  <2>3. QED
    BY <2>1, <2>2 DEF Typed, TypeInv
<1>2. CASE CreateFails
  <2>1. Typed'
    BY <1>2, LimitsAssumption DEF CreateFails, Admits, Builds, TypeInv,
       Typed, TypeOK, MuHasJob, PhaseIsSet, InPhase, NewIsIdle,
       CreateSteps, Statuses, WorkerSteps, MuSteps, service, tables,
       workers, lock, saving, disk, book
  <2>2. TokensMatch'
    BY <1>2, TokensUntouched DEF CreateFails, service, tables, workers,
       lock, saving, disk, book
  <2>3. QED
    BY <2>1, <2>2 DEF Typed, TypeInv
<1>3. CASE CreateSave
  <2>1. Typed'
    BY <1>3 DEF CreateSave, SaveBegin, Unfinished, TypeInv, Typed,
       TypeOK, MuHasJob, PhaseIsSet, InPhase, NewIsIdle, CreateSteps,
       Statuses, WorkerSteps, MuSteps, service, tables, workers, lock,
       saving, disk, book
  <2>2. TokensMatch'
    BY <1>3, TokensUntouched DEF CreateSave, service, tables, workers,
       lock, saving, disk, book
  <2>3. QED
    BY <2>1, <2>2 DEF Typed, TypeInv
<1>4. CASE CreateSaved
  <2>1. Typed'
    BY <1>4 DEF CreateSaved, SaveOK, TypeInv, Typed, TypeOK, MuHasJob,
       PhaseIsSet, InPhase, NewIsIdle, CreateSteps, Statuses,
       WorkerSteps, MuSteps, service, tables, workers, lock, saving,
       disk, book
  <2>2. TokensMatch'
    BY <1>4, TokensUntouched DEF CreateSaved, service, tables, workers,
       lock, saving, disk, book
  <2>3. QED
    BY <2>1, <2>2 DEF Typed, TypeInv
<1>5. CASE CreateAborts
  <2>1. Typed'
    BY <1>5 DEF CreateAborts, TypeInv, Typed, TypeOK, MuHasJob,
       PhaseIsSet, InPhase, NewIsIdle, CreateSteps, Statuses,
       WorkerSteps, MuSteps, service, tables, workers, lock, saving,
       disk, book
  <2>2. TokensMatch'
    BY <1>5, TokensUntouched DEF CreateAborts, service, tables, workers,
       lock, saving, disk, book
  <2>3. QED
    BY <2>1, <2>2 DEF Typed, TypeInv
<1>6. CASE CreateRegister
  <2>0. muJob \in Builds /\ muJob <= lastID
    BY <1>6 DEF CreateRegister, TypeInv, MuHasJob, NewIsIdle, CreateSteps
  <2>1. Typed'
    <3>1. TypeOK'
      BY <1>6, <2>0 DEF CreateRegister, Unfinished, TypeInv, TypeOK, Statuses,
         WorkerSteps, MuSteps, service, saving, disk, book
    <3>2. ASSUME NEW j \in Builds, j > lastID' PROVE worker'[j] = "none"
      <4>1. j # muJob /\ lastID' = lastID
        BY <1>6, <2>0, <3>2 DEF CreateRegister, book, TypeInv, TypeOK, Builds
      <4>2. QED
        BY <1>6, <3>2, <4>1 DEF CreateRegister, TypeInv, TypeOK, NewIsIdle
    <3>3. MuHasJob' /\ PhaseIsSet' /\ NewIsIdle'
      BY <1>6, <2>0, <3>2 DEF CreateRegister, TypeInv, TypeOK, MuHasJob, PhaseIsSet,
         InPhase, NewIsIdle, CreateSteps
    <3>4. QED
      BY <3>1, <3>3 DEF Typed
  <2>2. TokensMatch'
    <3>1. Goto(muJob, "waiting") /\ muJob \in Builds /\ worker[muJob] = "none" /\ sem' = sem
      BY <1>6 DEF CreateRegister, Goto, TypeInv, MuHasJob, NewIsIdle, CreateSteps
    <3>2. QED
      BY <3>1, TokensKept DEF SlotSteps
  <2>3. QED
    BY <2>1, <2>2 DEF Typed, TypeInv
<1>7. QED
  BY <1>1, <1>2, <1>3, <1>4, <1>5, <1>6 DEF CreateJob

(* CancelJob *)
LEMMA CancelTypes ==
    ASSUME TypeInv, CancelJob
    PROVE  TypeInv'
<1>1. CASE \E j \in Builds : CancelBegin(j)
  <2>1. Typed'
    BY <1>1 DEF CancelBegin, Terminal,
       TypeInv, Typed, TypeOK, MuHasJob, PhaseIsSet, InPhase, NewIsIdle,
       CreateSteps, Statuses, WorkerSteps, MuSteps, service, tables,
       workers, lock, saving, disk, book
  <2>2. TokensMatch'
    BY <1>1, TokensUntouched DEF CancelBegin,
       service, tables, workers, lock, saving, disk, book
  <2>3. QED
    BY <2>1, <2>2 DEF Typed, TypeInv
<1>2. CASE CancelContext
  <2>1. Typed'
    BY <1>2 DEF CancelContext, Cancel, TypeInv, Typed, TypeOK, MuHasJob,
       PhaseIsSet, InPhase, NewIsIdle, CreateSteps, Statuses,
       WorkerSteps, MuSteps, service, tables, workers, lock, saving,
       disk, book
  <2>2. TokensMatch'
    BY <1>2, TokensUntouched DEF CancelContext, service, tables,
       workers, lock, saving, disk, book
  <2>3. QED
    BY <2>1, <2>2 DEF Typed, TypeInv
<1>3. CASE CancelSave
  <2>1. Typed'
    BY <1>3 DEF CancelSave, SaveBegin, TypeInv, Typed, TypeOK, MuHasJob,
       PhaseIsSet, InPhase, NewIsIdle, CreateSteps, Statuses,
       WorkerSteps, MuSteps, service, tables, workers, lock, saving,
       disk, book
  <2>2. TokensMatch'
    BY <1>3, TokensUntouched DEF CancelSave, service, tables, workers,
       lock, saving, disk, book
  <2>3. QED
    BY <2>1, <2>2 DEF Typed, TypeInv
<1>4. CASE CancelReturns
  <2>1. Typed'
    BY <1>4 DEF CancelReturns, SaveOK, SaveError, TypeInv, Typed,
       TypeOK, MuHasJob, PhaseIsSet, InPhase, NewIsIdle, CreateSteps,
       Statuses, WorkerSteps, MuSteps, service, tables, workers, lock,
       saving, disk, book
  <2>2. TokensMatch'
    BY <1>4, TokensUntouched DEF CancelReturns, service, tables,
       workers, lock, saving, disk, book
  <2>3. QED
    BY <2>1, <2>2 DEF Typed, TypeInv
<1>5. QED
  BY <1>1, <1>2, <1>3, <1>4 DEF CancelJob

(* One worker *)
LEMMA WorkerTypes ==
    ASSUME TypeInv, NEW j \in Builds, Worker(j)
    PROVE  TypeInv'
<1>1. CASE GiveUpWaiting(j)
  <2>1. Typed'
    BY <1>1 DEF GiveUpWaiting, Goto, At, WorkersOnly, TypeInv, Typed,
       TypeOK, MuHasJob, PhaseIsSet, InPhase, NewIsIdle, CreateSteps,
       Statuses, WorkerSteps, MuSteps, service, tables, workers, lock,
       saving, disk, book
  <2>2. TokensMatch'
    BY <1>1, TokensKept DEF GiveUpWaiting, At, SlotSteps, WorkersOnly
  <2>3. QED
    BY <2>1, <2>2 DEF Typed, TypeInv
<1>2. CASE Acquire(j)
  <2>1. Typed'
    BY <1>2, LimitsAssumption DEF Acquire, Goto, At, WorkersOnly,
       SlotFree, TypeInv, Typed, TypeOK, MuHasJob, PhaseIsSet, InPhase,
       NewIsIdle, CreateSteps, Statuses, WorkerSteps, MuSteps, service,
       tables, workers, lock, saving, disk, book
  <2>2. TokensMatch'
    <3>1. HoldsSlot' = HoldsSlot \cup {j} /\ j \notin HoldsSlot
      BY <1>2 DEF Acquire, At, Goto, HoldsSlot, SlotSteps, TypeInv, TypeOK
    <3>2. HoldsSlot \in SUBSET Builds
      BY DEF HoldsSlot
    <3>3. Cardinality(HoldsSlot') = Cardinality(HoldsSlot) + 1
      BY <3>1, <3>2, BuildsFinite, FS_AddElement
    <3>4. QED
      BY <1>2, <3>3 DEF Acquire, TypeInv, TokensMatch
  <2>3. QED
    BY <2>1, <2>2 DEF Typed, TypeInv
<1>3. CASE Recheck(j)
  <2>1. Typed'
    BY <1>3 DEF Recheck, Goto, At, WorkersOnly, Done, TypeInv, Typed,
       TypeOK, MuHasJob, PhaseIsSet, InPhase, NewIsIdle, CreateSteps,
       Statuses, WorkerSteps, MuSteps, service, tables, workers, lock,
       saving, disk, book
  <2>2. TokensMatch'
    BY <1>3, TokensKept DEF Recheck, At, SlotSteps, WorkersOnly
  <2>3. QED
    BY <2>1, <2>2 DEF Typed, TypeInv
<1>4. CASE EnterPhase(j)
  <2>1. Typed'
    BY <1>4 DEF EnterPhase, Goto, At, WorkersOnly, Done, TypeInv, Typed,
       TypeOK, MuHasJob, PhaseIsSet, InPhase, NewIsIdle, CreateSteps,
       Statuses, WorkerSteps, MuSteps, service, tables, workers, lock,
       saving, disk, book
  <2>2. TokensMatch'
    BY <1>4, TokensKept DEF EnterPhase, At, SlotSteps, WorkersOnly
  <2>3. QED
    BY <2>1, <2>2 DEF Typed, TypeInv
<1>5. CASE UpdatePhase(j)
  <2>1. Typed'
    <3>1. phase[j] \in 1 .. LastPhase
      BY <1>5, PhasesTyped DEF UpdatePhase, At, TypeInv, TypeOK, PhaseIsSet, InPhase
    <3>2. Phases[phase[j]] \in Statuses
      BY <3>1, PhasesTyped DEF Statuses
    <3>3. jobs' \in [Builds -> Statuses] /\ buildErr' \in [Builds -> BOOLEAN]
      BY <1>5, <3>2 DEF UpdatePhase, TypeInv, TypeOK
    <3>4. \E step \in {"release", "save"} : worker' = [worker EXCEPT ![j] = step]
      BY <1>5 DEF UpdatePhase, Goto
    <3>5. worker[j] = "update" /\ phase' = phase
      BY <1>5 DEF UpdatePhase, At
    <3>6. TypeOK'
      BY <1>5, <3>3, <3>4 DEF UpdatePhase, TypeInv, TypeOK, WorkerSteps, service,
         lock, saving, disk, book
    <3>7. MuHasJob' /\ PhaseIsSet' /\ NewIsIdle'
      BY <1>5, <3>1, <3>4, <3>5 DEF UpdatePhase, TypeInv, TypeOK, WorkerSteps,
         MuHasJob, PhaseIsSet, InPhase, NewIsIdle, CreateSteps, lock, book
    <3>8. QED
      BY <3>6, <3>7 DEF Typed
  <2>2. TokensMatch'
    BY <1>5, TokensKept DEF UpdatePhase, At, SlotSteps
  <2>3. QED
    BY <2>1, <2>2 DEF Typed, TypeInv
<1>6. CASE WorkerSave(j)
  <2>1. Typed'
    BY <1>6 DEF WorkerSave, Goto, At, SaveBegin, TypeInv, Typed, TypeOK,
       MuHasJob, PhaseIsSet, InPhase, NewIsIdle, CreateSteps, Statuses,
       WorkerSteps, MuSteps, service, tables, workers, lock, saving,
       disk, book
  <2>2. TokensMatch'
    BY <1>6, TokensKept DEF WorkerSave, At, SlotSteps
  <2>3. QED
    BY <2>1, <2>2 DEF Typed, TypeInv
<1>7. CASE WorkerSaved(j)
  <2>1. Typed'
    BY <1>7 DEF WorkerSaved, Goto, At, SaveOK, SaveError, TypeInv,
       Typed, TypeOK, MuHasJob, PhaseIsSet, InPhase, NewIsIdle,
       CreateSteps, Statuses, WorkerSteps, MuSteps, service, tables,
       workers, lock, saving, disk, book
  <2>2. TokensMatch'
    BY <1>7, TokensKept DEF WorkerSaved, At, SlotSteps
  <2>3. QED
    BY <2>1, <2>2 DEF Typed, TypeInv
<1>8. CASE WorkDone(j)
  <2>1. Typed'
    BY <1>8, PhasesAssumption DEF WorkDone, Goto, At, WorkersOnly,
       LastPhase, TypeInv, Typed, TypeOK, MuHasJob, PhaseIsSet, InPhase,
       NewIsIdle, CreateSteps, Statuses, WorkerSteps, MuSteps, service,
       tables, workers, lock, saving, disk, book
  <2>2. TokensMatch'
    BY <1>8, TokensKept DEF WorkDone, At, SlotSteps, WorkersOnly
  <2>3. QED
    BY <2>1, <2>2 DEF Typed, TypeInv
<1>9. CASE PublishArtifact(j)
  <2>1. Typed'
    BY <1>9, PhasesAssumption DEF PublishArtifact, Goto, At, LastPhase,
       TypeInv, Typed, TypeOK, MuHasJob, PhaseIsSet, InPhase, NewIsIdle,
       CreateSteps, Statuses, WorkerSteps, MuSteps, service, tables,
       workers, lock, saving, disk, book
  <2>2. TokensMatch'
    BY <1>9, TokensKept DEF PublishArtifact, At, SlotSteps
  <2>3. QED
    BY <2>1, <2>2 DEF Typed, TypeInv
<1>10. CASE SmokeTestPasses(j)
  <2>1. Typed'
    BY <1>10 DEF SmokeTestPasses, Goto, At, WorkersOnly, TypeInv, Typed,
       TypeOK, MuHasJob, PhaseIsSet, InPhase, NewIsIdle, CreateSteps,
       Statuses, WorkerSteps, MuSteps, service, tables, workers, lock,
       saving, disk, book
  <2>2. TokensMatch'
    BY <1>10, TokensKept DEF SmokeTestPasses, At, SlotSteps, WorkersOnly
  <2>3. QED
    BY <2>1, <2>2 DEF Typed, TypeInv
<1>11. CASE WorkFails(j)
  <2>1. Typed'
    BY <1>11 DEF WorkFails, Goto, At, WorkersOnly, TypeInv, Typed,
       TypeOK, MuHasJob, PhaseIsSet, InPhase, NewIsIdle, CreateSteps,
       Statuses, WorkerSteps, MuSteps, service, tables, workers, lock,
       saving, disk, book
  <2>2. TokensMatch'
    BY <1>11, TokensKept DEF WorkFails, At, SlotSteps, WorkersOnly
  <2>3. QED
    BY <2>1, <2>2 DEF Typed, TypeInv
<1>12. CASE Release(j)
  <2>1. HoldsSlot' = HoldsSlot \ {j} /\ j \in HoldsSlot
    BY <1>12 DEF Release, At, Goto, HoldsSlot, SlotSteps, TypeInv, TypeOK
  <2>2. HoldsSlot \in SUBSET Builds
    BY DEF HoldsSlot
  <2>3. Cardinality(HoldsSlot') = Cardinality(HoldsSlot) - 1
    BY <2>1, <2>2, BuildsFinite, FS_RemoveElement
  <2>4. TokensMatch'
    BY <1>12, <2>3 DEF Release, TypeInv, TokensMatch
  <2>5. Cardinality(HoldsSlot) \in Nat /\ Cardinality(HoldsSlot) # 0
    BY <2>1, <2>2, BuildsFinite, FS_EmptySet
  <2>6. sem' \in 0 .. MaxConcurrentJobs
    BY <1>12, <2>5, LimitsAssumption DEF Release, TypeInv, TypeOK, TokensMatch
  <2>7. worker' \in [Builds -> WorkerSteps] /\ phase' \in [Builds -> 0 .. LastPhase]
    BY <1>12, PhasesAssumption DEF Release, Goto, TypeInv, TypeOK, WorkerSteps,
       LastPhase
  <2>8. Typed'
    BY <1>12, <2>6, <2>7 DEF Release, Goto, At, WorkersOnly, TypeInv, Typed,
       TypeOK, MuHasJob, PhaseIsSet, InPhase, NewIsIdle, CreateSteps, MuSteps,
       service, tables, workers, lock, saving, disk, book
  <2>9. QED
    BY <2>4, <2>8 DEF Typed, TypeInv
<1>13. CASE Finish(j)
  <2>1. Typed'
    BY <1>13 DEF Finish, Goto, At, Outcome, Terminal, TypeInv, Typed,
       TypeOK, MuHasJob, PhaseIsSet, InPhase, NewIsIdle, CreateSteps,
       Statuses, WorkerSteps, MuSteps, service, tables, workers, lock,
       saving, disk, book
  <2>2. TokensMatch'
    BY <1>13, TokensKept DEF Finish, At, SlotSteps
  <2>3. QED
    BY <2>1, <2>2 DEF Typed, TypeInv
<1>14. CASE CloseLog(j)
  <2>1. Typed'
    BY <1>14 DEF CloseLog, Goto, At, TypeInv, Typed, TypeOK, MuHasJob,
       PhaseIsSet, InPhase, NewIsIdle, CreateSteps, Statuses,
       WorkerSteps, MuSteps, service, tables, workers, lock, saving,
       disk, book
  <2>2. TokensMatch'
    BY <1>14, TokensKept DEF CloseLog, At, SlotSteps
  <2>3. QED
    BY <2>1, <2>2 DEF Typed, TypeInv
<1>15. CASE CleanIntermediateFiles(j)
  <2>1. Typed'
    BY <1>15 DEF CleanIntermediateFiles, Goto, At, TypeInv, Typed,
       TypeOK, MuHasJob, PhaseIsSet, InPhase, NewIsIdle, CreateSteps,
       Statuses, WorkerSteps, MuSteps, service, tables, workers, lock,
       saving, disk, book
  <2>2. TokensMatch'
    BY <1>15, TokensKept DEF CleanIntermediateFiles, At, SlotSteps
  <2>3. QED
    BY <2>1, <2>2 DEF Typed, TypeInv
<1>16. CASE Deregister(j)
  <2>1. Typed'
    BY <1>16 DEF Deregister, Goto, At, TypeInv, Typed, TypeOK, MuHasJob,
       PhaseIsSet, InPhase, NewIsIdle, CreateSteps, Statuses,
       WorkerSteps, MuSteps, service, tables, workers, lock, saving,
       disk, book
  <2>2. TokensMatch'
    BY <1>16, TokensKept DEF Deregister, At, SlotSteps
  <2>3. QED
    BY <2>1, <2>2 DEF Typed, TypeInv
<1>17. CASE WorkerPrune(j)
  <2>1. Typed'
    BY <1>17, PruneTyped DEF WorkerPrune, Goto, At, TypeInv, Typed,
       TypeOK, MuHasJob, PhaseIsSet, InPhase, NewIsIdle, CreateSteps,
       Statuses, WorkerSteps, MuSteps, service, tables, workers, lock,
       saving, disk, book
  <2>2. TokensMatch'
    BY <1>17, TokensKept DEF WorkerPrune, At, SlotSteps
  <2>3. QED
    BY <2>1, <2>2 DEF Typed, TypeInv
<1>18. QED
  BY <1>1, <1>2, <1>3, <1>4, <1>5, <1>6, <1>7, <1>8, <1>9, <1>10, <1>11,
     <1>12, <1>13, <1>14, <1>15, <1>16, <1>17 DEF Worker

(* The timers, Shutdown, and the process *)
LEMMA ProcessTypes ==
    ASSUME TypeInv, (\E j \in Builds : JobTimeout(j)) \/ Shutdown \/ Stop \/ LoadHistoricalJobs
           \/ StartupPrune \/ UNCHANGED vars
    PROVE  TypeInv'
<1>1. CASE \E j \in Builds : JobTimeout(j)
  <2>1. Typed'
    BY <1>1 DEF JobTimeout, TypeInv,
       Typed, TypeOK, MuHasJob, PhaseIsSet, InPhase, NewIsIdle,
       CreateSteps, Statuses, WorkerSteps, MuSteps, service, tables,
       workers, lock, saving, disk, book
  <2>2. TokensMatch'
    BY <1>1, TokensUntouched DEF JobTimeout,
       service, tables, workers, lock, saving, disk, book
  <2>3. QED
    BY <2>1, <2>2 DEF Typed, TypeInv
<1>2. CASE ShutdownBegin
  <2>1. Typed'
    BY <1>2 DEF ShutdownBegin, Cancel, TypeInv, Typed, TypeOK, MuHasJob,
       PhaseIsSet, InPhase, NewIsIdle, CreateSteps, Statuses,
       WorkerSteps, MuSteps, service, tables, workers, lock, saving,
       disk, book
  <2>2. TokensMatch'
    BY <1>2, TokensUntouched DEF ShutdownBegin, service, tables,
       workers, lock, saving, disk, book
  <2>3. QED
    BY <2>1, <2>2 DEF Typed, TypeInv
<1>3. CASE ShutdownDone
  <2>1. Typed'
    BY <1>3 DEF ShutdownDone, TypeInv, Typed, TypeOK, MuHasJob,
       PhaseIsSet, InPhase, NewIsIdle, CreateSteps, Statuses,
       WorkerSteps, MuSteps, service, tables, workers, lock, saving,
       disk, book
  <2>2. TokensMatch'
    BY <1>3, TokensUntouched DEF ShutdownDone, service, tables, workers,
       lock, saving, disk, book
  <2>3. QED
    BY <2>1, <2>2 DEF Typed, TypeInv
<1>4. CASE Stop
  <2>1. Typed'
    <3>1. 0 \in 0 .. LastPhase /\ 0 \in 0 .. MaxConcurrentJobs
      BY LimitsAssumption, PhasesAssumption DEF LastPhase
    <3>2. stops' \in 0 .. MaxStops
      BY <1>4, LimitsAssumption DEF Stop, TypeInv, TypeOK
    <3>3. MuHasJob' /\ PhaseIsSet' /\ NewIsIdle'
      BY <1>4 DEF Stop, MuHasJob, PhaseIsSet, InPhase, NewIsIdle, CreateSteps
    <3>4. QED
      BY <1>4, <3>1, <3>2, <3>3 DEF Stop, TypeInv, Typed, TypeOK, Statuses,
         WorkerSteps, MuSteps, disk
  <2>2. TokensMatch'
    <3>1. HoldsSlot' = {}
      BY <1>4 DEF Stop, HoldsSlot, SlotSteps
    <3>2. QED
      BY <1>4, <3>1, FS_EmptySet DEF Stop, TokensMatch
  <2>3. QED
    BY <2>1, <2>2 DEF Typed, TypeInv
<1>5. CASE LoadHistoricalJobs
  <2>1. Typed'
    BY <1>5 DEF LoadHistoricalJobs, Restored, Unfinished, Terminal,
       TypeInv, Typed, TypeOK, MuHasJob, PhaseIsSet, InPhase, NewIsIdle,
       CreateSteps, Statuses, WorkerSteps, MuSteps, service, tables,
       workers, lock, saving, disk, book
  <2>2. TokensMatch'
    BY <1>5, TokensUntouched DEF LoadHistoricalJobs, service, tables,
       workers, lock, saving, disk, book
  <2>3. QED
    BY <2>1, <2>2 DEF Typed, TypeInv
<1>6. CASE StartupPrune
  <2>1. Typed'
    BY <1>6, PruneTyped DEF StartupPrune, TypeInv, Typed, TypeOK,
       MuHasJob, PhaseIsSet, InPhase, NewIsIdle, CreateSteps, Statuses,
       WorkerSteps, MuSteps, service, tables, workers, lock, saving,
       disk, book
  <2>2. TokensMatch'
    BY <1>6, TokensUntouched DEF StartupPrune, service, tables, workers,
       lock, saving, disk, book
  <2>3. QED
    BY <2>1, <2>2 DEF Typed, TypeInv
<1>7. CASE UNCHANGED vars
  <2>1. Typed'
    BY <1>7 DEF vars, TypeInv, Typed, TypeOK, MuHasJob,
       PhaseIsSet, InPhase, NewIsIdle, CreateSteps, Statuses,
       WorkerSteps, MuSteps, service, tables, workers, lock, saving,
       disk, book
  <2>2. TokensMatch'
    BY <1>7, TokensUntouched DEF vars, service, tables,
       workers, lock, saving, disk, book
  <2>3. QED
    BY <2>1, <2>2 DEF Typed, TypeInv
<1>8. QED
  BY <1>1, <1>2, <1>3, <1>4, <1>5, <1>6, <1>7 DEF Shutdown

LEMMA TypeStep == TypeInv /\ [Next]_vars => TypeInv'
BY CreateTypes, CancelTypes, WorkerTypes, ProcessTypes DEF Next, Exited

(* Type correctness with the counting invariant, for any limits and phases. *)
THEOREM TypeCorrect == Spec => []TypeInv
BY TypeInit, TypeStep, PTL DEF Spec

(* Every variable keeps its type: CreateJob, CancelJob, workers, crashes,   *)
(* restarts and prunes included.                                            *)
THEOREM TypesHold == Spec => []TypeOK
<1>1. TypeInv => TypeOK
  BY DEF TypeInv
<1>2. QED
  BY <1>1, TypeCorrect, PTL

(* The semaphore of runWorker: as many tokens are taken as workers execute, *)
(* never more than MaxConcurrentJobs, whatever way the workers leave.       *)
THEOREM SlotsCorrect == Spec => []SlotsMatchWorkers
<1>1. TypeInv => SlotsMatchWorkers
  BY LimitsAssumption DEF TypeInv, TypeOK, TokensMatch, SlotsMatchWorkers
<1>2. QED
  BY <1>1, TypeCorrect, PTL

-----------------------------------------------------------------------------
(* Admission *)

(* The places in use: the registered jobs and the one being created. *)
Places == Active \cup Creating

PlacesInv == TypeInv /\ AdmissionBound

(* Nothing but CreateBegin puts a build into a place. *)
LEMMA PlacesOnlyShrink ==
    ASSUME TypeInv, TypeInv', AdmissionBound, Places' \subseteq Places
    PROVE  AdmissionBound'
<1>1. Places \in SUBSET Builds
  BY DEF Places, Active, Creating, TypeInv, MuHasJob
<1>2. Places' \in SUBSET Builds
  BY <1>1
<1>3. IsFiniteSet(Places) /\ Cardinality(Places) \in Nat /\ Cardinality(Places') \in Nat
  BY <1>1, <1>2, BuildsFinite
<1>4. Cardinality(Places') <= Cardinality(Places)
  BY <1>3, FS_Subset
<1>5. QED
  BY <1>3, <1>4, LimitsAssumption DEF AdmissionBound, Places

(* CreateJob: room is checked and the place is taken under one lock. *)
LEMMA CreatePlaces ==
    ASSUME TypeInv, TypeInv', AdmissionBound, CreateJob
    PROVE  AdmissionBound'
<1>1. CASE CreateBegin
  <2>1. Active' = Active /\ Creating' = {lastID + 1}
    BY <1>1 DEF CreateBegin, Active, Creating, tables
  <2>2. Active \in SUBSET Builds
    BY DEF Active
  <2>3. IsFiniteSet(Active) /\ Cardinality(Active) \in Nat
    BY <2>2, BuildsFinite
  <2>4. Cardinality(Active \cup {lastID + 1}) <= Cardinality(Active) + 1
    BY <2>3, FS_AddElement
  <2>5. Active' \cup Creating' \in SUBSET Builds
    BY <2>1, <2>2 DEF TypeInv, MuHasJob, Creating
  <2>6. Cardinality(Active' \cup Creating') \in Nat
    BY <2>5, BuildsFinite
  <2>7. QED
    BY <1>1, <2>1, <2>3, <2>4, <2>6, LimitsAssumption
    DEF CreateBegin, Admits, HasRoom, AdmissionBound
<1>2. CASE CreateFails
  BY <1>2, PlacesOnlyShrink DEF CreateFails, Places, Active, Creating, tables, lock
<1>3. CASE CreateSave
  BY <1>3, PlacesOnlyShrink DEF CreateSave, Places, Active, Creating, tables
<1>4. CASE CreateSaved
  BY <1>4, PlacesOnlyShrink DEF CreateSaved, Places, Active, Creating, tables
<1>5. CASE CreateAborts
  BY <1>5, PlacesOnlyShrink DEF CreateAborts, Places, Active, Creating, tables
<1>6. CASE CreateRegister
  <2>1. Active' \subseteq Active \cup {muJob}
    BY <1>6 DEF CreateRegister, Active, TypeInv, TypeOK
  <2>2. Creating = {muJob} /\ Creating' = {}
    BY <1>6 DEF CreateRegister, Creating
  <2>3. QED
    BY <2>1, <2>2, PlacesOnlyShrink DEF Places
<1>7. QED
  BY <1>1, <1>2, <1>3, <1>4, <1>5, <1>6 DEF CreateJob

(* All other steps keep or give back places; contexts only get cancelled.   *)
LEMMA OtherPlaces ==
    ASSUME TypeInv, TypeInv', AdmissionBound, Next, ~CreateJob
    PROVE  AdmissionBound'
<1>1. CASE CancelJob
  <2>1. Creating = {} /\ Creating' = {}
    BY <1>1 DEF CancelJob, CancelBegin, CancelContext, CancelSave, CancelReturns, Creating
  <2>2. Active' \subseteq Active
    BY <1>1 DEF CancelJob, CancelBegin, CancelContext, CancelSave, CancelReturns, Cancel,
       Active, tables, TypeInv, TypeOK
  <2>3. QED
    BY <2>1, <2>2, PlacesOnlyShrink DEF Places
<1>2. ASSUME NEW j \in Builds, Worker(j)
      PROVE  AdmissionBound'
  <2>1. Creating' = Creating
    BY <1>2 DEF Worker, GiveUpWaiting, Acquire, Recheck, EnterPhase, UpdatePhase,
       WorkerSave, WorkerSaved, WorkDone, PublishArtifact, SmokeTestPasses, WorkFails,
       Release, Finish, CloseLog, CleanIntermediateFiles, Deregister, WorkerPrune,
       WorkersOnly, lock, Creating
  <2>2. context' = context \/ context' = [context EXCEPT ![j] = "none"]
    BY <1>2 DEF Worker, GiveUpWaiting, Acquire, Recheck, EnterPhase, UpdatePhase,
       WorkerSave, WorkerSaved, WorkDone, PublishArtifact, SmokeTestPasses, WorkFails,
       Release, Finish, CloseLog, CleanIntermediateFiles, Deregister, WorkerPrune,
       WorkersOnly, tables
  <2>3. Active' \subseteq Active
    BY <2>2 DEF Active, TypeInv, TypeOK
  <2>4. QED
    BY <2>1, <2>3, PlacesOnlyShrink DEF Places
<1>3. ASSUME NEW j \in Builds, JobTimeout(j)
      PROVE  AdmissionBound'
  <2>1. Creating' = Creating /\ Active' \subseteq Active
    BY <1>3 DEF JobTimeout, Active, Creating, lock, TypeInv, TypeOK
  <2>2. QED
    BY <2>1, PlacesOnlyShrink DEF Places
<1>4. CASE Shutdown
  <2>1. Creating' = Creating
    BY <1>4 DEF Shutdown, ShutdownBegin, ShutdownDone, lock, Creating
  <2>2. Active' \subseteq Active
    BY <1>4 DEF Shutdown, ShutdownBegin, ShutdownDone, Cancel, tables,
       Active, TypeInv, TypeOK
  <2>3. QED
    BY <2>1, <2>2, PlacesOnlyShrink DEF Places
<1>5. CASE Stop
  <2>1. Creating' = {} /\ Active' = {}
    BY <1>5 DEF Stop, Active, Creating
  <2>2. QED
    BY <2>1, PlacesOnlyShrink DEF Places
<1>6. CASE LoadHistoricalJobs \/ StartupPrune \/ Exited
  <2>1. Creating' = Creating /\ Active' = Active
    BY <1>6 DEF LoadHistoricalJobs, StartupPrune, Exited, vars, tables, lock, Active, Creating
  <2>2. QED
    BY <2>1, PlacesOnlyShrink DEF Places
<1>7. QED
  BY <1>1, <1>2, <1>3, <1>4, <1>5, <1>6 DEF Next

(* CreateJob never admits more than MaxConcurrentJobs + MaxQueuedJobs jobs, *)
(* with any number of callers and however jobs end.                         *)
THEOREM AdmissionCorrect == Spec => []AdmissionBound
<1>1. Init => PlacesInv
  <2>1. Init => Active \cup Creating = {}
    BY DEF Init, Active, Creating
  <2>2. QED
    BY <2>1, TypeInit, FS_EmptySet, LimitsAssumption DEF PlacesInv, AdmissionBound
<1>2. PlacesInv /\ [Next]_vars => PlacesInv'
  <2> SUFFICES ASSUME PlacesInv, [Next]_vars PROVE PlacesInv'
    OBVIOUS
  <2>1. TypeInv /\ TypeInv' /\ AdmissionBound
    BY TypeStep DEF PlacesInv
  <2>2. CASE UNCHANGED vars
    BY <2>1, <2>2, PlacesOnlyShrink DEF vars, tables, lock, Places, Active, Creating, PlacesInv
  <2>3. CASE Next
    BY <2>1, <2>3, CreatePlaces, OtherPlaces DEF PlacesInv
  <2>4. QED
    BY <2>2, <2>3
<1>3. PlacesInv => AdmissionBound
  BY DEF PlacesInv
<1>4. QED
  BY <1>1, <1>2, <1>3, PTL DEF Spec

-----------------------------------------------------------------------------
(* The invariant *)

(* A build ID that is not generated yet, or that CreateJob works on, has    *)
(* left nothing in memory or among the cancellations.                       *)
Unborn(j) == jobs[j] = Absent /\ context[j] = "none" /\ worker[j] = "none" /\ j \notin acked
BornInOrder ==
    /\ \A j \in Builds : j > lastID => Unborn(j) /\ meta[j] = Absent
    /\ mu # "free" => muJob <= lastID
    /\ mu \in CreateSteps => Unborn(muJob)

(* A process that does not serve runs no worker, holds no lock and cancels  *)
(* nothing; one that is down remembers nothing.                             *)
Quiet ==
    server # "serving" =>
        /\ mu = "free" /\ metadataMu = NoBuild
        /\ \A j \in Builds : worker[j] = "none" /\ context[j] = "none"
DownIsEmpty == server = "down" => \A j \in Builds : jobs[j] = Absent

(* A worker's job is in the tables until its goroutine has deregistered it. *)
WorkerIsRegistered ==
    \A j \in Builds :
        worker[j] \notin {"none", "prune"} => context[j] # "none" /\ jobs[j] # Absent

(* CancelJob decides the outcome before it does anything else.              *)
CancelSteps == {"cancelContext", "cancelSave", "cancelSaving"}
CancelIsDecided == mu \in CancelSteps => jobs[muJob] = "cancelled"

(* Whoever writes metadata holds metadataMu for its job.                    *)
SaveSteps == {"saving", "recording"}
MuSaveSteps == {"createSaving", "cancelSaving"}
OneWriter ==
    /\ \A j \in Builds : worker[j] \in SaveSteps => metadataMu = j
    /\ mu \in MuSaveSteps => metadataMu = muJob /\ \A j \in Builds : worker[j] \notin SaveSteps

(* The clone of a job whose cancellation is, or may be, acknowledged shows  *)
(* it: no older clone can be on its way to the disk.                        *)
CancelIsWritten ==
    /\ mu = "cancelSaving" => snapshot = "cancelled"
    /\ metadataMu \in acked => snapshot \in {"cancelled", Absent}

LifeParts ==
    /\ BornInOrder /\ Quiet /\ DownIsEmpty /\ WorkerIsRegistered /\ UnfinishedIsActive
    /\ CancelIsDecided /\ OneWriter /\ CancelIsWritten /\ AckedCancelStays

LifeInv == TypeInv /\ LifeParts

LEMMA LifeInit == Init => LifeParts
BY DEF Init, LifeParts, BornInOrder, Unborn, Quiet, DownIsEmpty, WorkerIsRegistered,
   UnfinishedIsActive, Unfinished, Absent, CancelIsDecided, OneWriter, CancelIsWritten,
   AckedCancelStays, CreateSteps, CancelSteps, SaveSteps, MuSaveSteps, NoBuild, Builds

-----------------------------------------------------------------------------
(* Steps of a worker that concern its own goroutine only *)

(* Where an unfinished job's worker cannot be. *)
Ended == {"none", "record", "recording", "close", "clean", "deregister", "prune"}

LEMMA WorkerMoves ==
    ASSUME LifeInv, NEW j \in Builds, NEW step, Goto(j, step),
           UNCHANGED <<server, jobs, context, mu, muJob, metadataMu, snapshot,
                       meta, lastID, acked>>,
           worker[j] \notin {"none", "prune"}, step \notin SaveSteps,
           worker[j] \in Ended \/ step \notin Ended
    PROVE  LifeParts'
<1>1. worker' = [worker EXCEPT ![j] = step] /\ worker \in [Builds -> WorkerSteps]
  BY DEF Goto, LifeInv, TypeInv, TypeOK
<1>2. BornInOrder' /\ Quiet' /\ DownIsEmpty'
  BY <1>1 DEF LifeInv, LifeParts, TypeInv, MuHasJob, BornInOrder, Unborn, Quiet,
     DownIsEmpty, CreateSteps
<1>3. WorkerIsRegistered' /\ UnfinishedIsActive'
  BY <1>1 DEF LifeInv, LifeParts, WorkerIsRegistered, UnfinishedIsActive, Ended
<1>4. OneWriter'
  BY <1>1 DEF LifeInv, LifeParts, OneWriter
<1>5. CancelIsDecided' /\ CancelIsWritten' /\ AckedCancelStays'
  BY DEF LifeInv, LifeParts, CancelIsDecided, CancelIsWritten, AckedCancelStays
<1>6. QED
  BY <1>2, <1>3, <1>4, <1>5 DEF LifeParts

LEMMA QuietWorkerSteps ==
    ASSUME LifeInv, NEW j \in Builds,
           \/ GiveUpWaiting(j) \/ Acquire(j) \/ Recheck(j) \/ EnterPhase(j) \/ WorkDone(j)
           \/ PublishArtifact(j) \/ SmokeTestPasses(j) \/ WorkFails(j) \/ Release(j)
           \/ CloseLog(j) \/ CleanIntermediateFiles(j)
    PROVE  LifeParts'
<1>1. UNCHANGED <<server, jobs, context, mu, muJob, metadataMu, snapshot, meta, lastID, acked>>
  BY DEF GiveUpWaiting, Acquire, Recheck, EnterPhase, WorkDone, PublishArtifact,
     SmokeTestPasses, WorkFails, Release, CloseLog, CleanIntermediateFiles, WorkersOnly,
     service, tables, lock, saving, disk, book
<1>2. \/ /\ worker[j] \in {"waiting", "recheck", "enter", "work", "smoke", "release"}
         /\ \E step \in {"finish", "recheck", "release", "work", "update", "enter", "smoke"} :
               Goto(j, step)
      \/ /\ worker[j] \in {"close", "clean"}
         /\ \E step \in {"clean", "deregister"} : Goto(j, step)
  BY DEF GiveUpWaiting, Acquire, Recheck, EnterPhase, WorkDone, PublishArtifact,
     SmokeTestPasses, WorkFails, Release, CloseLog, CleanIntermediateFiles, At
<1>3. QED
  BY <1>1, <1>2, WorkerMoves DEF SaveSteps, Ended

-----------------------------------------------------------------------------
(* Steps of a worker that concern its job *)

(* setBuildPhase changes the status only while it has no outcome. *)
LEMMA UpdatePhaseKeeps ==
    ASSUME LifeInv, NEW j \in Builds, UpdatePhase(j)
    PROVE  LifeParts'
<1>1. CASE IsTerminal(jobs[j])
  <2>1. /\ UNCHANGED <<server, jobs, context, mu, muJob, metadataMu, snapshot, meta, lastID, acked>>
        /\ worker[j] = "update" /\ Goto(j, "release")
    BY <1>1 DEF UpdatePhase, At, service, lock, saving, disk, book
  <2>2. QED
    BY <2>1, WorkerMoves DEF SaveSteps, Ended
<1>2. CASE ~IsTerminal(jobs[j])
  <2>1. Phases[phase[j]] \in Unfinished
    BY PhasesTyped DEF UpdatePhase, At, LifeInv, TypeInv, TypeOK, PhaseIsSet, InPhase
  <2>2. /\ UNCHANGED <<server, context, mu, muJob, metadataMu, snapshot, meta, lastID, acked>>
        /\ worker[j] = "update" /\ worker' = [worker EXCEPT ![j] = "save"]
        /\ jobs' = [jobs EXCEPT ![j] = Phases[phase[j]]]
    BY <1>2 DEF UpdatePhase, At, Goto, service, lock, saving, disk, book
  <2>3. /\ jobs \in [Builds -> Statuses] /\ worker \in [Builds -> WorkerSteps]
        /\ jobs[j] \notin {"cancelled", Absent}
    BY <1>2, <2>2 DEF LifeInv, LifeParts, TypeInv, TypeOK, WorkerIsRegistered, IsTerminal,
       Terminal
  <2>4. BornInOrder' /\ Quiet' /\ DownIsEmpty'
    BY <2>2, <2>3 DEF LifeInv, LifeParts, TypeInv, MuHasJob, BornInOrder, Unborn, Quiet,
       DownIsEmpty, CreateSteps
  <2>5. WorkerIsRegistered' /\ UnfinishedIsActive'
    BY <2>1, <2>2, <2>3 DEF LifeInv, LifeParts, WorkerIsRegistered, UnfinishedIsActive,
       Unfinished, Absent
  <2>6. OneWriter'
    BY <2>2, <2>3 DEF LifeInv, LifeParts, OneWriter, SaveSteps
  <2>7. CancelIsDecided' /\ CancelIsWritten' /\ AckedCancelStays'
    BY <2>2, <2>3 DEF LifeInv, LifeParts, TypeInv, MuHasJob, CancelSteps, CancelIsDecided,
       CancelIsWritten, AckedCancelStays
  <2>8. QED
    BY <2>4, <2>5, <2>6, <2>7 DEF LifeParts
<1>3. QED
  BY <1>1, <1>2

(* The final defer decides an outcome only where there is none. *)
LEMMA FinishKeeps ==
    ASSUME LifeInv, NEW j \in Builds, Finish(j)
    PROVE  LifeParts'
<1>1. /\ UNCHANGED <<server, context, mu, muJob, metadataMu, snapshot, meta, lastID, acked>>
      /\ worker[j] = "finish" /\ worker' = [worker EXCEPT ![j] = "record"]
      /\ jobs' = [jobs EXCEPT ![j] = IF IsTerminal(jobs[j]) THEN jobs[j] ELSE Outcome(j)]
  BY DEF Finish, At, Goto, service, lock, saving, disk, book
<1>2. /\ jobs \in [Builds -> Statuses] /\ worker \in [Builds -> WorkerSteps]
      /\ jobs[j] # Absent /\ context[j] # "none"
  BY <1>1 DEF LifeInv, LifeParts, TypeInv, TypeOK, WorkerIsRegistered
<1>3. jobs'[j] \in Terminal /\ (jobs[j] = "cancelled" => jobs'[j] = "cancelled")
  BY <1>1, <1>2 DEF IsTerminal, Terminal, Outcome
<1>4. BornInOrder' /\ Quiet' /\ DownIsEmpty'
  BY <1>1, <1>2 DEF LifeInv, LifeParts, TypeInv, MuHasJob, BornInOrder, Unborn, Quiet,
     DownIsEmpty, CreateSteps
<1>5. WorkerIsRegistered' /\ UnfinishedIsActive'
  BY <1>1, <1>2, <1>3 DEF LifeInv, LifeParts, WorkerIsRegistered, UnfinishedIsActive,
     Unfinished, Terminal, Absent
<1>6. OneWriter'
  BY <1>1, <1>2 DEF LifeInv, LifeParts, OneWriter, SaveSteps
<1>7. CancelIsDecided' /\ CancelIsWritten' /\ AckedCancelStays'
  BY <1>1, <1>2, <1>3 DEF LifeInv, LifeParts, TypeInv, MuHasJob, CancelSteps,
     CancelIsDecided, CancelIsWritten, AckedCancelStays
<1>8. QED
  BY <1>4, <1>5, <1>6, <1>7 DEF LifeParts

(* A save of the worker clones the job under metadataMu ... *)
LEMMA WorkerSaveKeeps ==
    ASSUME LifeInv, NEW j \in Builds, WorkerSave(j)
    PROVE  LifeParts'
<1>1. /\ UNCHANGED <<server, context, jobs, mu, muJob, meta, lastID, acked>>
      /\ metadataMu = NoBuild /\ metadataMu' = j /\ snapshot' = jobs[j]
      /\ \/ worker[j] = "save" /\ worker' = [worker EXCEPT ![j] = "saving"]
         \/ worker[j] = "record" /\ worker' = [worker EXCEPT ![j] = "recording"]
  BY DEF WorkerSave, SaveBegin, At, Goto, service, tables, lock, disk, book
<1>2. worker \in [Builds -> WorkerSteps] /\ j # NoBuild /\ muJob \in Builds \cup {NoBuild}
  BY DEF LifeInv, TypeInv, TypeOK, Builds, NoBuild
<1>3. BornInOrder' /\ Quiet' /\ DownIsEmpty'
  BY <1>1, <1>2 DEF LifeInv, LifeParts, TypeInv, MuHasJob, BornInOrder, Unborn, Quiet,
     DownIsEmpty, CreateSteps
<1>4. WorkerIsRegistered' /\ UnfinishedIsActive'
  BY <1>1, <1>2 DEF LifeInv, LifeParts, WorkerIsRegistered, UnfinishedIsActive
<1>5. mu \notin MuSaveSteps /\ \A k \in Builds : worker[k] \notin SaveSteps
  BY <1>1 DEF LifeInv, LifeParts, TypeInv, MuHasJob, OneWriter, MuSaveSteps, Builds, NoBuild
<1>6. OneWriter'
  BY <1>1, <1>2, <1>5 DEF OneWriter
<1>7. CancelIsDecided' /\ CancelIsWritten' /\ AckedCancelStays'
  BY <1>1, <1>5 DEF LifeInv, LifeParts, CancelIsDecided, CancelIsWritten, AckedCancelStays,
     MuSaveSteps
<1>8. QED
  BY <1>3, <1>4, <1>6, <1>7 DEF LifeParts

(* ... and puts that clone on disk, or leaves the record. *)
LEMMA WorkerSavedKeeps ==
    ASSUME LifeInv, NEW j \in Builds, WorkerSaved(j)
    PROVE  LifeParts'
<1>1. /\ UNCHANGED <<server, context, jobs, mu, muJob, lastID, acked>>
      /\ metadataMu' = NoBuild /\ snapshot' = Absent
      /\ meta' \in {meta, [meta EXCEPT ![j] = snapshot]}
      /\ \/ worker[j] = "saving" /\ worker' = [worker EXCEPT ![j] = "work"]
         \/ worker[j] = "recording" /\ worker' = [worker EXCEPT ![j] = "close"]
  BY DEF WorkerSaved, SaveOK, SaveError, At, Goto, service, tables, lock
<1>2. /\ worker \in [Builds -> WorkerSteps] /\ meta \in [Builds -> Statuses]
      /\ metadataMu = j
      /\ j \in Builds /\ j # NoBuild /\ acked \subseteq Builds
  BY <1>1 DEF LifeInv, LifeParts, TypeInv, TypeOK, OneWriter, SaveSteps, Builds, NoBuild
<1>3. BornInOrder' /\ Quiet' /\ DownIsEmpty'
  BY <1>1, <1>2 DEF LifeInv, LifeParts, TypeInv, MuHasJob, BornInOrder, Unborn, Quiet,
     DownIsEmpty, CreateSteps
<1>4. WorkerIsRegistered' /\ UnfinishedIsActive'
  BY <1>1, <1>2 DEF LifeInv, LifeParts, WorkerIsRegistered, UnfinishedIsActive
<1>5. mu \notin MuSaveSteps /\ \A k \in Builds \ {j} : worker[k] \notin SaveSteps
  BY <1>1, <1>2 DEF LifeInv, LifeParts, OneWriter, SaveSteps
<1>6. OneWriter'
  BY <1>1, <1>2, <1>5 DEF OneWriter, SaveSteps
<1>7. CancelIsDecided'
  BY <1>1 DEF LifeInv, LifeParts, CancelIsDecided
<1>8. CancelIsWritten' /\ AckedCancelStays'
  BY <1>1, <1>2, <1>5 DEF LifeInv, LifeParts, CancelIsWritten, AckedCancelStays, MuSaveSteps
<1>9. QED
  BY <1>3, <1>4, <1>6, <1>7, <1>8 DEF LifeParts

(* The job leaves cancelFuncs only after all that. *)
LEMMA DeregisterKeeps ==
    ASSUME LifeInv, NEW j \in Builds, Deregister(j)
    PROVE  LifeParts'
<1>1. /\ UNCHANGED <<server, jobs, mu, muJob, metadataMu, snapshot, meta, lastID, acked>>
      /\ worker[j] = "deregister" /\ worker' = [worker EXCEPT ![j] = "prune"]
      /\ context' = [context EXCEPT ![j] = "none"]
  BY DEF Deregister, At, Goto, service, lock, saving, disk, book
<1>2. /\ worker \in [Builds -> WorkerSteps]
      /\ context \in [Builds -> {"none", "live", "canceled", "deadline"}]
  BY DEF LifeInv, TypeInv, TypeOK
<1>3. BornInOrder' /\ Quiet' /\ DownIsEmpty'
  BY <1>1, <1>2 DEF LifeInv, LifeParts, TypeInv, MuHasJob, BornInOrder, Unborn, Quiet,
     DownIsEmpty, CreateSteps
<1>4. WorkerIsRegistered' /\ UnfinishedIsActive'
  BY <1>1, <1>2 DEF LifeInv, LifeParts, WorkerIsRegistered, UnfinishedIsActive
<1>5. OneWriter'
  BY <1>1, <1>2 DEF LifeInv, LifeParts, OneWriter, SaveSteps
<1>6. CancelIsDecided' /\ CancelIsWritten' /\ AckedCancelStays'
  BY <1>1 DEF LifeInv, LifeParts, CancelIsDecided, CancelIsWritten, AckedCancelStays
<1>7. QED
  BY <1>3, <1>4, <1>5, <1>6 DEF LifeParts

-----------------------------------------------------------------------------
(* PruneOldBuilds: only jobs with an outcome and without a context go.      *)

PruneSpares(j) ==
    \/ jobs'[j] = jobs[j]
    \/ /\ jobs'[j] = Absent
       /\ context[j] = "none" /\ IsTerminal(jobs[j])

LEMMA PruneTakesEnded ==
    ASSUME PruneOldBuilds
    PROVE  \A j \in Builds : PruneSpares(j) /\ meta'[j] \in {meta[j], Absent}
<1>1. ASSUME NEW gone, Forget(gone), gone \subseteq Excess, NEW j \in Builds
      PROVE  PruneSpares(j)
  BY <1>1 DEF PruneSpares, Forget, Excess, Candidates, Active
<1>2. \A records, scratches, archives : RemoveFiles(records, scratches, archives) =>
          \A j \in Builds : meta'[j] \in {meta[j], Absent}
  BY DEF RemoveFiles
<1>3. \E gone : Forget(gone) /\ gone \subseteq Excess
  BY DEF PruneOldBuilds
<1>4. \E records, scratches, archives : RemoveFiles(records, scratches, archives)
  BY DEF PruneOldBuilds
<1>5. QED
  BY <1>1, <1>2, <1>3, <1>4

LEMMA WorkerPruneKeeps ==
    ASSUME LifeInv, NEW j \in Builds, WorkerPrune(j)
    PROVE  LifeParts'
<1>1. /\ UNCHANGED <<server, context, mu, muJob, metadataMu, snapshot, lastID, acked>>
      /\ mu = "free" /\ worker[j] = "prune" /\ worker' = [worker EXCEPT ![j] = "none"]
      /\ PruneOldBuilds
  BY DEF WorkerPrune, At, Goto, service, lock, saving
<1>2. worker \in [Builds -> WorkerSteps]
  BY DEF LifeInv, TypeInv, TypeOK
<1>3. \A k \in Builds : PruneSpares(k) /\ meta'[k] \in {meta[k], Absent}
  BY <1>1, PruneTakesEnded
<1>4. BornInOrder' /\ Quiet' /\ DownIsEmpty'
  BY <1>1, <1>2, <1>3 DEF PruneSpares, LifeInv, LifeParts, BornInOrder, Unborn, Quiet, DownIsEmpty,
     CreateSteps
<1>5. WorkerIsRegistered' /\ UnfinishedIsActive'
  BY <1>1, <1>2, <1>3 DEF PruneSpares, LifeInv, LifeParts, WorkerIsRegistered, UnfinishedIsActive,
     Unfinished, Terminal, IsTerminal, Absent
<1>6. OneWriter'
  BY <1>1, <1>2 DEF LifeInv, LifeParts, OneWriter, SaveSteps
<1>7. CancelIsDecided' /\ CancelIsWritten' /\ AckedCancelStays'
  BY <1>1, <1>3 DEF PruneSpares, IsTerminal, Terminal, LifeInv, LifeParts, TypeInv, TypeOK, CancelSteps, CancelIsDecided,
     CancelIsWritten, AckedCancelStays
<1>8. QED
  BY <1>4, <1>5, <1>6, <1>7 DEF LifeParts

LEMMA WorkerKeeps ==
    ASSUME LifeInv, NEW j \in Builds, Worker(j)
    PROVE  LifeParts'
BY QuietWorkerSteps, UpdatePhaseKeeps, FinishKeeps, WorkerSaveKeeps, WorkerSavedKeeps,
   DeregisterKeeps, WorkerPruneKeeps DEF Worker

-----------------------------------------------------------------------------
(* The handlers *)

LEMMA CreateKeeps ==
    ASSUME LifeInv, CreateJob
    PROVE  LifeParts'
<1>0. /\ lastID \in Nat /\ \A k \in Builds : k \in Nat \ {0}
      /\ jobs \in [Builds -> Statuses] /\ meta \in [Builds -> Statuses]
      /\ context \in [Builds -> {"none", "live", "canceled", "deadline"}]
      /\ worker \in [Builds -> WorkerSteps] /\ acked \subseteq Builds
  BY LimitsAssumption DEF LifeInv, TypeInv, TypeOK, Builds
<1>1. CASE CreateBegin \/ CreateFails
  <2>1. /\ UNCHANGED <<server, jobs, context, worker, metadataMu, snapshot, meta, acked>>
        /\ server = "serving" /\ mu = "free" /\ lastID' = lastID + 1 /\ lastID + 1 \in Builds
        /\ \/ mu' = "createSave" /\ muJob' = lastID + 1
           \/ UNCHANGED <<mu, muJob>>
    BY <1>0, <1>1, LimitsAssumption DEF CreateBegin, CreateFails, Admits, Serving, Builds,
       service, tables, workers, lock, saving
  <2>2. Unborn(lastID + 1)
    BY <1>0, <2>1 DEF LifeInv, LifeParts, BornInOrder
  <2>3. BornInOrder'
    BY <1>0, <2>1, <2>2 DEF LifeInv, LifeParts, BornInOrder, Unborn, CreateSteps
  <2>4. Quiet' /\ DownIsEmpty' /\ WorkerIsRegistered' /\ UnfinishedIsActive'
    BY <2>1 DEF LifeInv, LifeParts, Quiet, DownIsEmpty, WorkerIsRegistered, UnfinishedIsActive
  <2>5. CancelIsDecided' /\ OneWriter' /\ CancelIsWritten' /\ AckedCancelStays'
    BY <2>1 DEF LifeInv, LifeParts, CancelIsDecided, OneWriter, CancelIsWritten,
       AckedCancelStays, CancelSteps, MuSaveSteps
  <2>6. QED
    BY <2>3, <2>4, <2>5 DEF LifeParts
<1>2. CASE CreateSave
  <2>1. /\ UNCHANGED <<server, jobs, context, worker, muJob, meta, lastID, acked>>
        /\ mu = "createSave" /\ mu' = "createSaving" /\ metadataMu = NoBuild
        /\ metadataMu' = muJob /\ snapshot' = "queued" /\ muJob \in Builds
    BY <1>2 DEF CreateSave, SaveBegin, service, tables, workers, disk, book, LifeInv,
       TypeInv, MuHasJob
  <2>2. BornInOrder' /\ Quiet' /\ DownIsEmpty' /\ WorkerIsRegistered' /\ UnfinishedIsActive'
    BY <2>1 DEF LifeInv, LifeParts, BornInOrder, Unborn, CreateSteps, Quiet, DownIsEmpty,
       WorkerIsRegistered, UnfinishedIsActive
  <2>3. OneWriter'
    BY <2>1 DEF LifeInv, LifeParts, OneWriter, MuSaveSteps, Builds, NoBuild
  <2>4. muJob \notin acked
    BY <2>1 DEF LifeInv, LifeParts, BornInOrder, Unborn, CreateSteps
  <2>5. CancelIsDecided' /\ CancelIsWritten' /\ AckedCancelStays'
    BY <2>1, <2>4 DEF LifeInv, LifeParts, CancelIsDecided, CancelIsWritten, AckedCancelStays,
       CancelSteps
  <2>6. QED
    BY <2>2, <2>3, <2>5 DEF LifeParts
<1>3. CASE CreateSaved \/ CreateAborts
  <2>1. /\ UNCHANGED <<server, jobs, context, worker, lastID, acked>>
        /\ mu = "createSaving" /\ metadataMu' = NoBuild /\ muJob \in Builds
        /\ \/ mu' = "createRegister" /\ muJob' = muJob
           \/ mu' = "free"
        /\ meta' \in {meta, [meta EXCEPT ![muJob] = snapshot]}
    BY <1>3 DEF CreateSaved, CreateAborts, SaveOK, service, tables, workers, disk, book,
       LifeInv, TypeInv, MuHasJob
  <2>2. muJob <= lastID /\ Unborn(muJob)
    BY <2>1 DEF LifeInv, LifeParts, BornInOrder, CreateSteps
  <2>3. BornInOrder'
    BY <1>0, <2>1, <2>2 DEF LifeInv, LifeParts, BornInOrder, Unborn, CreateSteps
  <2>4. Quiet' /\ DownIsEmpty' /\ WorkerIsRegistered' /\ UnfinishedIsActive'
    BY <2>1 DEF LifeInv, LifeParts, Quiet, DownIsEmpty, WorkerIsRegistered, UnfinishedIsActive
  <2>5. OneWriter'
    BY <2>1 DEF LifeInv, LifeParts, OneWriter, MuSaveSteps
  <2>6. CancelIsDecided' /\ CancelIsWritten' /\ AckedCancelStays'
    BY <1>0, <2>1, <2>2 DEF LifeInv, LifeParts, TypeInv, TypeOK, Builds, NoBuild, Unborn,
       CancelIsDecided, CancelIsWritten, AckedCancelStays, CancelSteps
  <2>7. QED
    BY <2>3, <2>4, <2>5, <2>6 DEF LifeParts
<1>4. CASE CreateRegister
  <2>1. /\ UNCHANGED <<server, metadataMu, snapshot, meta, lastID, acked>>
        /\ mu = "createRegister" /\ mu' = "free" /\ muJob \in Builds
        /\ jobs' = [jobs EXCEPT ![muJob] = "queued"]
        /\ context' = [context EXCEPT ![muJob] = "live"]
        /\ worker' = [worker EXCEPT ![muJob] = "waiting"]
    BY <1>4 DEF CreateRegister, service, saving, disk, book, LifeInv, TypeInv, MuHasJob
  <2>2. muJob <= lastID /\ Unborn(muJob) /\ server = "serving"
    BY <2>1 DEF LifeInv, LifeParts, BornInOrder, CreateSteps, Quiet
  <2>3. BornInOrder'
    BY <1>0, <2>1, <2>2 DEF LifeInv, LifeParts, TypeInv, TypeOK, BornInOrder, Unborn, CreateSteps
  <2>4. Quiet' /\ DownIsEmpty'
    BY <2>1, <2>2 DEF Quiet, DownIsEmpty
  <2>5. WorkerIsRegistered' /\ UnfinishedIsActive'
    BY <1>0, <2>1 DEF LifeInv, LifeParts, WorkerIsRegistered, UnfinishedIsActive, Absent
  <2>6. OneWriter'
    BY <1>0, <2>1 DEF LifeInv, LifeParts, OneWriter, SaveSteps, MuSaveSteps
  <2>7. CancelIsDecided' /\ CancelIsWritten' /\ AckedCancelStays'
    BY <1>0, <2>1, <2>2 DEF LifeInv, LifeParts, Unborn, CancelIsDecided, CancelIsWritten,
       AckedCancelStays, CancelSteps
  <2>8. QED
    BY <2>3, <2>4, <2>5, <2>6, <2>7 DEF LifeParts
<1>5. QED
  BY <1>1, <1>2, <1>3, <1>4 DEF CreateJob

LEMMA CancelKeeps ==
    ASSUME LifeInv, CancelJob
    PROVE  LifeParts'
<1>0. /\ jobs \in [Builds -> Statuses] /\ meta \in [Builds -> Statuses]
      /\ context \in [Builds -> {"none", "live", "canceled", "deadline"}]
      /\ acked \subseteq Builds /\ NoBuild \notin Builds
      /\ lastID \in Nat /\ \A k \in Builds : k \in Nat
  BY LimitsAssumption DEF LifeInv, TypeInv, TypeOK, Builds, NoBuild
<1>1. ASSUME NEW j \in Builds, CancelBegin(j)
      PROVE  LifeParts'
  <2>1. /\ UNCHANGED <<server, context, worker, metadataMu, snapshot, meta, lastID, acked>>
        /\ server = "serving" /\ mu = "free" /\ mu' = "cancelContext" /\ muJob' = j
        /\ jobs[j] \in Unfinished /\ jobs' = [jobs EXCEPT ![j] = "cancelled"]
    BY <1>1 DEF CancelBegin, Serving, service, workers, saving, disk, book
  <2>2. ~(j > lastID)
    BY <2>1 DEF LifeInv, LifeParts, BornInOrder, Unborn, Unfinished, Absent
  <2>3. j <= lastID
    BY <1>0, <2>2
  <2>4. BornInOrder'
    BY <1>0, <2>1, <2>3 DEF LifeInv, LifeParts, BornInOrder, Unborn, CreateSteps
  <2>5. Quiet' /\ DownIsEmpty'
    BY <2>1 DEF Quiet, DownIsEmpty
  <2>6. WorkerIsRegistered' /\ UnfinishedIsActive'
    BY <1>0, <2>1 DEF LifeInv, LifeParts, WorkerIsRegistered, UnfinishedIsActive,
       Unfinished, Absent
  <2>7. CancelIsDecided' /\ OneWriter' /\ CancelIsWritten' /\ AckedCancelStays'
    BY <1>0, <2>1 DEF LifeInv, LifeParts, CancelIsDecided, OneWriter, CancelIsWritten,
       AckedCancelStays, MuSaveSteps
  <2>8. QED
    BY <2>4, <2>5, <2>6, <2>7 DEF LifeParts
<1>2. CASE CancelContext
  <2>1. /\ UNCHANGED <<server, jobs, worker, muJob, metadataMu, snapshot, meta, lastID, acked>>
        /\ mu = "cancelContext" /\ mu' = "cancelSave"
        /\ \A j \in Builds : (context'[j] = "none") <=> (context[j] = "none")
    BY <1>0, <1>2 DEF CancelContext, Cancel, service, workers, saving, disk, book
  <2>2. BornInOrder' /\ Quiet' /\ DownIsEmpty'
    BY <2>1 DEF LifeInv, LifeParts, BornInOrder, Unborn, CreateSteps, Quiet, DownIsEmpty
  <2>3. WorkerIsRegistered' /\ UnfinishedIsActive'
    BY <2>1 DEF LifeInv, LifeParts, WorkerIsRegistered, UnfinishedIsActive
  <2>4. CancelIsDecided' /\ OneWriter' /\ CancelIsWritten' /\ AckedCancelStays'
    BY <2>1 DEF LifeInv, LifeParts, CancelIsDecided, OneWriter, CancelIsWritten,
       AckedCancelStays, MuSaveSteps, CancelSteps
  <2>5. QED
    BY <2>2, <2>3, <2>4 DEF LifeParts
<1>3. CASE CancelSave
  <2>1. /\ UNCHANGED <<server, jobs, context, worker, muJob, meta, lastID, acked>>
        /\ mu = "cancelSave" /\ mu' = "cancelSaving" /\ metadataMu = NoBuild
        /\ metadataMu' = muJob /\ snapshot' = jobs[muJob] /\ muJob \in Builds
    BY <1>3 DEF CancelSave, SaveBegin, service, tables, workers, disk, book, LifeInv,
       TypeInv, MuHasJob
  <2>2. BornInOrder' /\ Quiet' /\ DownIsEmpty' /\ WorkerIsRegistered' /\ UnfinishedIsActive'
    BY <2>1 DEF LifeInv, LifeParts, BornInOrder, Unborn, CreateSteps, Quiet, DownIsEmpty,
       WorkerIsRegistered, UnfinishedIsActive
  <2>3. OneWriter'
    BY <2>1 DEF LifeInv, LifeParts, OneWriter, MuSaveSteps, Builds, NoBuild
  <2>4. CancelIsDecided' /\ CancelIsWritten' /\ AckedCancelStays'
    BY <2>1 DEF LifeInv, LifeParts, CancelIsDecided, CancelIsWritten, AckedCancelStays,
       CancelSteps
  <2>5. QED
    BY <2>2, <2>3, <2>4 DEF LifeParts
<1>4. CASE CancelReturns
  <2>1. /\ UNCHANGED <<server, jobs, context, worker, lastID>>
        /\ mu = "cancelSaving" /\ mu' = "free" /\ metadataMu' = NoBuild /\ muJob \in Builds
        /\ \/ meta' = [meta EXCEPT ![muJob] = snapshot] /\ acked' = acked \cup {muJob}
           \/ meta' = meta /\ acked' = acked
    BY <1>4 DEF CancelReturns, SaveOK, SaveError, service, tables, workers, LifeInv,
       TypeInv, MuHasJob
  <2>2. snapshot = "cancelled" /\ jobs[muJob] = "cancelled" /\ muJob <= lastID
    BY <2>1 DEF LifeInv, LifeParts, BornInOrder, CancelIsWritten, CancelIsDecided, CancelSteps
  <2>3. BornInOrder'
    BY <1>0, <2>1, <2>2, LimitsAssumption DEF LifeInv, LifeParts, TypeInv, TypeOK, Builds,
       BornInOrder, Unborn, CreateSteps
  <2>4. Quiet' /\ DownIsEmpty' /\ WorkerIsRegistered' /\ UnfinishedIsActive'
    BY <2>1 DEF LifeInv, LifeParts, Quiet, DownIsEmpty, WorkerIsRegistered, UnfinishedIsActive
  <2>5. OneWriter'
    BY <2>1 DEF LifeInv, LifeParts, OneWriter, MuSaveSteps
  <2>6. CancelIsDecided' /\ CancelIsWritten'
    BY <1>0, <2>1 DEF CancelIsDecided, CancelIsWritten, CancelSteps
  <2>7. AckedCancelStays'
    BY <1>0, <2>1, <2>2 DEF LifeInv, LifeParts, AckedCancelStays
  <2>8. QED
    BY <2>3, <2>4, <2>5, <2>6, <2>7 DEF LifeParts
<1>5. QED
  BY <1>1, <1>2, <1>3, <1>4 DEF CancelJob

-----------------------------------------------------------------------------
(* Timers, Shutdown and the process *)

LEMMA ContextsOnlyEnd ==
    ASSUME LifeInv, (\E j \in Builds : JobTimeout(j)) \/ Shutdown
    PROVE  LifeParts'
<1>0. /\ context \in [Builds -> {"none", "live", "canceled", "deadline"}]
      /\ mu # "free" => muJob \in Builds
  BY DEF LifeInv, TypeInv, TypeOK, MuHasJob
<1>1. /\ UNCHANGED <<server, jobs, worker, mu, muJob, metadataMu, snapshot, meta, lastID, acked>>
      /\ \A j \in Builds : (context'[j] = "none") <=> (context[j] = "none")
  <2>1. ASSUME NEW j \in Builds, JobTimeout(j)
        PROVE  <1>1!:
    BY <1>0, <2>1 DEF JobTimeout, service, workers, lock, saving, disk, book
  <2>2. CASE ShutdownBegin
    BY <1>0, <2>2 DEF ShutdownBegin, Cancel, workers, lock, saving, disk, book
  <2>3. CASE ShutdownDone
    BY <2>3 DEF ShutdownDone, tables, workers, lock, saving, disk, book
  <2>4. QED
    BY <2>1, <2>2, <2>3 DEF Shutdown
<1>2. BornInOrder' /\ Quiet' /\ DownIsEmpty'
  BY <1>0, <1>1 DEF LifeInv, LifeParts, BornInOrder, Unborn, CreateSteps, Quiet, DownIsEmpty
<1>3. WorkerIsRegistered' /\ UnfinishedIsActive'
  BY <1>1 DEF LifeInv, LifeParts, WorkerIsRegistered, UnfinishedIsActive
<1>4. CancelIsDecided' /\ OneWriter' /\ CancelIsWritten' /\ AckedCancelStays'
  BY <1>1 DEF LifeInv, LifeParts, CancelIsDecided, OneWriter, CancelIsWritten,
     AckedCancelStays
<1>5. QED
  BY <1>2, <1>3, <1>4 DEF LifeParts

LEMMA ProcessKeeps ==
    ASSUME LifeInv, Stop \/ LoadHistoricalJobs \/ StartupPrune
    PROVE  LifeParts'
<1>1. CASE Stop
  <2>1. /\ UNCHANGED <<meta, lastID, acked>>
        /\ mu' = "free" /\ metadataMu' = NoBuild /\ snapshot' = Absent
        /\ \A j \in Builds : jobs'[j] = Absent /\ context'[j] = "none" /\ worker'[j] = "none"
    BY <1>1 DEF Stop, disk
  <2>2. BornInOrder'
    BY <2>1 DEF LifeInv, LifeParts, BornInOrder, Unborn, CreateSteps
  <2>3. Quiet' /\ DownIsEmpty' /\ WorkerIsRegistered' /\ UnfinishedIsActive'
    BY <2>1 DEF Quiet, DownIsEmpty, WorkerIsRegistered, UnfinishedIsActive, Unfinished, Absent
  <2>4. CancelIsDecided' /\ OneWriter' /\ CancelIsWritten' /\ AckedCancelStays'
    BY <2>1 DEF LifeInv, LifeParts, TypeInv, TypeOK, CancelIsDecided, OneWriter,
       CancelIsWritten, AckedCancelStays, CancelSteps, SaveSteps, MuSaveSteps
  <2>5. QED
    BY <2>2, <2>3, <2>4 DEF LifeParts
<1>2. CASE LoadHistoricalJobs
  <2>1. /\ UNCHANGED <<context, worker, mu, muJob, metadataMu, snapshot, lastID, acked>>
        /\ server = "down" /\ server' = "loading"
        /\ \A j \in Builds : jobs'[j] = Restored(meta[j])
        /\ \A j \in Builds : meta'[j] \in {meta[j], Restored(meta[j])}
    BY <1>2 DEF LoadHistoricalJobs, workers, lock, saving
  <2>2. /\ mu = "free" /\ metadataMu = NoBuild
        /\ \A j \in Builds : worker[j] = "none" /\ context[j] = "none"
    BY <2>1 DEF LifeInv, LifeParts, Quiet
  <2>3. \A j \in Builds : /\ Restored(meta[j]) \notin Unfinished
                          /\ meta[j] \in {"cancelled", Absent} => Restored(meta[j]) = meta[j]
    BY DEF Restored, Unfinished, Absent
  <2>4. BornInOrder' /\ Quiet' /\ DownIsEmpty'
    BY <2>1, <2>2, <2>3 DEF LifeInv, LifeParts, BornInOrder, Unborn, CreateSteps, Quiet,
       DownIsEmpty
  <2>5. WorkerIsRegistered' /\ UnfinishedIsActive'
    BY <2>1, <2>2, <2>3 DEF WorkerIsRegistered, UnfinishedIsActive
  <2>6. CancelIsDecided' /\ OneWriter' /\ CancelIsWritten'
    BY <2>1, <2>2 DEF LifeInv, LifeParts, CancelIsDecided, OneWriter, CancelIsWritten,
       CancelSteps, MuSaveSteps
  <2>7. AckedCancelStays'
    BY <2>1, <2>3 DEF LifeInv, LifeParts, TypeInv, TypeOK, AckedCancelStays
  <2>8. QED
    BY <2>4, <2>5, <2>6, <2>7 DEF LifeParts
<1>3. CASE StartupPrune
  <2>1. /\ UNCHANGED <<context, worker, mu, muJob, metadataMu, snapshot, lastID, acked>>
        /\ server = "loading" /\ server' = "serving" /\ PruneOldBuilds
    BY <1>3 DEF StartupPrune, workers, lock, saving
  <2>2. \A j \in Builds : PruneSpares(j) /\ meta'[j] \in {meta[j], Absent}
    BY <2>1, PruneTakesEnded
  <2>3. mu = "free" /\ \A j \in Builds : worker[j] = "none"
    BY <2>1 DEF LifeInv, LifeParts, Quiet
  <2>4. BornInOrder' /\ Quiet' /\ DownIsEmpty'
    BY <2>1, <2>2, <2>3 DEF PruneSpares, LifeInv, LifeParts, BornInOrder, Unborn,
       CreateSteps, Quiet, DownIsEmpty
  <2>5. WorkerIsRegistered' /\ UnfinishedIsActive'
    BY <2>1, <2>2, <2>3 DEF PruneSpares, LifeInv, LifeParts, WorkerIsRegistered,
       UnfinishedIsActive, Unfinished, Absent
  <2>6. CancelIsDecided' /\ OneWriter' /\ CancelIsWritten' /\ AckedCancelStays'
    BY <2>1, <2>2, <2>3 DEF PruneSpares, LifeInv, LifeParts, TypeInv, TypeOK,
       CancelIsDecided, OneWriter, CancelIsWritten, AckedCancelStays, CancelSteps
  <2>7. QED
    BY <2>4, <2>5, <2>6 DEF LifeParts
<1>4. QED
  BY <1>1, <1>2, <1>3

-----------------------------------------------------------------------------
(* The theorems *)

LEMMA LifeStep == LifeInv /\ [Next]_vars => LifeInv'
<1> SUFFICES ASSUME LifeInv, [Next]_vars PROVE LifeInv'
  OBVIOUS
<1>1. TypeInv'
  BY TypeStep DEF LifeInv
<1>2. CASE UNCHANGED vars
  <2>1. UNCHANGED <<server, jobs, context, worker, mu, muJob, metadataMu, snapshot, meta,
                    lastID, acked>>
    BY <1>2 DEF vars, service, tables, workers, lock, saving, disk, book
  <2>2. BornInOrder' /\ Quiet' /\ DownIsEmpty' /\ WorkerIsRegistered' /\ UnfinishedIsActive'
    BY <2>1 DEF LifeInv, LifeParts, BornInOrder, Unborn, CreateSteps, Quiet, DownIsEmpty,
       WorkerIsRegistered, UnfinishedIsActive
  <2>3. CancelIsDecided' /\ OneWriter' /\ CancelIsWritten' /\ AckedCancelStays'
    BY <2>1 DEF LifeInv, LifeParts, CancelIsDecided, OneWriter, CancelIsWritten,
       AckedCancelStays
  <2>4. QED
    BY <1>1, <2>2, <2>3 DEF LifeInv, LifeParts
<1>3. CASE Next /\ ~UNCHANGED vars
  <2>1. LifeParts'
    BY <1>3, CreateKeeps, CancelKeeps, WorkerKeeps, ContextsOnlyEnd, ProcessKeeps
    DEF Next, Exited
  <2>2. QED
    BY <1>1, <2>1 DEF LifeInv
<1>4. QED
  BY <1>2, <1>3

(* What the tables, locks and clones of a build agree on holds always.     *)
THEOREM LifeCorrect == Spec => []LifeInv
BY TypeInit, LifeInit, LifeStep, PTL DEF Spec, LifeInv

(* A job without outcome has its context in cancelFuncs and a worker that   *)
(* has not yet decided: CancelJob, the timeout and Shutdown still reach it. *)
THEOREM UnfinishedJobsAreActive == Spec => []UnfinishedIsActive
<1>1. LifeInv => UnfinishedIsActive
  BY DEF LifeInv, LifeParts
<1>2. QED
  BY <1>1, LifeCorrect, PTL

(* A cancellation CancelJob has answered with nil is never taken back, by   *)
(* the worker's end, by a save that was under way, or by a restart.         *)
THEOREM CancellationsStay == Spec => []AckedCancelStays
<1>1. LifeInv => AckedCancelStays
  BY DEF LifeInv, LifeParts
<1>2. QED
  BY <1>1, LifeCorrect, PTL

(* No step of the process that decided an outcome replaces it: setBuildPhase *)
(* and the final defer look at the status under the lock of the job, and    *)
(* registering and loading only add jobs.                                   *)
OutcomesKept == \A j \in Builds : IsTerminal(jobs[j]) => jobs'[j] \in {jobs[j], Absent}

LEMMA OutcomeStep == LifeInv /\ [Next]_vars => OutcomesKept
<1> SUFFICES ASSUME LifeInv, [Next]_vars PROVE OutcomesKept
  OBVIOUS
<1>1. jobs \in [Builds -> Statuses]
  BY DEF LifeInv, TypeInv, TypeOK
<1>2. CASE jobs' = jobs
  BY <1>2 DEF OutcomesKept
<1>3. CASE CreateRegister
  <2>1. jobs[muJob] = Absent
    BY <1>3 DEF CreateRegister, CreateSteps, LifeInv, LifeParts, BornInOrder, Unborn
  <2>2. QED
    BY <1>1, <1>3, <2>1 DEF CreateRegister, OutcomesKept, IsTerminal, Terminal, Absent
<1>4. ASSUME NEW j \in Builds, CancelBegin(j)
      PROVE  OutcomesKept
  BY <1>1, <1>4 DEF CancelBegin, OutcomesKept, IsTerminal, Terminal, Unfinished
<1>5. ASSUME NEW j \in Builds, UpdatePhase(j) \/ Finish(j)
      PROVE  OutcomesKept
  BY <1>1, <1>5 DEF UpdatePhase, Finish, OutcomesKept
<1>6. CASE PruneOldBuilds
  BY <1>6, PruneTakesEnded DEF PruneSpares, OutcomesKept
<1>7. CASE Stop
  BY <1>7 DEF Stop, OutcomesKept
<1>8. CASE LoadHistoricalJobs
  BY <1>8 DEF LoadHistoricalJobs, LifeInv, LifeParts, DownIsEmpty, OutcomesKept, IsTerminal,
     Terminal, Absent
<1>9. \/ jobs' = jobs \/ CreateRegister \/ PruneOldBuilds \/ Stop \/ LoadHistoricalJobs
      \/ \E j \in Builds : CancelBegin(j) \/ UpdatePhase(j) \/ Finish(j)
  <2>1. CASE UNCHANGED vars
    BY <2>1 DEF vars, tables
  <2>2. CASE CreateJob
    BY <2>2 DEF CreateJob, CreateBegin, CreateFails, CreateSave, CreateSaved, CreateAborts, tables
  <2>3. CASE CancelJob
    BY <2>3 DEF CancelJob, CancelContext, CancelSave, CancelReturns, tables
  <2>4. ASSUME NEW j \in Builds, Worker(j)
        PROVE  jobs' = jobs \/ PruneOldBuilds \/ UpdatePhase(j) \/ Finish(j)
    BY <2>4 DEF Worker, GiveUpWaiting, Acquire, Recheck, EnterPhase, WorkerSave, WorkerSaved,
       WorkDone, PublishArtifact, SmokeTestPasses, WorkFails, Release, CloseLog,
       CleanIntermediateFiles, Deregister, WorkerPrune, WorkersOnly, tables
  <2>5. CASE (\E j \in Builds : JobTimeout(j)) \/ Shutdown \/ StartupPrune \/ Exited
    BY <2>5 DEF JobTimeout, Shutdown, ShutdownBegin, ShutdownDone, StartupPrune, Exited, vars,
       tables
  <2>6. QED
    BY <2>1, <2>2, <2>3, <2>4, <2>5 DEF Next
<1>10. QED
  BY <1>2, <1>3, <1>4, <1>5, <1>6, <1>7, <1>8, <1>9

(* The outcome of a job is decided once. *)
THEOREM OutcomeIsFinal == Spec => TerminalIsFinal
<1>1. LifeInv /\ [Next]_vars => [OutcomesKept]_vars
  BY OutcomeStep
<1>2. Spec => [][OutcomesKept]_vars
  BY <1>1, LifeCorrect, PTL DEF Spec
<1>3. QED
  BY <1>2 DEF TerminalIsFinal, OutcomesKept
=============================================================================
