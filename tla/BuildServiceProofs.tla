------------------------- MODULE BuildServiceProofs -------------------------
(***************************************************************************)
(* The build manager implements BuildService: proof that every step of it, *)
(* with all its races, disk faults and restarts, is a step of the abstract *)
(* service or none, for all values of the constants.                       *)
(***************************************************************************)
EXTENDS BuildRecordProofs

-----------------------------------------------------------------------------
(* What the service's variables are in BuildManager. *)

View == [j \in Builds |-> IF server = "down" THEN Restored(meta[j]) ELSE Told(jobs[j])]
Durable == {j \in Builds : IsTerminal(meta[j])}
Seen == (1 .. lastID) \ Creating
Accepting == server = "serving" /\ ~closed
Abstract == <<View, Durable, Seen, Accepting>>

Capacity == MaxConcurrentJobs + MaxQueuedJobs
Pending == {j \in Builds : View[j] = "pending"}
WithOutcome == {j \in Builds : View[j] \in Terminal}

(* The steps of the service in these terms. *)

LEMMA SameCardinality == \A S : Service!Cardinality(S) = Cardinality(S)
BY DEF Service!Cardinality, Cardinality

LEMMA StutterStep ==
    ASSUME UNCHANGED Abstract
    PROVE  UNCHANGED Service!vars
BY DEF Abstract, Service!vars, View, Durable, Seen, Accepting

LEMMA AdmitStep ==
    ASSUME NEW j \in Builds, Accepting, j \notin Seen, Cardinality(Pending) < Capacity,
           View' = [View EXCEPT ![j] = "pending"], Seen' = Seen \cup {j},
           UNCHANGED <<Durable, Accepting>>
    PROVE  Service!Next
<1>1. Service!Pending = Pending
  BY DEF Service!Pending, Service!Builds, Builds, Pending, View
<1>2. Service!Cardinality(Service!Pending) < MaxConcurrentJobs + MaxQueuedJobs
  BY <1>1, SameCardinality DEF Capacity
<1>3. Service!Admit(j)
  BY <1>2 DEF Service!Admit, View, Durable, Seen, Accepting
<1>4. QED
  BY <1>3 DEF Service!Next, Service!Builds, Builds

LEMMA RefuseStep ==
    ASSUME NEW j \in Builds, j \notin Seen, Seen' = Seen \cup {j},
           UNCHANGED <<View, Durable, Accepting>>
    PROVE  Service!Next
<1>1. Service!Refuse(j)
  BY DEF Service!Refuse, View, Durable, Seen, Accepting
<1>2. QED
  BY <1>1 DEF Service!Next, Service!Builds, Builds

LEMMA DecideStep ==
    ASSUME NEW j \in Builds, NEW outcome \in Terminal, View[j] = "pending",
           View' = [View EXCEPT ![j] = outcome], UNCHANGED <<Durable, Seen, Accepting>>
    PROVE  Service!Next
<1>1. Service!Decide(j, outcome)
  BY DEF Service!Decide, View, Durable, Seen, Accepting
<1>2. QED
  BY <1>1 DEF Service!Next, Service!Builds, Service!Outcomes, Builds, Terminal

LEMMA CommitStep ==
    ASSUME Durable \subseteq Durable', Durable' \subseteq WithOutcome,
           UNCHANGED <<View, Seen, Accepting>>
    PROVE  Service!Next
<1>1. Service!Commit
  BY DEF Service!Commit, Service!Ended, Service!Outcomes, Service!Builds, Builds, Terminal,
     WithOutcome, View, Durable, Seen, Accepting
<1>2. QED
  BY <1>1 DEF Service!Next

LEMMA ExpireStep ==
    ASSUME NEW gone \in SUBSET WithOutcome,
           View' = [j \in Builds |-> IF j \in gone THEN Absent ELSE View[j]],
           Durable' \subseteq Durable \ gone,
           Cardinality(Durable \ (Durable' \cup gone)) <= 1,
           \A j \in gone \cup (Durable \ (Durable' \cup gone)) :
               Cardinality({k \in WithOutcome \ gone : k > j}) >= MaxRetainedBuilds,
           Accepting' \in {Accepting, TRUE}, UNCHANGED Seen
    PROVE  Service!Next
<1>1. Service!Ended = WithOutcome
  BY DEF WithOutcome, Service!Ended, Service!Outcomes, Service!Builds, Builds, Terminal, View
<1> DEFINE broken == Durable \ (Durable' \cup gone)
<1>2. /\ Service!Cardinality(broken) <= 1
      /\ \A j \in gone \cup broken :
            Service!Cardinality({k \in Service!Ended \ gone : k > j}) >= MaxRetainedBuilds
  BY <1>1, SameCardinality
<1>3. Service!Expire(gone)
  BY <1>2 DEF Service!Expire, Service!Builds, Builds, Absent, View, Durable, Seen, Accepting
<1>4. gone \in SUBSET Service!Ended
  BY <1>1
<1>5. QED
  BY <1>3, <1>4 DEF Service!Next

LEMMA CloseStep ==
    ASSUME Accepting, Accepting' = FALSE, UNCHANGED <<View, Durable, Seen>>
    PROVE  Service!Next
<1>1. Service!Close
  BY DEF Service!Close, View, Durable, Seen, Accepting
<1>2. QED
  BY <1>1 DEF Service!Next

LEMMA InterruptStep ==
    ASSUME \A j \in Durable : View'[j] = View[j],
           \A j \in Builds : View'[j] \in {Absent, "failed"} \cup Terminal,
           \A j \in Builds \ Durable : View'[j] \in {Absent, "failed"},
           Seen \subseteq Seen', Seen' \subseteq Builds,
           \A j \in Builds : View'[j] # Absent => j \in Seen',
           Accepting' = FALSE, UNCHANGED Durable
    PROVE  Service!Next
<1>1. View' \in [Builds -> {Absent, "failed"} \cup Terminal]
  BY DEF View
<1>2. Service!Interrupt
  BY <1>1 DEF Service!Interrupt, Service!Outcomes, Service!Builds, Builds, Terminal, Absent,
     View, Durable, Seen, Accepting
<1>3. QED
  BY <1>2 DEF Service!Next

-----------------------------------------------------------------------------
(* What BuildManager's invariants say in these terms. *)

ServiceInv == EndInv /\ AdmissionBound

LEMMA ServiceTyped ==
    ASSUME EndInv
    PROVE  /\ jobs \in [Builds -> Statuses] /\ meta \in [Builds -> Statuses]
           /\ lastID \in Nat /\ lastID <= MaxBuilds /\ MaxBuilds \in Nat
           /\ mu # "free" => muJob \in Builds /\ muJob <= lastID /\ server = "serving"
           /\ \A j \in Builds : worker[j] # "none" => server = "serving"
           /\ closed => server = "serving"
BY LimitsAssumption DEF EndInv, LifeInv, LifeParts, TypeInv, TypeOK, MuHasJob, BornInOrder, Quiet,
   EndParts, ShutdownInOrder

(* Told and Restored take statuses to what a client of the service sees. *)
LEMMA WhatIsTold ==
    /\ \A s \in Unfinished : Told(s) = "pending" /\ Restored(s) = "failed"
    /\ \A s \in Terminal \cup {Absent} : Told(s) = s /\ Restored(s) = s
    /\ "pending" \notin Terminal \cup {Absent} /\ Absent \notin Terminal
    /\ Statuses = Unfinished \cup Terminal \cup {Absent} /\ Unfinished \cap Terminal = {}
BY DEF Told, Restored, Unfinished, Terminal, Absent, Statuses

LEMMA ViewOfJobs ==
    ASSUME EndInv, server # "down"
    PROVE  \A j \in Builds :
               /\ View[j] = Told(jobs[j])
               /\ View[j] = "pending" <=> jobs[j] \in Unfinished
               /\ View[j] \in Terminal <=> jobs[j] \in Terminal
BY ServiceTyped, WhatIsTold DEF View

(* A step that changes no job, or only from one unfinished status to        *)
(* another, and no outcome on record, is no step of the service.            *)
LEMMA NothingTold ==
    ASSUME EndInv, EndInv', server # "down", UNCHANGED <<server, closed, meta>>,
           \A j \in Builds : jobs'[j] = jobs[j] \/ {jobs[j], jobs'[j]} \subseteq Unfinished,
           UNCHANGED Seen
    PROVE  UNCHANGED Service!vars
<1>1. \A j \in Builds : Told(jobs'[j]) = Told(jobs[j])
  BY WhatIsTold
<1>2. UNCHANGED View
  BY <1>1 DEF View
<1>3. UNCHANGED <<Durable, Accepting>>
  BY DEF Durable, Accepting
<1>4. QED
  BY <1>2, <1>3, StutterStep DEF Abstract

-----------------------------------------------------------------------------
(* CreateJob and CancelJob *)

LEMMA CreateServes ==
    ASSUME ServiceInv, ServiceInv', CreateJob
    PROVE  [Service!Next]_(Service!vars)
<1>0. EndInv /\ EndInv'
  BY DEF ServiceInv
<1>1. CASE CreateBegin
  <2>1. Seen' = Seen
    BY <1>0, <1>1, ServiceTyped DEF CreateBegin, Admits, Seen, Creating
  <2>2. QED
    BY <1>0, <1>1, <2>1, NothingTold DEF CreateBegin, Admits, Serving, service, tables
<1>2. CASE CreateFails
  <2>1. lastID + 1 \in Builds /\ lastID + 1 \notin Seen /\ Seen' = Seen \cup {lastID + 1}
    BY <1>0, <1>2, ServiceTyped DEF CreateFails, Admits, Seen, Creating, Builds, lock
  <2>2. UNCHANGED <<View, Durable, Accepting>>
    BY <1>2 DEF CreateFails, View, Durable, Accepting, service, tables
  <2>3. QED
    BY <2>1, <2>2, RefuseStep
<1>3. CASE CreateSave
  <2>1. Seen' = Seen /\ server # "down"
    BY <1>0, <1>3, ServiceTyped DEF CreateSave, Seen, Creating, book
  <2>2. QED
    BY <1>0, <1>3, <2>1, NothingTold DEF CreateSave, service, tables, disk
<1>4. CASE CreateSaved
  <2>1. /\ server # "down" /\ muJob \in Builds /\ meta[muJob] = Absent
        /\ meta' = [meta EXCEPT ![muJob] = "queued"]
    BY <1>0, <1>4, ServiceTyped DEF CreateSaved, SaveOK, EndInv, EndParts, RecordParts, NewIsQueued
  <2>2. UNCHANGED <<View, Seen, Accepting>>
    BY <1>4, <2>1 DEF CreateSaved, View, Seen, Creating, Accepting, service, tables
  <2>3. UNCHANGED Durable
    BY <1>0, <2>1, ServiceTyped DEF Durable, IsTerminal, Terminal, Absent
  <2>4. QED
    BY <2>2, <2>3, StutterStep DEF Abstract
<1>5. CASE CreateAborts
  <2>1. muJob \in Builds /\ muJob \notin Seen /\ Seen' = Seen \cup {muJob}
    BY <1>0, <1>5, ServiceTyped DEF CreateAborts, Seen, Creating, Builds, book
  <2>2. UNCHANGED <<View, Durable, Accepting>>
    BY <1>5 DEF CreateAborts, View, Durable, Accepting, service, tables
  <2>3. QED
    BY <2>1, <2>2, RefuseStep
<1>6. CASE CreateRegister
  <2>1. /\ server = "serving" /\ muJob \in Builds /\ muJob <= lastID
        /\ Creating = {muJob} /\ Creating' = {} /\ ~closed
        /\ jobs[muJob] = Absent /\ context[muJob] = "none"
    BY <1>0, <1>6, ServiceTyped DEF CreateRegister, Creating, CreateSteps, EndInv, LifeInv, LifeParts,
       BornInOrder, Unborn, EndParts, ShutdownInOrder
  <2>2. muJob \notin Seen /\ Seen' = Seen \cup {muJob}
    BY <1>0, <1>6, <2>1, ServiceTyped DEF CreateRegister, Seen, Builds, book
  <2>3. Pending \subseteq Active /\ muJob \notin Active /\ Active \in SUBSET Builds
    BY <1>0, <2>1, ViewOfJobs DEF Pending, Active, EndInv, LifeInv, LifeParts, UnfinishedIsActive
  <2>4. Cardinality(Pending) < Capacity
    <3>1. /\ IsFiniteSet(Active) /\ Cardinality(Active) \in Nat
          /\ Cardinality(Pending) \in Nat /\ Cardinality(Pending) <= Cardinality(Active)
      BY <2>3, BuildsFinite, FS_Subset
    <3>2. Cardinality(Active \cup {muJob}) = Cardinality(Active) + 1
      BY <2>3, <3>1, FS_AddElement
    <3>3. Cardinality(Active \cup {muJob}) <= Capacity /\ Capacity \in Nat
      BY <2>1, LimitsAssumption DEF ServiceInv, AdmissionBound, Capacity
    <3>4. QED
      BY <3>1, <3>2, <3>3
  <2>5. View' = [View EXCEPT ![muJob] = "pending"]
    <3>1. jobs' = [jobs EXCEPT ![muJob] = "queued"] /\ server' = server /\ Told("queued") = "pending"
      BY <1>6, WhatIsTold DEF CreateRegister, service, Unfinished
    <3>2. QED
      BY <1>0, <2>1, <3>1, ServiceTyped DEF View
  <2>6. Accepting /\ UNCHANGED <<Durable, Accepting>>
    BY <1>6, <2>1 DEF CreateRegister, Durable, Accepting, service, disk
  <2>7. QED
    BY <2>1, <2>2, <2>4, <2>5, <2>6, AdmitStep
<1>7. QED
  BY <1>1, <1>2, <1>3, <1>4, <1>5, <1>6 DEF CreateJob

(* A record is put on disk, and the outcomes in it are those of the jobs. *)
LEMMA RecordServes ==
    ASSUME EndInv, EndInv', server' # "down", UNCHANGED <<View, Seen, Accepting>>,
           CreateSaved \/ CancelReturns \/ LoadHistoricalJobs \/ \E j \in Builds : WorkerSaved(j)
    PROVE  Service!Next
<1>1. Durable \subseteq Durable'
  <2>1. \A j \in Builds : IsTerminal(meta[j]) => meta'[j] = meta[j]
    BY SavedRecord DEF IsTerminal, Terminal, Absent
  <2>2. QED
    BY <2>1 DEF Durable
<1>2. Durable' \subseteq WithOutcome
  <2> SUFFICES ASSUME NEW j \in Builds, IsTerminal(meta'[j]) PROVE View[j] \in Terminal
    BY DEF Durable, WithOutcome
  <2>1. jobs'[j] = meta'[j] /\ jobs'[j] \in Terminal
    BY DEF EndInv, EndParts, RecordParts, RecordIsJob, IsTerminal
  <2>2. View'[j] = Told(jobs'[j])
    BY DEF View
  <2>3. QED
    BY <2>1, <2>2, WhatIsTold
<1>3. QED
  BY <1>1, <1>2, CommitStep

LEMMA CancelServes ==
    ASSUME ServiceInv, ServiceInv', CancelJob
    PROVE  [Service!Next]_(Service!vars)
<1>0. EndInv /\ EndInv'
  BY DEF ServiceInv
<1>1. ASSUME NEW j \in Builds, CancelBegin(j)
      PROVE  Service!Next
  <2>1. /\ server = "serving" /\ mu = "free" /\ mu' = "cancelContext" /\ jobs[j] \in Unfinished
        /\ jobs' = [jobs EXCEPT ![j] = "cancelled"]
        /\ UNCHANGED <<server, closed, meta, lastID>>
    BY <1>1 DEF CancelBegin, Serving, service, disk, book
  <2>2. View[j] = "pending" /\ "cancelled" \in Terminal /\ Told("cancelled") = "cancelled"
    BY <1>0, <2>1, ViewOfJobs, WhatIsTold DEF Terminal
  <2>3. View' = [View EXCEPT ![j] = "cancelled"]
    BY <1>0, <2>1, <2>2, ServiceTyped DEF View
  <2>4. UNCHANGED <<Durable, Seen, Accepting>>
    BY <2>1 DEF Durable, Seen, Creating, Accepting
  <2>5. QED
    BY <2>2, <2>3, <2>4, DecideStep
<1>2. CASE CancelContext \/ CancelSave
  <2>1. Seen' = Seen /\ server # "down"
    BY <1>0, <1>2, ServiceTyped DEF CancelContext, CancelSave, Seen, Creating, book
  <2>2. QED
    BY <1>0, <1>2, <2>1, NothingTold DEF CancelContext, CancelSave, service, tables, disk
<1>3. CASE CancelReturns
  <2>1. server # "down" /\ server' = server
    BY <1>0, <1>3, ServiceTyped DEF CancelReturns, service
  <2>2. UNCHANGED <<View, Seen, Accepting>>
    BY <1>3, <2>1 DEF CancelReturns, View, Seen, Creating, Accepting, service, tables
  <2>3. QED
    BY <1>0, <1>3, <2>1, <2>2, RecordServes
<1>4. QED
  BY <1>1, <1>2, <1>3 DEF CancelJob

-----------------------------------------------------------------------------
(* PruneOldBuilds, by a worker or when a process starts *)

LEMMA PruneServes ==
    ASSUME ServiceInv, ServiceInv', PruneOldBuilds, server # "down", server' # "down",
           Accepting' \in {Accepting, TRUE}, UNCHANGED Seen
    PROVE  Service!Next
<1>0. EndInv
  BY DEF ServiceInv
<1>1. PICK gone \in SUBSET Excess, broken \in SUBSET Excess : PruneTakes(gone, broken)
  BY PruneEffect
<1>2. /\ Excess \subseteq Builds /\ gone \in SUBSET Builds
      /\ \A j \in Excess : jobs[j] \in Terminal
  BY DEF Excess, Candidates, Present, IsTerminal
<1>3. gone \in SUBSET WithOutcome
  BY <1>0, <1>2, ViewOfJobs DEF WithOutcome
<1>4. View' = [j \in Builds |-> IF j \in gone THEN Absent ELSE View[j]]
  <2>1. \A j \in Builds : jobs'[j] = IF j \in gone THEN Absent ELSE jobs[j]
    BY <1>1 DEF PruneTakes
  <2>2. Told(Absent) = Absent
    BY WhatIsTold
  <2>3. QED
    BY <2>1, <2>2 DEF View
<1>5. Durable' \subseteq Durable \ gone
  BY <1>1, WhatIsTold DEF PruneTakes, Durable, IsTerminal
<1> DEFINE lost == Durable \ (Durable' \cup gone)
<1>6. lost \subseteq broken
  BY <1>1 DEF PruneTakes, Durable
<1>7. Cardinality(lost) <= 1
  <2>1. lost = {} \/ \E failing \in Builds : lost = {failing}
    BY <1>1, <1>2, <1>6 DEF PruneTakes
  <2> HIDE DEF lost
  <2>2. CASE lost = {}
    BY <2>2, FS_EmptySet
  <2>3. ASSUME NEW failing \in Builds, lost = {failing} PROVE Cardinality(lost) <= 1
    <3>1. Cardinality({failing}) = 1
      BY FS_Singleton
    <3>2. QED
      BY <2>3, <3>1
  <2>4. QED
    BY <2>1, <2>2, <2>3
<1>8. ASSUME NEW j \in gone \cup lost
      PROVE  Cardinality({k \in WithOutcome \ gone : k > j}) >= MaxRetainedBuilds
  <2> DEFINE newer == {k \in Builds : k > j /\ IsTerminal(jobs'[k])}
             stay == {k \in WithOutcome \ gone : k > j}
  <2>1. j \in Excess
    BY <1>6, <1>8
  <2>2. Cardinality(newer) >= MaxRetainedBuilds
    BY <1>0, <2>1, PruneLeavesNewer DEF NewerStay
  <2>3. newer \subseteq stay
    <3> SUFFICES ASSUME NEW k \in Builds, k > j, IsTerminal(jobs'[k])
                 PROVE  k \in WithOutcome /\ k \notin gone
      OBVIOUS
    <3>1. jobs'[k] = IF k \in gone THEN Absent ELSE jobs[k]
      BY <1>1 DEF PruneTakes
    <3>2. k \notin gone /\ jobs[k] \in Terminal
      BY <3>1, WhatIsTold DEF IsTerminal
    <3>3. QED
      BY <1>0, <3>2, ViewOfJobs DEF WithOutcome
  <2>4. newer \in SUBSET Builds /\ stay \in SUBSET Builds
    BY DEF WithOutcome
  <2> HIDE DEF newer, stay
  <2>5. /\ Cardinality(newer) <= Cardinality(stay)
        /\ Cardinality(newer) \in Nat /\ Cardinality(stay) \in Nat
    BY <2>3, <2>4, BuildsFinite, FS_Subset
  <2>6. Cardinality(stay) >= MaxRetainedBuilds
    BY <2>2, <2>5, LimitsAssumption
  <2>7. QED
    BY <2>6 DEF stay
<1>9. QED
  BY <1>3, <1>4, <1>5, <1>7, <1>8, ExpireStep

-----------------------------------------------------------------------------
(* The worker, its timer, and the process *)

LEMMA WorkerServes ==
    ASSUME ServiceInv, ServiceInv', NEW j \in Builds, Worker(j) \/ JobTimeout(j)
    PROVE  [Service!Next]_(Service!vars)
<1>0. EndInv /\ EndInv'
  BY DEF ServiceInv
<1>1. /\ server # "down" /\ UNCHANGED <<server, closed>> /\ UNCHANGED Seen
      /\ UNCHANGED Accepting
  <2>1. /\ UNCHANGED <<server, closed, mu, muJob, lastID>> /\ worker[j] # "none"
    BY DEF Worker, JobTimeout, GiveUpWaiting, Acquire, Recheck, EnterPhase, UpdatePhase, WorkerSave,
       WorkerSaved, WorkDone, PublishArtifact, SmokeTestPasses, WorkFails, Release, Finish, CloseLog,
       CleanIntermediateFiles, Deregister, WorkerPrune, WorkersOnly, At, SlotSteps, service, lock,
       book
  <2>2. QED
    BY <1>0, <2>1, ServiceTyped DEF Seen, Creating, Accepting
<1>2. CASE \/ GiveUpWaiting(j) \/ Acquire(j) \/ Recheck(j) \/ EnterPhase(j) \/ WorkerSave(j)
           \/ WorkDone(j) \/ PublishArtifact(j) \/ SmokeTestPasses(j) \/ WorkFails(j) \/ Release(j)
           \/ CloseLog(j) \/ CleanIntermediateFiles(j) \/ Deregister(j) \/ JobTimeout(j)
  <2>1. UNCHANGED <<jobs, meta>>
    BY <1>2 DEF JobTimeout, GiveUpWaiting, Acquire, Recheck, EnterPhase, WorkerSave, WorkDone,
       PublishArtifact, SmokeTestPasses, WorkFails, Release, CloseLog, CleanIntermediateFiles,
       Deregister, WorkersOnly, tables, disk
  <2>2. QED
    BY <1>0, <1>1, <2>1, NothingTold
<1>3. CASE UpdatePhase(j)
  <2>1. /\ worker[j] = "update" /\ phase[j] \in 1 .. LastPhase /\ jobs[j] # Absent
        /\ jobs \in [Builds -> Statuses]
    BY <1>0, <1>3 DEF UpdatePhase, At, EndInv, LifeInv, LifeParts, TypeInv, TypeOK, PhaseIsSet,
       InPhase, WorkerIsRegistered
  <2>2. Phases[phase[j]] \in Unfinished
    BY <2>1, PhasesTyped
  <2>3. \A k \in Builds : jobs'[k] = jobs[k] \/ {jobs[k], jobs'[k]} \subseteq Unfinished
    BY <1>3, <2>1, <2>2, WhatIsTold DEF UpdatePhase, IsTerminal
  <2>4. meta' = meta
    BY <1>3 DEF UpdatePhase, disk
  <2>5. QED
    BY <1>0, <1>1, <2>3, <2>4, NothingTold
<1>4. CASE Finish(j)
  <2>1. /\ worker[j] = "finish" /\ jobs[j] # Absent /\ jobs \in [Builds -> Statuses]
        /\ meta' = meta /\ Outcome(j) \in Terminal
        /\ jobs' = [jobs EXCEPT ![j] = IF IsTerminal(jobs[j]) THEN jobs[j] ELSE Outcome(j)]
    BY <1>0, <1>4 DEF Finish, At, disk, Outcome, Terminal, EndInv, LifeInv, LifeParts, TypeInv,
       TypeOK, WorkerIsRegistered
  <2>2. CASE IsTerminal(jobs[j])
    BY <1>0, <1>1, <2>1, <2>2, NothingTold
  <2>3. CASE ~IsTerminal(jobs[j])
    <3>1. View[j] = "pending"
      BY <1>0, <1>1, <2>1, <2>3, ViewOfJobs, WhatIsTold DEF IsTerminal
    <3>2. View' = [View EXCEPT ![j] = Outcome(j)]
      BY <1>1, <2>1, <2>3, WhatIsTold DEF View
    <3>3. QED
      BY <1>1, <2>1, <3>1, <3>2, DecideStep DEF Durable
  <2>4. QED
    BY <2>2, <2>3
<1>5. CASE WorkerSaved(j)
  <2>1. UNCHANGED View
    BY <1>1, <1>5 DEF WorkerSaved, View, tables
  <2>2. QED
    BY <1>0, <1>1, <1>5, <2>1, RecordServes
<1>6. CASE WorkerPrune(j)
  BY <1>1, <1>6, PruneServes DEF WorkerPrune
<1>7. QED
  BY <1>2, <1>3, <1>4, <1>5, <1>6 DEF Worker

LEMMA ProcessServes ==
    ASSUME ServiceInv, ServiceInv', Shutdown \/ Stop \/ LoadHistoricalJobs \/ StartupPrune
    PROVE  [Service!Next]_(Service!vars)
<1>0. EndInv /\ EndInv'
  BY DEF ServiceInv
<1>1. CASE ShutdownBegin
  <2>1. Accepting /\ Accepting' = FALSE
    BY <1>0, <1>1 DEF ShutdownBegin, Serving, Accepting, EndInv, EndParts, ShutdownInOrder
  <2>2. UNCHANGED <<View, Durable, Seen>>
    BY <1>1 DEF ShutdownBegin, View, Durable, Seen, Creating, lock, disk, book
  <2>3. QED
    BY <2>1, <2>2, CloseStep
<1>2. CASE ShutdownDone
  <2>1. UNCHANGED Abstract
    BY <1>2 DEF ShutdownDone, Abstract, View, Durable, Seen, Creating, Accepting, tables, lock, disk,
       book
  <2>2. QED
    BY <2>1, StutterStep
<1>3. CASE Stop
  <2>1. /\ server # "down" /\ server' = "down" /\ UNCHANGED <<meta, lastID>>
        /\ Creating' = {} /\ Accepting' = FALSE
    BY <1>3 DEF Stop, Creating, Accepting, disk
  <2>2. Seen \subseteq Seen' /\ Seen' \subseteq Builds /\ Seen' = 1 .. lastID
    BY <1>0, <2>1, ServiceTyped DEF Seen, Builds
  <2>3. ASSUME NEW j \in Builds
        PROVE  /\ View'[j] = Restored(meta[j])
               /\ j \in Durable => View[j] = meta[j] /\ View'[j] = meta[j] /\ meta[j] \in Terminal
               /\ j \notin Durable => View'[j] \in {Absent, "failed"}
               /\ View'[j] # Absent => j \in Seen'
    <3>1. View'[j] = Restored(meta[j]) /\ View[j] = Told(jobs[j]) /\ meta[j] \in Statuses
      BY <1>0, <2>1, ServiceTyped DEF View
    <3>2. IsTerminal(meta[j]) => jobs[j] = meta[j]
      BY <1>0, <2>1 DEF EndInv, EndParts, RecordParts, RecordIsJob
    <3>3. View'[j] # Absent => meta[j] # Absent
      BY <3>1, WhatIsTold
    <3>4. meta[j] # Absent => j <= lastID
      BY <1>0, ServiceTyped DEF EndInv, LifeInv, LifeParts, BornInOrder, Builds
    <3>5. j \in 1 .. lastID <=> j <= lastID
      BY <1>0, ServiceTyped DEF Builds
    <3>6. QED
      BY <2>2, <3>1, <3>2, <3>3, <3>4, <3>5, WhatIsTold DEF Durable, IsTerminal
  <2>4. UNCHANGED Durable
    BY <2>1 DEF Durable
  <2>5. /\ \A j \in Durable : View'[j] = View[j]
        /\ \A j \in Builds : View'[j] \in {Absent, "failed"} \cup Terminal
        /\ \A j \in Builds \ Durable : View'[j] \in {Absent, "failed"}
        /\ \A j \in Builds : View'[j] # Absent => j \in Seen'
    BY <2>3 DEF Durable
  <2>6. QED
    BY <2>1, <2>2, <2>4, <2>5, InterruptStep
<1>4. CASE LoadHistoricalJobs
  <2>1. /\ server = "down" /\ server' = "loading" /\ UNCHANGED <<mu, muJob, lastID>>
        /\ jobs' = [j \in Builds |-> Restored(meta[j])]
    BY <1>4 DEF LoadHistoricalJobs, lock
  <2>2. \A j \in Builds : Told(Restored(meta[j])) = Restored(meta[j])
    BY <1>0, ServiceTyped, WhatIsTold DEF Terminal
  <2>3. UNCHANGED <<View, Seen, Accepting>>
    BY <2>1, <2>2 DEF View, Seen, Creating, Accepting
  <2>4. QED
    BY <1>0, <1>4, <2>1, <2>3, RecordServes
<1>5. CASE StartupPrune
  <2>1. /\ server = "loading" /\ server' = "serving" /\ UNCHANGED <<closed, mu, muJob, lastID>>
        /\ PruneOldBuilds
    BY <1>5 DEF StartupPrune, lock
  <2>2. ~closed /\ Accepting'
    BY <1>0, <2>1, ServiceTyped DEF Accepting
  <2>3. UNCHANGED Seen
    BY <2>1 DEF Seen, Creating
  <2>4. Accepting' \in {Accepting, TRUE}
    BY <2>2 DEF Accepting
  <2>5. QED
    BY <2>1, <2>3, <2>4, PruneServes
<1>6. QED
  BY <1>1, <1>2, <1>3, <1>4, <1>5 DEF Shutdown

LEMMA ServiceStep ==
    ASSUME ServiceInv, ServiceInv', [Next]_vars
    PROVE  [Service!Next]_(Service!vars)
<1>1. CASE Exited \/ UNCHANGED vars
  <2>1. UNCHANGED Abstract
    BY <1>1 DEF Exited, Abstract, View, Durable, Seen, Creating, Accepting, vars, service, tables,
       lock, disk, book
  <2>2. QED
    BY <2>1, StutterStep
<1>2. QED
  BY <1>1, CreateServes, CancelServes, WorkerServes, ProcessServes DEF Next

LEMMA ServiceInit == Init => Service!Init
<1> SUFFICES ASSUME Init PROVE Service!Init
  OBVIOUS
<1>1. /\ View = [j \in Builds |-> "absent"] /\ Durable = {} /\ Accepting = TRUE
  BY WhatIsTold DEF Init, View, Durable, IsTerminal, Accepting, Absent
<1>2. Seen = {}
  BY DEF Init, Seen, Creating
<1>3. QED
  BY <1>1, <1>2 DEF Service!Init, Service!Builds, Builds, View, Durable, Seen, Accepting

(* The build manager implements the abstract service: a client is told of   *)
(* admissions below the capacity only and of one outcome of each build; an  *)
(* outcome on disk survives every stop, and retention takes no build while  *)
(* fewer than MaxRetainedBuilds newer ones have their outcome.              *)
THEOREM RefinesService == Spec => ImplementsService
<1>1. Spec => []ServiceInv
  BY EndCorrect, AdmissionCorrect, PTL DEF ServiceInv
<1>2. ServiceInv /\ ServiceInv' /\ [Next]_vars => [Service!Next]_(Service!vars)
  BY ServiceStep
<1>3. QED
  BY <1>1, <1>2, ServiceInit, PTL DEF Spec, ImplementsService, Service!Spec
=============================================================================
