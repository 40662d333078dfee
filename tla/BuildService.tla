---------------------------- MODULE BuildService ----------------------------
(***************************************************************************)
(* What the build service promises to its clients about the outcome of a   *)
(* build, without workers, locks or files.  A client sees each build as    *)
(* absent, pending or with one of three outcomes; an outcome is durable    *)
(* once it will be told again by the next process.  BuildManager is shown  *)
(* to implement this module.                                               *)
(***************************************************************************)
EXTENDS Integers, FiniteSets

CONSTANTS
    MaxBuilds,          \* bound: build IDs 1 .. MaxBuilds
    Capacity,           \* --jobs + --queue-limit
    MaxRetainedBuilds   \* --retain-builds

Builds == 1 .. MaxBuilds
Outcomes == {"completed", "failed", "cancelled"}

VARIABLES
    view,       \* what GetJob and ListJobs tell of each build
    durable,    \* builds whose outcome a restart does not change
    seen,       \* build IDs that have been given away
    open        \* new builds are accepted

vars == <<view, durable, seen, open>>

ServiceTypeOK ==
    /\ view \in [Builds -> Outcomes \cup {"absent", "pending"}]
    /\ durable \subseteq Builds
    /\ seen \subseteq Builds
    /\ open \in BOOLEAN

Pending == {j \in Builds : view[j] = "pending"}
Ended == {j \in Builds : view[j] \in Outcomes}

Init ==
    /\ view = [j \in Builds |-> "absent"]
    /\ durable = {}
    /\ seen = {}
    /\ open = TRUE

(* A request is accepted only below the capacity. *)
Admit(j) ==
    /\ open
    /\ j \notin seen
    /\ Cardinality(Pending) < Capacity
    /\ view' = [view EXCEPT ![j] = "pending"]
    /\ seen' = seen \cup {j}
    /\ UNCHANGED <<durable, open>>

(* A request fails after it was given an ID. *)
Refuse(j) ==
    /\ j \notin seen
    /\ seen' = seen \cup {j}
    /\ UNCHANGED <<view, durable, open>>

(* A build gets its outcome once. *)
Decide(j, outcome) ==
    /\ view[j] = "pending"
    /\ view' = [view EXCEPT ![j] = outcome]
    /\ UNCHANGED <<durable, seen, open>>

(* Outcomes become durable, a few at a time when a process starts. *)
Commit ==
    /\ durable' \in SUBSET Ended
    /\ durable \subseteq durable'
    /\ UNCHANGED <<view, seen, open>>

(* Retention takes old ended builds while MaxRetainedBuilds newer ones stay; *)
(* one of them may lose its durability and stay visible when its removal     *)
(* fails.  The process that does so at its start opens the service.          *)
Expire(gone) ==
    /\ view' = [j \in Builds |-> IF j \in gone THEN "absent" ELSE view[j]]
    /\ durable' \in SUBSET (durable \ gone)
    /\ LET broken == durable \ (durable' \cup gone)
       IN  /\ Cardinality(broken) <= 1
           /\ \A j \in gone \cup broken :
                 Cardinality({k \in Ended \ gone : k > j}) >= MaxRetainedBuilds
    /\ open' \in {open, TRUE}
    /\ UNCHANGED seen

(* New builds are refused from now on. *)
Close == open /\ open' = FALSE /\ UNCHANGED <<view, durable, seen>>

(* The process ends: durable outcomes stay as they were told; any other     *)
(* build that was given an ID fails, or leaves no trace.                    *)
Interrupt ==
    /\ view' \in [Builds -> {"absent", "failed"} \cup Outcomes]
    /\ \A j \in durable : view'[j] = view[j]
    /\ \A j \in Builds \ durable : view'[j] \in {"absent", "failed"}
    /\ seen \subseteq seen'
    /\ \A j \in Builds : view'[j] # "absent" => j \in seen'
    /\ seen' \in SUBSET Builds
    /\ open' = FALSE
    /\ UNCHANGED durable

Next ==
    \/ \E j \in Builds : Admit(j) \/ Refuse(j)
    \/ \E j \in Builds, outcome \in Outcomes : Decide(j, outcome)
    \/ Commit
    \/ \E gone \in SUBSET Ended : Expire(gone)
    \/ Close
    \/ Interrupt

Spec == Init /\ [][Next]_vars
=============================================================================
