-------------------------- MODULE SourceCacheProofs --------------------------
(***************************************************************************)
(* Proofs about SourceCache: it uses the lock as DownloadLock says, so     *)
(* that what is proved of the lock holds of it, and it delivers nothing it *)
(* has not verified.                                                       *)
(***************************************************************************)
EXTENDS SourceCache, DownloadLockProofs, FiniteSetTheorems, FunctionTheorems

(* The variables that the argument is about; the order plays no part in it. *)
FetchTyped ==
    /\ cache \in [Files -> Sizes \cup {NoArchive}]
    /\ temp \in [Callers -> Sizes \cup {NoArchive, Partial}]
    /\ step \in [Callers -> FetchSteps]
    /\ expected \in [Callers -> Hashes]
    /\ hash \in [Callers -> Sizes \cup {NoArchive}]
    /\ copied \in [Callers -> Sizes \cup {NoArchive}]
    /\ cacheMu \in Callers \cup {NoCaller}

(* A fetch is under way exactly while the lock of its file is held. *)
FetchHoldsLock == \A c \in Callers : step[c] # "none" <=> caller[c] = "held"

MuSteps == {"reuse", "copyCached", "copyNew"}
StepsHoldMu == \A c \in Callers : cacheMu = c <=> step[c] \in MuSteps

(* A hash is only noted once it was compared. *)
HashIsVerified ==
    \A c \in Callers :
        hash[c] # NoArchive => Matches(c, hash[c]) /\ hash[c] <= MaxBytes

(* What is about to be published is what was hashed. *)
DownloadIsHashed ==
    \A c \in Callers : step[c] = "publish" => temp[c] = hash[c] /\ hash[c] \in Sizes

(* A copy is the last thing a fetch makes, and has the hash it returns. *)
CopyIsLast ==
    \A c \in Callers :
        /\ caller[c] \in {"idle", "select"} => hash[c] = NoArchive
        /\ copied[c] # NoArchive =>
              /\ copied[c] = hash[c]
              /\ step[c] = "leave" \/ caller[c] = "release"

FetchInv ==
    /\ FetchTyped
    /\ FetchHoldsLock
    /\ StepsHoldMu
    /\ HashIsVerified
    /\ DownloadIsHashed
    /\ CopyIsLast
    /\ ArchiveStaysForCopy

SourceInv == LockInv /\ FetchInv

-----------------------------------------------------------------------------
(* Every step is a step of the lock, or none. *)

LEMMA StepsOfLock == [Next]_vars => [LockNext]_lockVars
<1> SUFFICES ASSUME [Next]_vars PROVE [LockNext]_lockVars
  OBVIOUS
<1>1. CASE UNCHANGED vars
  BY <1>1 DEF vars
<1>2. ASSUME NEW c \in Callers, NEW f \in Files, NEW x, Begin(c, f, x)
      PROVE  LockNext
  BY <1>2 DEF Begin, LockNext
<1>3. ASSUME NEW c \in Callers, Fetch(c)
      PROVE  LockNext \/ UNCHANGED lockVars
  <2>1. CASE GotLock(c) \/ Leave(c) \/ GaveUp(c) \/ Return(c)
    BY <2>1 DEF GotLock, Leave, GaveUp, Return, LockNext
  <2>2. CASE CheckContext(c) \/ LookUp(c) \/ Reuse(c) \/ Copy(c)
             \/ StartDownload(c) \/ Receive(c) \/ Publish(c)
    BY <2>2 DEF CheckContext, LookUp, Reuse, Copy, StartDownload, Receive, Publish
  <2>3. QED
    BY <1>3, <2>1, <2>2 DEF Fetch
<1>4. ASSUME NEW c \in Callers, Cancelled(c)
      PROVE  LockNext
  BY <1>4 DEF Cancelled, LockNext
<1>5. QED
  BY <1>1, <1>2, <1>3, <1>4 DEF Next

(* fetchSource uses lockDownload as specified, whatever else it does.       *)
THEOREM SourceUsesLock == Spec => LockSpec
<1>1. Init => LockInit
  BY DEF Init
<1>2. QED
  BY <1>1, StepsOfLock, PTL DEF Spec, LockSpec

-----------------------------------------------------------------------------
(* The fetch *)

LEMMA FetchInvInit == Init => FetchInv
BY SourceAssumption DEF Init, LockInit, FetchInv, FetchTyped, FetchHoldsLock, StepsHoldMu,
   MuSteps, HashIsVerified, DownloadIsHashed, CopyIsLast, ArchiveStaysForCopy, FetchSteps

(* Two callers that fetch the same file at once do not exist. *)
LEMMA OwnFile ==
    ASSUME SourceInv, NEW c \in Callers, NEW d \in Callers,
           step[c] # "none", step[d] # "none", wants[c] = wants[d]
    PROVE  c = d
BY DEF SourceInv, LockInv, FetchInv, FetchHoldsLock, RefsMatchCallers, OneHolder

LEMMA FileWanted ==
    ASSUME SourceInv, NEW c \in Callers, step[c] # "none"
    PROVE  wants[c] \in Files
BY DEF SourceInv, LockInv, CallersTyped, FetchInv, FetchHoldsLock

(* The steps of the lock: the caller comes, gets it or gives up, and leaves. *)
LEMMA LockStepsKeepFetch ==
    ASSUME SourceInv, NEW c \in Callers,
           \/ \E f \in Files, x \in Hashes : Begin(c, f, x)
           \/ GotLock(c) \/ GaveUp(c) \/ Cancelled(c) \/ Leave(c) \/ Return(c)
    PROVE  FetchInv'
<1> USE DEF SourceInv, FetchInv
<1>1. ASSUME NEW f \in Files, NEW x \in Hashes, Begin(c, f, x)
      PROVE  FetchInv'
  <2>1. /\ caller[c] = "idle" /\ step[c] = "none" /\ hash[c] = NoArchive /\ copied[c] = NoArchive
        /\ caller' = [caller EXCEPT ![c] = "select"] /\ wants' = [wants EXCEPT ![c] = f]
        /\ UNCHANGED <<cache, temp, cacheMu, step, hash, copied>>
        /\ expected' = [expected EXCEPT ![c] = x]
    BY <1>1 DEF Begin, Lock, Join, FetchHoldsLock, CopyIsLast
  <2>2. FetchTyped' /\ FetchHoldsLock' /\ StepsHoldMu'
    BY <2>1 DEF FetchTyped, FetchHoldsLock, StepsHoldMu, LockInv, LockTypeOK
  <2>3. HashIsVerified' /\ DownloadIsHashed' /\ CopyIsLast'
    BY <2>1 DEF FetchTyped, HashIsVerified, DownloadIsHashed, CopyIsLast, Matches, LockInv,
       LockTypeOK
  <2>4. ArchiveStaysForCopy'
    BY <2>1 DEF ArchiveStaysForCopy, LockInv, LockTypeOK
  <2>5. QED
    BY <2>2, <2>3, <2>4
<1>2. CASE GotLock(c) \/ GaveUp(c) \/ Cancelled(c)
  <2>1. /\ UNCHANGED <<cache, temp, cacheMu, expected, hash, copied, wants>>
        /\ \/ /\ caller[c] = "select" /\ caller' = [caller EXCEPT ![c] = "held"]
              /\ step' = [step EXCEPT ![c] = "locked"]
           \/ /\ caller[c] = "select" /\ caller' = [caller EXCEPT ![c] = "release"]
              /\ step' = step
           \/ UNCHANGED <<caller, step>>
    BY <1>2 DEF GotLock, Take, Goto, GaveUp, GiveUp, Cancelled, ContextDone, fetchVars
  <2>2. FetchTyped' /\ FetchHoldsLock' /\ StepsHoldMu'
    BY <2>1 DEF FetchTyped, FetchHoldsLock, StepsHoldMu, LockInv, LockTypeOK, FetchSteps, MuSteps
  <2>3. HashIsVerified' /\ DownloadIsHashed' /\ CopyIsLast'
    BY <2>1 DEF FetchTyped, HashIsVerified, DownloadIsHashed, CopyIsLast, Matches, LockInv,
       LockTypeOK, FetchHoldsLock
  <2>4. ArchiveStaysForCopy'
    BY <2>1 DEF ArchiveStaysForCopy, FetchTyped
  <2>5. QED
    BY <2>2, <2>3, <2>4
<1>3. CASE Leave(c)
  <2>1. /\ UNCHANGED <<cache, cacheMu, expected, hash, copied, wants>>
        /\ caller[c] = "held" /\ caller' = [caller EXCEPT ![c] = "release"]
        /\ step[c] = "leave" /\ step' = [step EXCEPT ![c] = "none"]
        /\ temp' = [temp EXCEPT ![c] = NoArchive]
    BY <1>3 DEF Leave, At, Unlock, Goto
  <2>2. FetchTyped' /\ FetchHoldsLock' /\ StepsHoldMu'
    BY <2>1 DEF FetchTyped, FetchHoldsLock, StepsHoldMu, LockInv, LockTypeOK, FetchSteps, MuSteps
  <2>3. HashIsVerified' /\ DownloadIsHashed' /\ CopyIsLast'
    BY <2>1 DEF FetchTyped, HashIsVerified, DownloadIsHashed, CopyIsLast, Matches, LockInv,
       LockTypeOK
  <2>4. ArchiveStaysForCopy'
    BY <2>1 DEF ArchiveStaysForCopy, FetchTyped
  <2>5. QED
    BY <2>2, <2>3, <2>4
<1>4. CASE Return(c)
  <2>1. /\ UNCHANGED <<cache, cacheMu, temp, step>>
        /\ caller[c] = "release" /\ caller' = [caller EXCEPT ![c] = "idle"]
        /\ step[c] = "none" /\ wants' = [wants EXCEPT ![c] = NoFile]
        /\ expected' = [expected EXCEPT ![c] = Anything]
        /\ hash' = [hash EXCEPT ![c] = NoArchive]
        /\ copied' = [copied EXCEPT ![c] = NoArchive]
    BY <1>4 DEF Return, ReleaseRef, Forget, FetchHoldsLock
  <2>2. FetchTyped' /\ FetchHoldsLock' /\ StepsHoldMu'
    BY <2>1, SourceAssumption DEF FetchTyped, FetchHoldsLock, StepsHoldMu, LockInv, LockTypeOK
  <2>3. HashIsVerified' /\ DownloadIsHashed' /\ CopyIsLast'
    BY <2>1 DEF FetchTyped, HashIsVerified, DownloadIsHashed, CopyIsLast, Matches, LockInv,
       LockTypeOK
  <2>4. ArchiveStaysForCopy'
    BY <2>1 DEF ArchiveStaysForCopy, FetchTyped, LockInv, LockTypeOK
  <2>5. QED
    BY <2>2, <2>3, <2>4
<1>5. QED
  BY <1>1, <1>2, <1>3, <1>4

(* Steps with the lock that leave the cache directory as it is. *)
LEMMA QuietStepsKeepFetch ==
    ASSUME SourceInv, NEW c \in Callers,
           CheckContext(c) \/ Copy(c) \/ StartDownload(c) \/ Receive(c)
    PROVE  FetchInv'
<1> USE DEF SourceInv, FetchInv
<1>1. CASE CheckContext(c)
  <2>1. /\ UNCHANGED <<cache, temp, cacheMu, expected, hash, copied, wants, caller>>
        /\ step[c] = "locked"
        /\ \E s \in {"leave", "enter"} : step' = [step EXCEPT ![c] = s]
    BY <1>1 DEF CheckContext, At, Goto, lockVars
  <2>2. FetchTyped' /\ FetchHoldsLock' /\ StepsHoldMu'
    BY <2>1 DEF FetchTyped, FetchHoldsLock, StepsHoldMu, FetchSteps, MuSteps
  <2>3. HashIsVerified' /\ DownloadIsHashed' /\ CopyIsLast'
    BY <2>1 DEF FetchTyped, HashIsVerified, DownloadIsHashed, CopyIsLast, Matches
  <2>4. ArchiveStaysForCopy'
    BY <2>1 DEF ArchiveStaysForCopy, FetchTyped
  <2>5. QED
    BY <2>2, <2>3, <2>4
<1>2. CASE Copy(c)
  <2>1. /\ UNCHANGED <<cache, temp, expected, hash, wants, caller>>
        /\ step[c] \in {"copyCached", "copyNew"}
        /\ step' = [step EXCEPT ![c] = "leave"] /\ cacheMu' = NoCaller
        /\ copied' \in {copied, [copied EXCEPT ![c] = cache[wants[c]]]}
    BY <1>2 DEF Copy, At, Goto, lockVars
  <2>2. cacheMu = c /\ cache[wants[c]] = hash[c] /\ caller[c] = "held"
    BY <2>1 DEF StepsHoldMu, MuSteps, ArchiveStaysForCopy, FetchHoldsLock
  <2>3. FetchTyped'
    BY <2>1, <2>2 DEF FetchTyped, FetchSteps
  <2>4. FetchHoldsLock' /\ StepsHoldMu'
    BY <2>1, <2>2, SourceAssumption DEF FetchTyped, FetchHoldsLock, StepsHoldMu, MuSteps
  <2>5. HashIsVerified' /\ DownloadIsHashed' /\ CopyIsLast'
    BY <2>1, <2>2 DEF FetchTyped, HashIsVerified, DownloadIsHashed, CopyIsLast, Matches
  <2>6. ArchiveStaysForCopy'
    BY <2>1 DEF ArchiveStaysForCopy, FetchTyped
  <2>7. QED
    BY <2>3, <2>4, <2>5, <2>6
<1>3. CASE StartDownload(c)
  <2>1. /\ UNCHANGED <<cache, cacheMu, expected, hash, copied, wants, caller>>
        /\ step[c] = "fetch"
        /\ \E s \in {"leave", "receive"} : step' = [step EXCEPT ![c] = s]
        /\ temp' \in {temp, [temp EXCEPT ![c] = Partial]}
    BY <1>3 DEF StartDownload, At, Goto, lockVars
  <2>2. FetchTyped' /\ FetchHoldsLock' /\ StepsHoldMu'
    BY <2>1 DEF FetchTyped, FetchHoldsLock, StepsHoldMu, FetchSteps, MuSteps
  <2>3. HashIsVerified' /\ DownloadIsHashed' /\ CopyIsLast'
    BY <2>1 DEF FetchTyped, HashIsVerified, DownloadIsHashed, CopyIsLast, Matches
  <2>4. ArchiveStaysForCopy'
    BY <2>1 DEF ArchiveStaysForCopy, FetchTyped
  <2>5. QED
    BY <2>2, <2>3, <2>4
<1>4. CASE Receive(c)
  <2>1. /\ UNCHANGED <<cache, cacheMu, expected, copied, wants, caller>>
        /\ step[c] = "receive"
        /\ \/ /\ step' = [step EXCEPT ![c] = "leave"] /\ UNCHANGED <<temp, hash>>
           \/ \E archive \in Sizes :
                /\ archive <= MaxBytes /\ Matches(c, archive)
                /\ temp' = [temp EXCEPT ![c] = archive]
                /\ hash' = [hash EXCEPT ![c] = archive]
                /\ step' = [step EXCEPT ![c] = "publish"]
    BY <1>4 DEF Receive, At, Goto, lockVars
  <2>2. copied[c] = NoArchive /\ caller[c] = "held"
    BY <2>1 DEF CopyIsLast, FetchHoldsLock
  <2>3. FetchTyped' /\ FetchHoldsLock' /\ StepsHoldMu'
    BY <2>1 DEF FetchTyped, FetchHoldsLock, StepsHoldMu, FetchSteps, MuSteps
  <2>4. HashIsVerified' /\ DownloadIsHashed' /\ CopyIsLast'
    BY <2>1, <2>2 DEF FetchTyped, HashIsVerified, DownloadIsHashed, CopyIsLast, Matches
  <2>5. ArchiveStaysForCopy'
    BY <2>1 DEF ArchiveStaysForCopy, FetchTyped
  <2>6. QED
    BY <2>3, <2>4, <2>5
<1>5. QED
  BY <1>1, <1>2, <1>3, <1>4

(* Steps under cacheMu that change the cache directory: none of them takes   *)
(* or replaces an archive that another caller is about to copy.             *)
LEMMA CacheStepsKeepFetch ==
    ASSUME SourceInv, NEW c \in Callers, LookUp(c) \/ Reuse(c) \/ Publish(c)
    PROVE  FetchInv'
<1> USE DEF SourceInv, FetchInv
<1>1. CASE LookUp(c)
  <2>1. /\ UNCHANGED <<temp, expected, copied, wants, caller>>
        /\ step[c] = "enter" /\ cacheMu = NoCaller
        /\ \/ /\ \E s \in {"fetch", "leave"} : step' = [step EXCEPT ![c] = s]
              /\ cacheMu' = NoCaller /\ hash' = hash
           \/ /\ step' = [step EXCEPT ![c] = "reuse"]
              /\ cacheMu' = c /\ hash' = [hash EXCEPT ![c] = cache[wants[c]]]
              /\ cache' = cache /\ cache[wants[c]] # NoArchive
              /\ cache[wants[c]] <= MaxBytes /\ Matches(c, cache[wants[c]])
    BY <1>1 DEF LookUp, At, Goto, lockVars
  <2>2. cache' = cache \/ \E gone \in SUBSET {wants[c]} : Evict(gone)
    BY <1>1 DEF LookUp
  <2>3. /\ copied[c] = NoArchive /\ caller[c] = "held" /\ wants[c] \in Files
        /\ \A d \in Callers : step[d] \notin MuSteps
    BY <2>1, FileWanted, SourceAssumption DEF CopyIsLast, FetchHoldsLock, StepsHoldMu
  <2>4. cache' \in [Files -> Sizes \cup {NoArchive}]
    BY <2>2 DEF Evict, FetchTyped
  <2>5. FetchTyped' /\ FetchHoldsLock'
    BY <2>1, <2>3, <2>4 DEF FetchTyped, FetchHoldsLock, FetchSteps
  <2>6. StepsHoldMu'
    BY <2>1, <2>3, SourceAssumption DEF FetchTyped, StepsHoldMu, MuSteps
  <2>7. HashIsVerified' /\ DownloadIsHashed' /\ CopyIsLast'
    BY <2>1, <2>3 DEF FetchTyped, HashIsVerified, DownloadIsHashed, CopyIsLast, Matches
  <2>8. ArchiveStaysForCopy'
    BY <2>1, <2>3 DEF ArchiveStaysForCopy, FetchTyped, MuSteps
  <2>9. QED
    BY <2>5, <2>6, <2>7, <2>8
<1>2. CASE Reuse(c)
  <2>1. /\ UNCHANGED <<temp, expected, hash, copied, wants, caller>>
        /\ step[c] = "reuse"
        /\ \/ step' = [step EXCEPT ![c] = "copyCached"] /\ cacheMu' = cacheMu
           \/ step' = [step EXCEPT ![c] = "leave"] /\ cacheMu' = NoCaller
    BY <1>2 DEF Reuse, At, Goto, lockVars
  <2>2. \E gone : wants[c] \notin gone /\ Evict(gone)
    BY <1>2 DEF Reuse, Trimmed, TrimFailed, Oldest, Candidates
  <2>3. /\ cacheMu = c /\ cache[wants[c]] = hash[c] /\ caller[c] = "held" /\ wants[c] \in Files
        /\ copied[c] = NoArchive
        /\ \A d \in Callers \ {c} : step[d] \notin MuSteps
    BY <2>1, FileWanted DEF StepsHoldMu, MuSteps, ArchiveStaysForCopy, FetchHoldsLock, CopyIsLast
  <2>4. cache' \in [Files -> Sizes \cup {NoArchive}] /\ cache'[wants[c]] = cache[wants[c]]
    BY <2>2, <2>3 DEF Evict, FetchTyped
  <2>5. FetchTyped' /\ FetchHoldsLock'
    BY <2>1, <2>3, <2>4 DEF FetchTyped, FetchHoldsLock, FetchSteps
  <2>6. StepsHoldMu'
    BY <2>1, <2>3, SourceAssumption DEF FetchTyped, StepsHoldMu, MuSteps
  <2>7. HashIsVerified' /\ DownloadIsHashed' /\ CopyIsLast'
    BY <2>1, <2>3 DEF FetchTyped, HashIsVerified, DownloadIsHashed, CopyIsLast, Matches
  <2>8. ArchiveStaysForCopy'
    BY <2>1, <2>3, <2>4 DEF ArchiveStaysForCopy, FetchTyped, MuSteps
  <2>9. QED
    BY <2>5, <2>6, <2>7, <2>8
<1>3. CASE Publish(c)
  <2>1. /\ UNCHANGED <<expected, hash, copied, wants, caller>>
        /\ step[c] = "publish" /\ cacheMu = NoCaller
        /\ \/ /\ step' = [step EXCEPT ![c] = "copyNew"] /\ cacheMu' = c
              /\ temp' = [temp EXCEPT ![c] = NoArchive]
              /\ \E gone : cache' = [f \in Files |-> IF f = wants[c] THEN temp[c]
                                         ELSE IF f \in gone THEN NoArchive ELSE cache[f]]
           \/ /\ step' = [step EXCEPT ![c] = "leave"] /\ cacheMu' = cacheMu /\ temp' = temp
              /\ \E gone : Evict(gone)
    BY <1>3 DEF Publish, At, Goto, lockVars
  <2>2. /\ temp[c] = hash[c] /\ hash[c] \in Sizes
        /\ copied[c] = NoArchive /\ caller[c] = "held" /\ wants[c] \in Files
        /\ \A d \in Callers : step[d] \notin MuSteps
    BY <2>1, FileWanted, SourceAssumption DEF DownloadIsHashed, CopyIsLast, FetchHoldsLock,
       StepsHoldMu
  <2>3. /\ cache' \in [Files -> Sizes \cup {NoArchive}]
        /\ step'[c] = "copyNew" => cache'[wants[c]] = hash[c]
    BY <2>1, <2>2 DEF Evict, FetchTyped
  <2>4. FetchTyped' /\ FetchHoldsLock'
    BY <2>1, <2>2, <2>3 DEF FetchTyped, FetchHoldsLock, FetchSteps
  <2>5. StepsHoldMu'
    BY <2>1, <2>2, SourceAssumption DEF FetchTyped, StepsHoldMu, MuSteps
  <2>6. HashIsVerified' /\ DownloadIsHashed' /\ CopyIsLast'
    BY <2>1, <2>2 DEF FetchTyped, HashIsVerified, DownloadIsHashed, CopyIsLast, Matches
  <2>7. ArchiveStaysForCopy'
    BY <2>1, <2>2, <2>3 DEF ArchiveStaysForCopy, FetchTyped, MuSteps
  <2>8. QED
    BY <2>4, <2>5, <2>6, <2>7
<1>4. QED
  BY <1>1, <1>2, <1>3

LEMMA SourceInvStep == SourceInv /\ [Next]_vars => SourceInv'
<1> SUFFICES ASSUME SourceInv, [Next]_vars PROVE SourceInv'
  OBVIOUS
<1>1. LockInv'
  BY StepsOfLock, LockInvStep DEF SourceInv
<1>2. FetchInv'
  <2>1. CASE UNCHANGED vars
    BY <2>1 DEF vars, lockVars, fetchVars, SourceInv, FetchInv, FetchTyped, FetchHoldsLock,
       StepsHoldMu, HashIsVerified, Matches, DownloadIsHashed, CopyIsLast, ArchiveStaysForCopy
  <2>2. CASE Next
    BY <2>2, LockStepsKeepFetch, QuietStepsKeepFetch, CacheStepsKeepFetch DEF Next, Fetch
  <2>3. QED
    BY <2>1, <2>2
<1>3. QED
  BY <1>1, <1>2 DEF SourceInv

(* Locks, hashes, downloads and copies are always as fetchSource needs them. *)
THEOREM SourceCorrect == Spec => []SourceInv
<1>1. Init => SourceInv
  BY FetchInvInit, LockInvInit DEF Init, SourceInv
<1>2. QED
  BY <1>1, SourceInvStep, PTL DEF Spec

(* fetchSource serializes downloads of the same file.                       *)
THEOREM FetchesExclude == Spec => []OneDownloadPerFile
<1>1. SourceInv => OneDownloadPerFile
  BY OwnFile DEF OneDownloadPerFile
<1>2. QED
  BY <1>1, SourceCorrect, PTL

(* No publication or eviction takes an archive that is about to be copied.  *)
THEOREM ArchivesStay == Spec => []ArchiveStaysForCopy
<1>1. SourceInv => ArchiveStaysForCopy
  BY DEF SourceInv, FetchInv
<1>2. QED
  BY <1>1, SourceCorrect, PTL

(* A fetch that succeeds delivers the archive it verified.                  *)
THEOREM VerifiedIsServed == Spec => []ServedIsVerified
<1>1. SourceInv => ServedIsVerified
  BY DEF SourceInv, FetchInv, CopyIsLast, HashIsVerified, Matches, ServedIsVerified
<1>2. QED
  BY <1>1, SourceCorrect, PTL

-----------------------------------------------------------------------------
(* Orders of archives: one without some of them, with one made the newest,  *)
(* or with one renamed is an order again.                                   *)

Ordered(rel, S) ==
    /\ rel \subseteq S \X S
    /\ \A x \in S : <<x, x>> \notin rel
    /\ \A x, y \in S : x = y \/ <<x, y>> \in rel \/ <<y, x>> \in rel
    /\ \A x, y, z \in S : <<x, y>> \in rel /\ <<y, z>> \in rel => <<x, z>> \in rel

LEMMA OrderMeans ==
    ASSUME NEW rel, NEW S
    PROVE  rel \subseteq S \X S /\ IsStrictlyTotallyOrdered([p \in S \X S |-> p \in rel], S)
           <=> Ordered(rel, S)
<1> DEFINE R == [p \in S \X S |-> p \in rel]
<1>1. \A x, y \in S : R[x, y] <=> <<x, y>> \in rel
  OBVIOUS
<1> HIDE DEF R
<1>2. IsStrictlyTotallyOrdered(R, S) <=>
        /\ \A x \in S : <<x, x>> \notin rel
        /\ \A x, y \in S : x = y \/ <<x, y>> \in rel \/ <<y, x>> \in rel
        /\ \A x, y, z \in S : <<x, y>> \in rel /\ <<y, z>> \in rel => <<x, z>> \in rel
  BY <1>1 DEF IsStrictlyTotallyOrdered, IsStrictlyPartiallyOrdered, IsIrreflexive,
     IsAntiSymmetric, IsTransitive
<1>3. QED
  BY <1>2 DEF R, Ordered

LEMMA OrderRestricts ==
    ASSUME NEW rel, NEW S, NEW gone, Ordered(rel, S)
    PROVE  Ordered({p \in rel : p[1] \notin gone /\ p[2] \notin gone}, S \ gone)
<1> DEFINE rest == {p \in rel : p[1] \notin gone /\ p[2] \notin gone}
<1>1. \A x, y \in S \ gone : <<x, y>> \in rest <=> <<x, y>> \in rel
  OBVIOUS
<1>2. rest \subseteq (S \ gone) \X (S \ gone)
  BY DEF Ordered
<1> HIDE DEF rest
<1>3. Ordered(rest, S \ gone)
  BY <1>1, <1>2 DEF Ordered
<1>4. QED
  BY <1>3 DEF rest

LEMMA NewestIsOrdered ==
    ASSUME NEW rel, NEW S, NEW x, Ordered(rel, S)
    PROVE  Ordered({p \in rel : p[1] \notin {x} /\ p[2] \notin {x}} \cup ((S \ {x}) \X {x}),
                   S \cup {x})
<1> DEFINE rest == {p \in rel : p[1] \notin {x} /\ p[2] \notin {x}}
           new == rest \cup ((S \ {x}) \X {x})
<1>1. Ordered(rest, S \ {x})
  BY OrderRestricts
<1> HIDE DEF rest
<1>2. \A y, z : <<y, z>> \in new <=> <<y, z>> \in rest \/ (y \in S \ {x} /\ z = x)
  OBVIOUS
<1>3. \A y, z : <<y, z>> \in rest => y \in S \ {x} /\ z \in S \ {x}
  BY <1>1 DEF Ordered
<1>4. new \subseteq (S \cup {x}) \X (S \cup {x})
  BY <1>1 DEF Ordered
<1> HIDE DEF new
<1>5. Ordered(new, S \cup {x})
  <2>1. \A y \in S \cup {x} : <<y, y>> \notin new
    BY <1>1, <1>2, <1>3 DEF Ordered
  <2>2. \A y, z \in S \cup {x} : y = z \/ <<y, z>> \in new \/ <<z, y>> \in new
    BY <1>1, <1>2 DEF Ordered
  <2>3. \A w, y, z \in S \cup {x} : <<w, y>> \in new /\ <<y, z>> \in new => <<w, z>> \in new
    BY <1>1, <1>2, <1>3 DEF Ordered
  <2>4. QED
    BY <1>4, <2>1, <2>2, <2>3 DEF Ordered
<1>6. QED
  BY <1>5 DEF new, rest

LEMMA RenamedIsOrdered ==
    ASSUME NEW rel, NEW S, NEW c \in S, NEW w, w \notin S, Ordered(rel, S)
    PROVE  Ordered({<<IF p[1] = c THEN w ELSE p[1], IF p[2] = c THEN w ELSE p[2]>> : p \in rel},
                   (S \ {c}) \cup {w})
<1> DEFINE To(x) == IF x = c THEN w ELSE x
           From(x) == IF x = w THEN c ELSE x
           T == (S \ {c}) \cup {w}
           new == {<<To(p[1]), To(p[2])>> : p \in rel}
<1>1. \A x \in S : To(x) \in T /\ From(To(x)) = x
  OBVIOUS
<1>2. \A x \in T : From(x) \in S /\ To(From(x)) = x
  OBVIOUS
<1> HIDE DEF To, From, T
<1>3. new \subseteq T \X T
  BY <1>1 DEF Ordered
<1>4. \A x, y \in T : <<x, y>> \in new <=> <<From(x), From(y)>> \in rel
  <2> SUFFICES ASSUME NEW x \in T, NEW y \in T
               PROVE  <<x, y>> \in new <=> <<From(x), From(y)>> \in rel
    OBVIOUS
  <2>1. ASSUME <<From(x), From(y)>> \in rel PROVE <<x, y>> \in new
    <3>1. \E p \in rel : x = To(p[1]) /\ y = To(p[2])
      BY <2>1, <1>2
    <3>2. QED
      BY <3>1
  <2>2. ASSUME <<x, y>> \in new PROVE <<From(x), From(y)>> \in rel
    <3>1. PICK p \in rel : x = To(p[1]) /\ y = To(p[2])
      BY <2>2
    <3>2. p \in S \X S
      BY DEF Ordered
    <3>3. From(x) = p[1] /\ From(y) = p[2] /\ p = <<p[1], p[2]>>
      BY <3>1, <3>2, <1>1
    <3>4. QED
      BY <3>3
  <2>3. QED
    BY <2>1, <2>2
<1> HIDE DEF new
<1>5. Ordered(new, T)
  <2>1. \A x, y \in T : From(x) = From(y) => x = y
    BY <1>2
  <2>2. QED
    BY <1>2, <1>3, <1>4, <2>1 DEF Ordered
<1>6. QED
  BY <1>5 DEF new, T, To

-----------------------------------------------------------------------------
(* Bytes of archives: some of them are no more than all, and one more adds  *)
(* its size.                                                                *)

BytesOf(size, files) == UNION {{f} \X (1 .. size[f]) : f \in files}

LEMMA BytesOfOne ==
    ASSUME NEW f, NEW n \in Nat
    PROVE  IsFiniteSet({f} \X (1 .. n)) /\ Cardinality({f} \X (1 .. n)) = n
<1>1. IsFiniteSet({f}) /\ Cardinality({f}) = 1
  BY FS_Singleton
<1>2. IsFiniteSet(1 .. n) /\ Cardinality(1 .. n) = n
  <2>1. IsFiniteSet(1 .. n) /\ Cardinality(1 .. n) = IF 1 > n THEN 0 ELSE n - 1 + 1
    BY 1 \in Int, n \in Int, FS_Interval
  <2>2. QED
    BY <2>1
<1>3. /\ IsFiniteSet({f} \X (1 .. n))
      /\ Cardinality({f} \X (1 .. n)) = Cardinality({f}) * Cardinality(1 .. n)
  BY <1>1, <1>2, FS_Product
<1>4. QED
  BY <1>1, <1>2, <1>3

LEMMA BytesAreFinite ==
    ASSUME NEW size, NEW files, IsFiniteSet(files), \A f \in files : size[f] \in Nat
    PROVE  /\ IsFiniteSet(BytesOf(size, files))
           /\ Cardinality(BytesOf(size, files)) \in Nat
<1> DEFINE parts == {{f} \X (1 .. size[f]) : f \in files}
           part == [f \in files |-> {f} \X (1 .. size[f])]
<1>1. part \in Surjection(files, parts)
  BY DEF Surjection
<1>2. IsFiniteSet(parts)
  <2> HIDE DEF part, parts
  <2>1. QED
    BY <1>1, FS_Surjection
<1>3. \A p \in parts : IsFiniteSet(p)
  <2> SUFFICES ASSUME NEW f \in files PROVE IsFiniteSet({f} \X (1 .. size[f]))
    OBVIOUS
  <2>1. size[f] \in Nat
    OBVIOUS
  <2>2. QED
    BY <2>1, BytesOfOne
<1>4. IsFiniteSet(UNION parts)
  <2> HIDE DEF parts
  <2>1. QED
    BY <1>2, <1>3, FS_UNION
<1>5. QED
  BY <1>4, FS_CardinalityType DEF BytesOf

LEMMA FewerBytes ==
    ASSUME NEW size, NEW files, IsFiniteSet(files), \A f \in files : size[f] \in Nat,
           NEW some \in SUBSET files
    PROVE  Cardinality(BytesOf(size, some)) <= Cardinality(BytesOf(size, files))
<1>1. BytesOf(size, some) \in SUBSET BytesOf(size, files)
  BY DEF BytesOf
<1>2. QED
  BY <1>1, BytesAreFinite, FS_Subset

LEMMA OneMoreFile ==
    ASSUME NEW size, NEW files, IsFiniteSet(files), \A f \in files : size[f] \in Nat,
           NEW g, g \notin files, size[g] \in Nat
    PROVE  Cardinality(BytesOf(size, files \cup {g}))
              = Cardinality(BytesOf(size, files)) + size[g]
<1> DEFINE own == {g} \X (1 .. size[g])
<1>1. IsFiniteSet(own) /\ Cardinality(own) = size[g]
  BY BytesOfOne
<1>2. /\ BytesOf(size, files \cup {g}) = BytesOf(size, files) \cup own
      /\ BytesOf(size, files) \cap own = {}
  BY DEF BytesOf
<1> HIDE DEF own
<1>3. IsFiniteSet(BytesOf(size, files)) /\ Cardinality(BytesOf(size, files)) \in Nat
  BY BytesAreFinite
<1>4. Cardinality(BytesOf(size, files) \cup own)
        = Cardinality(BytesOf(size, files)) + Cardinality(own) - Cardinality({})
  BY <1>1, <1>2, <1>3, FS_Union
<1>5. Cardinality({}) = 0
  BY FS_EmptySet
<1>6. QED
  <2>1. Cardinality(BytesOf(size, files \cup {g}))
          = Cardinality(BytesOf(size, files)) + Cardinality(own) - 0
    BY <1>2, <1>4, <1>5
  <2>2. Cardinality(own) = size[g] /\ size[g] \in Nat
    BY <1>1
  <2>3. QED
    BY <1>3, <2>1, <2>2

LEMMA SameBytes ==
    ASSUME NEW size, NEW other, NEW files, \A f \in files : size[f] = other[f]
    PROVE  BytesOf(size, files) = BytesOf(other, files)
BY DEF BytesOf

LEMMA TotalIsBytes == \A files : TotalSize(files) = Cardinality(BytesOf(cache, files))
BY DEF TotalSize, BytesOf

-----------------------------------------------------------------------------
(* The directory: its order and its budget.  A finished download is about   *)
(* to be published, or about to be removed; and an archive is copied only   *)
(* out of a cache that keeps its budget.                                    *)

FinishedIsLate ==
    \A c \in Callers : temp[c] \in Sizes => step[c] \in {"publish", "leave"}

CopiesFit ==
    \A c \in Callers :
        step[c] \in {"copyCached", "copyNew"} => TotalSize(Cached) <= CacheBytes

(* cacheMu is only kept for an archive whose hash is known. *)
MuHasHash == \A c \in Callers : step[c] \in MuSteps => hash[c] \in Sizes

CacheInv ==
    /\ SourceInv
    /\ MuHasHash
    /\ IsFiniteSet(Cached)
    /\ OrderOK
    /\ FinishedIsLate
    /\ CopiesFit

LEMMA OrderOKMeans == (OrderOK <=> Ordered(older, Dated)) /\ (OrderOK' <=> Ordered(older', Dated'))
BY OrderMeans DEF OrderOK, Before

LEMMA CachedSizes ==
    ASSUME FetchTyped
    PROVE  \A f \in Cached : f \in Files /\ cache[f] \in Sizes /\ cache[f] \in Nat
BY SourceAssumption DEF FetchTyped, Cached

LEMMA TotalIsNatural ==
    ASSUME FetchTyped, NEW files \in SUBSET Cached, IsFiniteSet(Cached)
    PROVE  TotalSize(files) \in Nat /\ TotalSize(files) <= TotalSize(Cached)
<1>1. IsFiniteSet(files)
  BY FS_Subset
<1>2. \A f \in Cached : cache[f] \in Nat
  BY CachedSizes
<1>3. QED
  BY <1>1, <1>2, TotalIsBytes, BytesAreFinite, FewerBytes

(* What is evicted leaves an order and fewer bytes. *)
LEMMA EvictionKeepsOrder ==
    ASSUME FetchTyped, IsFiniteSet(Cached), OrderOK,
           NEW gone \in SUBSET Cached, Evict(gone), older' = Without(gone), temp' = temp
    PROVE  /\ IsFiniteSet(Cached)'
           /\ OrderOK'
           /\ TotalSize(Cached)' = TotalSize(Cached \ gone)
           /\ TotalSize(Cached)' <= TotalSize(Cached)
<1>1. Cached' = Cached \ gone
  BY DEF Evict, Cached
<1>2. Dated' = Dated \ gone
  BY <1>1, SourceAssumption DEF Dated, Cached
<1>3. OrderOK'
  <2>1. Ordered(older, Dated)
    BY OrderOKMeans
  <2>2. Ordered(Without(gone), Dated \ gone)
    BY <2>1, OrderRestricts DEF Without
  <2>3. QED
    BY <1>2, <2>2, OrderOKMeans
<1>4. TotalSize(Cached)' = TotalSize(Cached \ gone)
  <2>1. \A f \in Cached \ gone : cache[f] = cache'[f]
    BY DEF Evict, Cached
  <2>2. TotalSize(Cached)' = Cardinality(BytesOf(cache', Cached \ gone))
    BY <1>1 DEF TotalSize, BytesOf
  <2>3. QED
    BY <2>1, <2>2, SameBytes, TotalIsBytes
<1>5. IsFiniteSet(Cached)' /\ TotalSize(Cached \ gone) <= TotalSize(Cached)
  BY <1>1, FS_Subset, TotalIsNatural
<1>6. QED
  BY <1>3, <1>4, <1>5

LEMMA OldestAreCached == \A c, k : Oldest(c, k) \in SUBSET Cached /\ wants[c] \notin Oldest(c, k)
BY DEF Oldest, Candidates

(* A trim that succeeds takes archives until the rest and what comes in     *)
(* fit; one that fails takes archives as well.                              *)
LEMMA TrimTakesOldest ==
    ASSUME NEW c, NEW incoming, IsFiniteSet(Cached),
           NEW gone \in Trimmed(c, incoming) \cup TrimFailed(c, incoming)
    PROVE  \E k \in Nat : gone = Oldest(c, k)
<1>1. Cardinality(Candidates(c)) \in Nat
  BY FS_Subset, FS_CardinalityType DEF Candidates
<1>2. QED
  BY <1>1 DEF Trimmed, TrimFailed

LEMMA TrimmedFits ==
    ASSUME NEW c, NEW incoming, NEW gone \in Trimmed(c, incoming)
    PROVE  incoming + TotalSize(Counted(c, incoming) \ gone) <= CacheBytes
BY DEF Trimmed, FitsWithout

(* An archive that is published takes the place of the download and fits.   *)
LEMMA PublicationKeepsOrder ==
    ASSUME CacheInv, NEW c \in Callers, NEW gone \in Trimmed(c, temp[c]),
           wants[c] \in Files, temp[c] \in Sizes,
           cache' = [f \in Files |-> IF f = wants[c] THEN temp[c]
                                     ELSE IF f \in gone THEN NoArchive ELSE cache[f]],
           older' = {<<Published(c, p[1]), Published(c, p[2])>> :
                        p \in Without(gone \cup {wants[c]})},
           temp' = [temp EXCEPT ![c] = NoArchive]
    PROVE  /\ IsFiniteSet(Cached)'
           /\ OrderOK'
           /\ TotalSize(Cached)' <= CacheBytes
<1> DEFINE w == wants[c]
           rest == Cached \ (gone \cup {w})
<1>1. FetchTyped /\ IsFiniteSet(Cached) /\ Ordered(older, Dated)
  BY OrderOKMeans DEF CacheInv, SourceInv, FetchInv
<1>2. gone \in SUBSET Cached /\ w \notin gone
  BY <1>1, TrimTakesOldest, OldestAreCached
<1>3. Cached' = rest \cup {w} /\ w \notin rest
  BY <1>2, SourceAssumption DEF Cached
<1>4. OrderOK'
  <2>1. Ordered(Without(gone \cup {w}), Dated \ (gone \cup {w}))
    BY <1>1, OrderRestricts DEF Without
  <2>2. c \in Dated \ (gone \cup {w}) /\ w \notin Dated \ (gone \cup {w})
    BY <1>2, SourceAssumption DEF Dated, Cached
  <2>3. Ordered(older', ((Dated \ (gone \cup {w})) \ {c}) \cup {w})
    BY <2>1, <2>2, RenamedIsOrdered DEF Published
  <2>4. Dated' = ((Dated \ (gone \cup {w})) \ {c}) \cup {w}
    <3>1. {d \in Callers : temp'[d] \in Sizes} = {d \in Callers : temp[d] \in Sizes} \ {c}
      BY <1>1, SourceAssumption DEF FetchTyped
    <3>2. QED
      BY <1>2, <1>3, <3>1, SourceAssumption DEF Dated, Cached
  <2>5. QED
    BY <2>3, <2>4, OrderOKMeans
<1>5. IsFiniteSet(rest) /\ IsFiniteSet(rest \cup {w})
  BY <1>1, FS_Subset, FS_AddElement
<1>6. TotalSize(Cached)' <= CacheBytes
  <2>1. /\ \A f \in rest : cache'[f] = cache[f] /\ cache[f] \in Nat
        /\ cache'[w] = temp[c] /\ temp[c] \in Nat
    BY <1>2, CachedSizes, <1>1, SourceAssumption
  <2>2. TotalSize(Cached)' = Cardinality(BytesOf(cache', rest \cup {w}))
    BY <1>3 DEF TotalSize, BytesOf
  <2>3. Cardinality(BytesOf(cache', rest \cup {w}))
          = Cardinality(BytesOf(cache', rest)) + temp[c]
    BY <1>3, <1>5, <2>1, OneMoreFile
  <2>4. BytesOf(cache', rest) = BytesOf(cache, rest)
    BY <2>1, SameBytes
  <2>5. TotalSize(rest) <= TotalSize(Counted(c, temp[c]) \ gone)
    <3> DEFINE counted == Counted(c, temp[c]) \ gone
    <3>1. counted \in SUBSET Cached /\ rest \in SUBSET counted
      BY DEF Counted
    <3>2. IsFiniteSet(counted) /\ \A f \in counted : cache[f] \in Nat
      BY <1>1, <3>1, FS_Subset, CachedSizes
    <3> HIDE DEF counted, rest
    <3>3. QED
      BY <3>1, <3>2, FewerBytes, TotalIsBytes DEF counted
  <2>6. /\ temp[c] + TotalSize(Counted(c, temp[c]) \ gone) <= CacheBytes
        /\ TotalSize(rest) = Cardinality(BytesOf(cache, rest))
    BY TrimmedFits, TotalIsBytes
  <2>7. TotalSize(rest) \in Nat /\ TotalSize(Counted(c, temp[c]) \ gone) \in Nat
    BY <1>1, TotalIsNatural DEF Counted
  <2>8. QED
    BY <2>1, <2>2, <2>3, <2>4, <2>5, <2>6, <2>7, SourceAssumption
<1>7. QED
  BY <1>3, <1>4, <1>5, <1>6

(* A step either leaves the directory as it is, takes archives from it or   *)
(* publishes one within the budget.                                         *)
LEMMA LookUpChanges ==
    ASSUME CacheInv, NEW c \in Callers, LookUp(c)
    PROVE  /\ \E gone \in SUBSET Cached : Evict(gone) /\ older' = Without(gone)
           /\ temp' = temp
           /\ step[c] = "enter"
           /\ \E s \in {"fetch", "leave", "reuse"} : step' = [step EXCEPT ![c] = s]
<1>1. FetchTyped /\ Ordered(older, Dated) /\ wants[c] \in Files
  BY OrderOKMeans, FileWanted DEF CacheInv, SourceInv, FetchInv, LookUp, At
<1>2. ASSUME cache' = cache, older' = older
      PROVE  Evict({}) /\ older' = Without({})
  BY <1>1, <1>2 DEF Evict, FetchTyped, Without
<1>3. ASSUME cache[wants[c]] # NoArchive,
             NEW gone \in SUBSET {wants[c]}, Evict(gone), older' = Without(gone)
      PROVE  gone \in SUBSET Cached /\ Evict(gone) /\ older' = Without(gone)
  BY <1>1, <1>3 DEF Cached
<1>4. \/ cache' = cache /\ older' = older
      \/ /\ cache[wants[c]] # NoArchive
         /\ \E gone \in SUBSET {wants[c]} : Evict(gone) /\ older' = Without(gone)
  BY DEF LookUp
<1>5. \E gone \in SUBSET Cached : Evict(gone) /\ older' = Without(gone)
  <2>1. {} \in SUBSET Cached
    OBVIOUS
  <2>2. QED
    BY <2>1, <1>2, <1>3, <1>4
<1>6. QED
  BY <1>5 DEF LookUp, At, Goto

LEMMA ReuseChanges ==
    ASSUME CacheInv, NEW c \in Callers, Reuse(c)
    PROVE  /\ \E gone \in SUBSET Cached : Evict(gone) /\ older' = Without(gone)
           /\ temp' = temp
           /\ step[c] = "reuse"
           /\ \/ step' = [step EXCEPT ![c] = "leave"]
              \/ step' = [step EXCEPT ![c] = "copyCached"] /\ TotalSize(Cached)' <= CacheBytes
<1>1. FetchTyped /\ IsFiniteSet(Cached) /\ OrderOK
  BY DEF CacheInv, SourceInv, FetchInv
<1>2. temp' = temp /\ step[c] = "reuse"
  BY DEF Reuse, At
<1>3. ASSUME NEW gone \in Trimmed(c, 0), Evict(gone), older' = Without(gone)
      PROVE  gone \in SUBSET Cached /\ TotalSize(Cached)' <= CacheBytes
  <2>1. gone \in SUBSET Cached
    BY <1>1, <1>3, TrimTakesOldest, OldestAreCached
  <2>2. TotalSize(Cached)' = TotalSize(Cached \ gone)
    BY <1>1, <1>2, <1>3, <2>1, EvictionKeepsOrder
  <2>3. 0 + TotalSize(Cached \ gone) <= CacheBytes
    BY <1>3, TrimmedFits DEF Counted
  <2>4. TotalSize(Cached \ gone) \in Nat
    BY <1>1, TotalIsNatural
  <2>5. QED
    BY <2>1, <2>2, <2>3, <2>4
<1>4. ASSUME NEW gone \in TrimFailed(c, 0)
      PROVE  gone \in SUBSET Cached
  BY <1>1, <1>4, TrimTakesOldest, OldestAreCached
<1>5. CASE \E gone \in Trimmed(c, 0) :
             Evict(gone) /\ older' = Without(gone) /\ Goto(c, "copyCached")
  BY <1>2, <1>3, <1>5 DEF Goto
<1>6. CASE \E gone \in TrimFailed(c, 0) :
             Evict(gone) /\ older' = Without(gone) /\ Goto(c, "leave")
  BY <1>2, <1>4, <1>6 DEF Goto
<1>7. QED
  BY <1>5, <1>6 DEF Reuse

LEMMA PublishChanges ==
    ASSUME CacheInv, NEW c \in Callers, Publish(c)
    PROVE  /\ step[c] = "publish"
           /\ \/ /\ step' = [step EXCEPT ![c] = "leave"] /\ temp' = temp
                 /\ \E gone \in SUBSET Cached : Evict(gone) /\ older' = Without(gone)
              \/ /\ step' = [step EXCEPT ![c] = "copyNew"]
                 /\ temp' = [temp EXCEPT ![c] = NoArchive]
                 /\ IsFiniteSet(Cached)' /\ OrderOK' /\ TotalSize(Cached)' <= CacheBytes
<1>1. IsFiniteSet(Cached) /\ step[c] = "publish"
  BY DEF CacheInv, Publish, At
<1>2. wants[c] \in Files /\ temp[c] \in Sizes
  BY <1>1, FileWanted DEF CacheInv, SourceInv, FetchInv, DownloadIsHashed
<1>3. CASE \E gone \in Trimmed(c, temp[c]) :
             /\ cache' = [f \in Files |-> IF f = wants[c] THEN temp[c]
                                          ELSE IF f \in gone THEN NoArchive ELSE cache[f]]
             /\ older' = {<<Published(c, p[1]), Published(c, p[2])>> :
                             p \in Without(gone \cup {wants[c]})}
             /\ temp' = [temp EXCEPT ![c] = NoArchive]
             /\ Goto(c, "copyNew")
  BY <1>1, <1>2, <1>3, PublicationKeepsOrder DEF Goto
<1>4. CASE \E gone \in Trimmed(c, temp[c]) \cup TrimFailed(c, temp[c]) :
             Evict(gone) /\ older' = Without(gone) /\ Goto(c, "leave") /\ temp' = temp
  BY <1>1, <1>4, TrimTakesOldest, OldestAreCached DEF Goto
<1>5. QED
  BY <1>3, <1>4 DEF Publish

(* The steps that evict, publish or mend nothing in the directory. *)
LEMMA OtherChanges ==
    ASSUME CacheInv, NEW c \in Callers,
           \/ \E f \in Files, x \in Hashes : Begin(c, f, x)
           \/ GotLock(c) \/ GaveUp(c) \/ Cancelled(c) \/ Return(c)
           \/ CheckContext(c) \/ StartDownload(c) \/ Copy(c) \/ Receive(c) \/ Leave(c)
    PROVE  /\ cache' = cache
           /\ \A d \in Callers : step'[d] \in {"copyCached", "copyNew"} => step'[d] = step[d]
           /\ OrderOK'
           /\ FinishedIsLate'
<1>1. FetchTyped /\ Ordered(older, Dated) /\ FinishedIsLate
  BY OrderOKMeans DEF CacheInv, SourceInv, FetchInv
<1> DEFINE StepsStay ==
             \A d \in Callers : step'[d] \in {"copyCached", "copyNew"} => step'[d] = step[d]
<1>2. CASE \/ \E f \in Files, x \in Hashes : Begin(c, f, x)
           \/ GotLock(c) \/ GaveUp(c) \/ Cancelled(c) \/ Return(c) \/ CheckContext(c)
  <2>1. /\ UNCHANGED <<cache, older, temp>>
        /\ \/ step' = step
           \/ /\ step[c] \in {"none", "locked"}
              /\ \E s \in {"locked", "leave", "enter"} : step' = [step EXCEPT ![c] = s]
    <3>1. CASE GotLock(c)
      <4>1. caller[c] = "select"
        BY <3>1 DEF GotLock, Take
      <4>2. step[c] = "none"
        BY <4>1 DEF CacheInv, SourceInv, FetchInv, FetchHoldsLock
      <4>3. QED
        BY <3>1, <4>2 DEF GotLock, Goto
    <3>2. CASE CheckContext(c)
      BY <3>2 DEF CheckContext, At, Goto
    <3>3. QED
      BY <1>2, <3>1, <3>2 DEF Begin, GaveUp, Cancelled, Return, fetchVars
  <2>2. Dated' = Dated
    BY <2>1 DEF Dated, Cached
  <2>3. OrderOK'
    BY <1>1, <2>1, <2>2, OrderOKMeans
  <2>4. StepsStay /\ FinishedIsLate'
    BY <1>1, <2>1 DEF FinishedIsLate, FetchTyped
  <2>5. QED
    BY <2>1, <2>3, <2>4
<1>3. CASE StartDownload(c)
  <2>1. /\ UNCHANGED <<cache, older>> /\ step[c] = "fetch"
        /\ \/ step' = [step EXCEPT ![c] = "leave"] /\ temp' = temp
           \/ step' = [step EXCEPT ![c] = "receive"] /\ temp' = [temp EXCEPT ![c] = Partial]
    BY <1>3 DEF StartDownload, At, Goto
  <2>2. temp[c] \notin Sizes
    BY <1>1, <2>1 DEF FinishedIsLate
  <2>3. \A d \in Callers : temp'[d] \in Sizes <=> temp[d] \in Sizes
    BY <1>1, <2>1, <2>2, SourceAssumption DEF FetchTyped
  <2>4. OrderOK'
    <3>1. Dated' = Dated
      BY <2>1, <2>3 DEF Dated, Cached
    <3>2. QED
      BY <1>1, <2>1, <3>1, OrderOKMeans
  <2>5. StepsStay /\ FinishedIsLate'
    BY <1>1, <2>1, <2>2, <2>3 DEF FinishedIsLate, FetchTyped
  <2>6. QED
    BY <2>1, <2>4, <2>5
<1>4. CASE Copy(c)
  <2>1. /\ UNCHANGED <<cache, temp>> /\ step[c] \in {"copyCached", "copyNew"}
        /\ step' = [step EXCEPT ![c] = "leave"]
        /\ older' = older \/ older' = WithNewest(wants[c])
    BY <1>4 DEF Copy, At, Goto, Touched
  <2>2. wants[c] \in Dated
    <3>1. wants[c] \in Files
      BY <2>1, FileWanted DEF CacheInv
    <3>2. cache[wants[c]] = hash[c]
      BY <2>1 DEF CacheInv, SourceInv, FetchInv, ArchiveStaysForCopy
    <3>3. hash[c] # NoArchive
      BY <2>1, SourceAssumption DEF CacheInv, MuHasHash, MuSteps
    <3>4. QED
      BY <3>1, <3>2, <3>3 DEF Dated, Cached
  <2>3. Ordered(WithNewest(wants[c]), Dated)
    <3>1. Ordered(WithNewest(wants[c]), Dated \cup {wants[c]})
      BY <1>1, NewestIsOrdered DEF WithNewest, Without
    <3>2. QED
      BY <2>2, <3>1
  <2>4. OrderOK'
    <3>1. Dated' = Dated
      BY <2>1 DEF Dated, Cached
    <3>2. QED
      BY <1>1, <2>1, <2>3, <3>1, OrderOKMeans
  <2>5. StepsStay /\ FinishedIsLate'
    BY <1>1, <2>1 DEF FinishedIsLate, FetchTyped
  <2>6. QED
    BY <2>1, <2>4, <2>5
<1>5. CASE Receive(c)
  <2>1. /\ cache' = cache /\ step[c] = "receive"
        /\ \/ step' = [step EXCEPT ![c] = "leave"] /\ UNCHANGED <<temp, older>>
           \/ \E archive \in Sizes :
                /\ temp' = [temp EXCEPT ![c] = archive]
                /\ older' = WithNewest(c)
                /\ step' = [step EXCEPT ![c] = "publish"]
    BY <1>5 DEF Receive, At, Goto
  <2>2. OrderOK'
    <3>1. CASE UNCHANGED <<temp, older>>
      <4>1. Dated' = Dated
        BY <2>1, <3>1 DEF Dated, Cached
      <4>2. QED
        BY <1>1, <3>1, <4>1, OrderOKMeans
    <3>2. CASE older' = WithNewest(c) /\ \E archive \in Sizes : temp' = [temp EXCEPT ![c] = archive]
      <4>1. Dated' = Dated \cup {c}
        <5>1. {d \in Callers : temp'[d] \in Sizes} = {d \in Callers : temp[d] \in Sizes} \cup {c}
          BY <1>1, <3>2 DEF FetchTyped
        <5>2. QED
          BY <2>1, <5>1 DEF Dated, Cached
      <4>2. Ordered(WithNewest(c), Dated \cup {c})
        BY <1>1, NewestIsOrdered DEF WithNewest, Without
      <4>3. QED
        BY <3>2, <4>1, <4>2, OrderOKMeans
    <3>3. QED
      BY <2>1, <3>1, <3>2
  <2>3. StepsStay /\ FinishedIsLate'
    BY <1>1, <2>1 DEF FinishedIsLate, FetchTyped
  <2>4. QED
    BY <2>1, <2>2, <2>3
<1>6. CASE Leave(c)
  <2>1. /\ cache' = cache /\ step[c] = "leave"
        /\ step' = [step EXCEPT ![c] = "none"]
        /\ temp' = [temp EXCEPT ![c] = NoArchive]
        /\ older' = Without({c})
    BY <1>6 DEF Leave, At, Goto
  <2>2. OrderOK'
    <3>1. Dated' = Dated \ {c}
      <4>1. {d \in Callers : temp'[d] \in Sizes} = {d \in Callers : temp[d] \in Sizes} \ {c}
        BY <1>1, <2>1, SourceAssumption DEF FetchTyped
      <4>2. QED
        BY <2>1, <4>1, SourceAssumption DEF Dated, Cached
    <3>2. Ordered(Without({c}), Dated \ {c})
      BY <1>1, OrderRestricts DEF Without
    <3>3. QED
      BY <2>1, <3>1, <3>2, OrderOKMeans
  <2>3. StepsStay /\ FinishedIsLate'
    BY <1>1, <2>1, SourceAssumption DEF FinishedIsLate, FetchTyped
  <2>4. QED
    BY <2>1, <2>2, <2>3
<1>7. QED
  BY <1>2, <1>3, <1>4, <1>5, <1>6

LEMMA MuHasHashStep ==
    ASSUME CacheInv, NEW c \in Callers,
           (\E f \in Files, x \in Hashes : Begin(c, f, x)) \/ Fetch(c) \/ Cancelled(c)
    PROVE  MuHasHash'
<1>1. FetchTyped /\ MuHasHash
  BY DEF CacheInv, SourceInv, FetchInv
<1>2. CASE \/ \E f \in Files, x \in Hashes : Begin(c, f, x)
           \/ CheckContext(c) \/ Copy(c) \/ StartDownload(c)
           \/ Leave(c) \/ GotLock(c) \/ GaveUp(c) \/ Cancelled(c)
  <2>1. /\ hash' = hash
        /\ \/ step' = step
           \/ \E s \in FetchSteps \ MuSteps : step' = [step EXCEPT ![c] = s]
    BY <1>2 DEF Begin, CheckContext, Copy, StartDownload, Leave, GotLock, GaveUp, Cancelled,
       Goto, fetchVars, FetchSteps, MuSteps
  <2>2. QED
    BY <1>1, <2>1 DEF MuHasHash, FetchTyped
<1>3. CASE Reuse(c)
  <2>1. hash' = hash /\ step[c] = "reuse" /\ \E s : step' = [step EXCEPT ![c] = s]
    BY <1>3 DEF Reuse, At, Goto
  <2>2. QED
    BY <1>1, <2>1 DEF MuHasHash, FetchTyped, MuSteps
<1>4. CASE Publish(c)
  <2>1. hash' = hash /\ step[c] = "publish" /\ \E s : step' = [step EXCEPT ![c] = s]
    BY <1>4 DEF Publish, At, Goto
  <2>2. hash[c] \in Sizes
    BY <2>1 DEF CacheInv, SourceInv, FetchInv, DownloadIsHashed
  <2>3. QED
    BY <1>1, <2>1, <2>2 DEF MuHasHash, FetchTyped
<1>5. CASE LookUp(c)
  <2>1. /\ step[c] = "enter"
        /\ \/ /\ hash' = hash
              /\ \E s \in {"fetch", "leave"} : step' = [step EXCEPT ![c] = s]
           \/ /\ cache[wants[c]] # NoArchive
              /\ hash' = [hash EXCEPT ![c] = cache[wants[c]]]
              /\ step' = [step EXCEPT ![c] = "reuse"]
    BY <1>5 DEF LookUp, At, Goto
  <2>2. wants[c] \in Files
    BY <2>1, FileWanted DEF CacheInv
  <2>3. QED
    BY <1>1, <2>1, <2>2 DEF MuHasHash, FetchTyped, MuSteps
<1>6. CASE Receive(c)
  <2>1. \/ hash' = hash /\ step' = [step EXCEPT ![c] = "leave"]
        \/ \E archive \in Sizes :
              /\ hash' = [hash EXCEPT ![c] = archive]
              /\ step' = [step EXCEPT ![c] = "publish"]
    BY <1>6 DEF Receive, Goto
  <2>2. QED
    BY <1>1, <2>1 DEF MuHasHash, FetchTyped, MuSteps
<1>7. CASE Return(c)
  <2>1. step' = step /\ hash' = [hash EXCEPT ![c] = NoArchive] /\ caller[c] = "release"
    BY <1>7 DEF Return, ReleaseRef
  <2>2. step[c] = "none"
    BY <2>1, <1>1 DEF CacheInv, SourceInv, FetchInv, FetchHoldsLock, FetchTyped
  <2>3. QED
    BY <1>1, <2>1, <2>2 DEF MuHasHash, FetchTyped, MuSteps
<1>8. QED
  BY <1>2, <1>3, <1>4, <1>5, <1>6, <1>7 DEF Fetch

(* No step adds bytes beyond the budget, and none lets an archive be copied *)
(* out of a cache that exceeds it.                                          *)
LEMMA DirectoryStep ==
    ASSUME CacheInv, NEW c \in Callers,
           (\E f \in Files, x \in Hashes : Begin(c, f, x)) \/ Fetch(c) \/ Cancelled(c)
    PROVE  /\ IsFiniteSet(Cached)' /\ OrderOK' /\ FinishedIsLate' /\ CopiesFit'
           /\ TotalSize(Cached)' <= TotalSize(Cached) \/ TotalSize(Cached)' <= CacheBytes
<1>1. /\ FetchTyped /\ IsFiniteSet(Cached) /\ OrderOK
      /\ FinishedIsLate /\ CopiesFit /\ StepsHoldMu
  BY DEF CacheInv, SourceInv, FetchInv
<1>2. TotalSize(Cached) \in Nat /\ CacheBytes \in Nat
  BY <1>1, TotalIsNatural, SourceAssumption
<1>3. ASSUME temp' = temp, NEW gone \in SUBSET Cached, Evict(gone), older' = Without(gone)
      PROVE  /\ IsFiniteSet(Cached)' /\ OrderOK'
             /\ TotalSize(Cached)' <= TotalSize(Cached) /\ TotalSize(Cached)' \in Nat
  <2>1. TotalSize(Cached)' = TotalSize(Cached \ gone)
    BY <1>1, <1>3, EvictionKeepsOrder
  <2>2. TotalSize(Cached \ gone) \in Nat
    BY <1>1, TotalIsNatural
  <2>3. QED
    BY <1>1, <1>3, <2>1, <2>2, EvictionKeepsOrder
<1>4. CASE \/ \E f \in Files, x \in Hashes : Begin(c, f, x)
           \/ GotLock(c) \/ GaveUp(c) \/ Cancelled(c) \/ Return(c)
           \/ CheckContext(c) \/ StartDownload(c) \/ Copy(c) \/ Receive(c) \/ Leave(c)
  <2>1. /\ cache' = cache /\ OrderOK' /\ FinishedIsLate'
        /\ \A d \in Callers : step'[d] \in {"copyCached", "copyNew"} => step'[d] = step[d]
    BY <1>4, OtherChanges
  <2>2. Cached' = Cached /\ TotalSize(Cached)' = TotalSize(Cached)
    BY <2>1 DEF Cached, TotalSize
  <2>3. CopiesFit'
    BY <1>1, <2>1, <2>2 DEF CopiesFit
  <2>4. QED
    BY <1>1, <1>2, <2>1, <2>2, <2>3
<1>5. CASE LookUp(c)
  <2>1. /\ \E gone \in SUBSET Cached : Evict(gone) /\ older' = Without(gone)
        /\ temp' = temp /\ step[c] = "enter"
        /\ \E s \in {"fetch", "leave", "reuse"} : step' = [step EXCEPT ![c] = s]
    BY <1>5, LookUpChanges
  <2>2. /\ IsFiniteSet(Cached)' /\ OrderOK'
        /\ TotalSize(Cached)' <= TotalSize(Cached) /\ TotalSize(Cached)' \in Nat
    BY <1>3, <2>1
  <2>3. FinishedIsLate'
    BY <1>1, <2>1 DEF FinishedIsLate, FetchTyped
  <2>4. CopiesFit'
    <3>1. \A d \in Callers :
             step'[d] \in {"copyCached", "copyNew"} => step[d] \in {"copyCached", "copyNew"}
      BY <1>1, <2>1 DEF FetchTyped
    <3>2. QED
      BY <1>1, <1>2, <2>2, <3>1 DEF CopiesFit
  <2>5. QED
    BY <2>2, <2>3, <2>4
<1>6. CASE Reuse(c)
  <2>1. /\ \E gone \in SUBSET Cached : Evict(gone) /\ older' = Without(gone)
        /\ temp' = temp /\ step[c] = "reuse"
        /\ \/ step' = [step EXCEPT ![c] = "leave"]
           \/ step' = [step EXCEPT ![c] = "copyCached"] /\ TotalSize(Cached)' <= CacheBytes
    BY <1>6, ReuseChanges
  <2>2. /\ IsFiniteSet(Cached)' /\ OrderOK'
        /\ TotalSize(Cached)' <= TotalSize(Cached) /\ TotalSize(Cached)' \in Nat
    BY <1>3, <2>1
  <2>3. FinishedIsLate'
    BY <1>1, <2>1 DEF FinishedIsLate, FetchTyped
  <2>4. CopiesFit'
    <3>1. ASSUME NEW d \in Callers, step'[d] \in {"copyCached", "copyNew"}
          PROVE  step[d] \in {"copyCached", "copyNew"} \/ TotalSize(Cached)' <= CacheBytes
      BY <1>1, <2>1, <3>1 DEF FetchTyped
    <3>2. QED
      BY <1>1, <1>2, <2>2, <3>1 DEF CopiesFit
  <2>5. QED
    BY <2>2, <2>3, <2>4
<1>7. CASE Publish(c)
  <2>1. step[c] = "publish" /\ cacheMu = NoCaller
    BY <1>7 DEF Publish, At
  <2>2. CASE /\ step' = [step EXCEPT ![c] = "leave"] /\ temp' = temp
             /\ \E gone \in SUBSET Cached : Evict(gone) /\ older' = Without(gone)
    <3>1. /\ IsFiniteSet(Cached)' /\ OrderOK'
          /\ TotalSize(Cached)' <= TotalSize(Cached) /\ TotalSize(Cached)' \in Nat
      BY <1>3, <2>2
    <3>2. FinishedIsLate'
      BY <1>1, <2>2 DEF FinishedIsLate, FetchTyped
    <3>3. CopiesFit'
      <4>1. \A d \in Callers :
               step'[d] \in {"copyCached", "copyNew"} => step[d] \in {"copyCached", "copyNew"}
        BY <1>1, <2>2 DEF FetchTyped
      <4>2. QED
        BY <1>1, <1>2, <3>1, <4>1 DEF CopiesFit
    <3>4. QED
      BY <3>1, <3>2, <3>3
  <2>3. CASE /\ step' = [step EXCEPT ![c] = "copyNew"]
             /\ temp' = [temp EXCEPT ![c] = NoArchive]
             /\ IsFiniteSet(Cached)' /\ OrderOK' /\ TotalSize(Cached)' <= CacheBytes
    <3>1. FinishedIsLate'
      BY <1>1, <2>3, SourceAssumption DEF FinishedIsLate, FetchTyped
    <3>2. CopiesFit'
      BY <2>3 DEF CopiesFit
    <3>3. QED
      BY <2>3, <3>1, <3>2
  <2>4. QED
    BY <1>7, <2>2, <2>3, PublishChanges
<1>8. QED
  BY <1>4, <1>5, <1>6, <1>7 DEF Fetch

LEMMA CacheInvInit == Init => CacheInv
<1> SUFFICES ASSUME Init PROVE CacheInv
  OBVIOUS
<1>1. SourceInv
  BY FetchInvInit, LockInvInit DEF Init, SourceInv
<1>2. IsFiniteSet(Cached) /\ OrderOK
  BY DEF Init
<1>3. MuHasHash /\ FinishedIsLate /\ CopiesFit
  BY SourceAssumption DEF Init, MuHasHash, MuSteps, FinishedIsLate, CopiesFit
<1>4. QED
  BY <1>1, <1>2, <1>3 DEF CacheInv

LEMMA CacheInvStep == CacheInv /\ [Next]_vars => CacheInv'
<1> SUFFICES ASSUME CacheInv, [Next]_vars PROVE CacheInv'
  OBVIOUS
<1>1. SourceInv'
  BY SourceInvStep DEF CacheInv
<1>2. CASE UNCHANGED vars
  <2>1. UNCHANGED <<cache, older, temp, step, hash>>
    BY <1>2 DEF vars, fetchVars
  <2>2. Cached' = Cached /\ Dated' = Dated /\ TotalSize(Cached)' = TotalSize(Cached)
    BY <2>1 DEF Cached, Dated, TotalSize
  <2>3. IsFiniteSet(Cached)' /\ OrderOK'
    BY <2>1, <2>2, OrderOKMeans DEF CacheInv
  <2>4. MuHasHash' /\ FinishedIsLate' /\ CopiesFit'
    BY <2>1, <2>2 DEF CacheInv, MuHasHash, FinishedIsLate, CopiesFit
  <2>5. QED
    BY <1>1, <2>3, <2>4 DEF CacheInv
<1>3. CASE Next
  <2>1. PICK c \in Callers :
          (\E f \in Files, x \in Hashes : Begin(c, f, x)) \/ Fetch(c) \/ Cancelled(c)
    BY <1>3 DEF Next
  <2>2. QED
    BY <1>1, <2>1, MuHasHashStep, DirectoryStep DEF CacheInv
<1>4. QED
  BY <1>2, <1>3

(* So are the directory, its order and its budget.                          *)
THEOREM CacheCorrect == Spec => []CacheInv
BY CacheInvInit, CacheInvStep, PTL DEF Spec

(* cacheMu is held by whoever looks up, trims or copies, the directory is   *)
(* finite and its archives have an order.                                   *)
THEOREM SourceTypesHold == Spec => []SourceTypeOK
<1>1. CacheInv => SourceTypeOK
  BY DEF CacheInv, SourceInv, LockInv, FetchInv, FetchTyped, StepsHoldMu, MuSteps, SourceTypeOK
<1>2. QED
  BY <1>1, CacheCorrect, PTL

-----------------------------------------------------------------------------
(* What a step may not do *)

(* A step of one caller leaves where the others are and what they have.     *)
LEMMA StepsAreOwn ==
    ASSUME FetchTyped, NEW c \in Callers,
           (\E f \in Files, x \in Hashes : Begin(c, f, x)) \/ Fetch(c) \/ Cancelled(c)
    PROVE  \A d \in Callers : d # c => step'[d] = step[d] /\ copied'[d] = copied[d]
<1>1. step' = step \/ \E s : step' = [step EXCEPT ![c] = s]
  BY DEF Begin, Fetch, Cancelled, GotLock, CheckContext, LookUp, Reuse, Copy, StartDownload,
     Receive, Publish, Leave, GaveUp, Return, Goto, fetchVars
<1>2. copied' = copied \/ \E x : copied' = [copied EXCEPT ![c] = x]
  BY DEF Begin, Fetch, Cancelled, GotLock, CheckContext, LookUp, Reuse, Copy, StartDownload,
     Receive, Publish, Leave, GaveUp, Return, fetchVars
<1>3. QED
  BY <1>1, <1>2 DEF FetchTyped

(* Only a copy delivers, and it is made under cacheMu after a trim.          *)
LEMMA DeliveredByCopy ==
    ASSUME FetchTyped, NEW c \in Callers,
           (\E f \in Files, x \in Hashes : Begin(c, f, x)) \/ Fetch(c) \/ Cancelled(c),
           copied[c] = NoArchive, copied'[c] # NoArchive
    PROVE  step[c] \in {"copyCached", "copyNew"}
<1>1. Copy(c) \/ copied' = copied \/ copied' = [copied EXCEPT ![c] = NoArchive]
  BY DEF Begin, Fetch, Cancelled, GotLock, CheckContext, LookUp, Reuse, StartDownload,
     Receive, Publish, Leave, GaveUp, Return, fetchVars
<1>2. Copy(c)
  BY <1>1 DEF FetchTyped
<1>3. QED
  BY <1>2 DEF Copy, At

(* README: publication and reuse keep the cache within its budget.          *)
THEOREM BudgetHolds == Spec => BudgetKept
<1> DEFINE Budget ==
        /\ TotalSize(Cached)' > CacheBytes => TotalSize(Cached)' <= TotalSize(Cached)
        /\ \A c \in Callers :
              copied[c] = NoArchive /\ copied'[c] # NoArchive
                 => TotalSize(Cached) <= CacheBytes
<1>1. CacheInv /\ CacheInv' /\ [Next]_vars => [Budget]_vars
  <2> SUFFICES ASSUME CacheInv, CacheInv', Next PROVE Budget
    OBVIOUS
  <2>1. PICK c \in Callers :
          (\E f \in Files, x \in Hashes : Begin(c, f, x)) \/ Fetch(c) \/ Cancelled(c)
    BY DEF Next
  <2>2. FetchTyped /\ IsFiniteSet(Cached) /\ CopiesFit
    BY DEF CacheInv, SourceInv, FetchInv
  <2>3. TotalSize(Cached)' > CacheBytes => TotalSize(Cached)' <= TotalSize(Cached)
    <3>1. TotalSize(Cached)' <= TotalSize(Cached) \/ TotalSize(Cached)' <= CacheBytes
      BY <2>1, DirectoryStep
    <3>2. CacheBytes \in Nat /\ TotalSize(Cached)' \in Nat
      <4>1. FetchTyped' /\ IsFiniteSet(Cached)'
        BY DEF CacheInv, SourceInv, FetchInv
      <4>2. \A f \in Cached' : cache'[f] \in Nat
        BY <4>1, SourceAssumption DEF FetchTyped, Cached
      <4>3. TotalSize(Cached)' = Cardinality(BytesOf(cache', Cached'))
        BY DEF TotalSize, BytesOf
      <4>4. QED
        BY <4>1, <4>2, <4>3, BytesAreFinite, SourceAssumption
    <3>3. QED
      BY <3>1, <3>2
  <2>4. ASSUME NEW d \in Callers, copied[d] = NoArchive, copied'[d] # NoArchive
        PROVE  TotalSize(Cached) <= CacheBytes
    <3>1. d = c
      BY <2>1, <2>2, <2>4, StepsAreOwn
    <3>2. step[d] \in {"copyCached", "copyNew"}
      BY <2>1, <2>2, <2>4, <3>1, DeliveredByCopy
    <3>3. QED
      BY <2>2, <3>2 DEF CopiesFit
  <2>5. QED
    BY <2>3, <2>4
<1>2. QED
  BY <1>1, CacheCorrect, PTL DEF Spec, BudgetKept

(* Of the archives that may go, the ones taken come first in their order.   *)
LEMMA TakenAreOlder ==
    ASSUME OrderOK, IsFiniteSet(Cached), NEW c, NEW k \in Nat,
           NEW f \in Oldest(c, k), NEW g \in Candidates(c) \ Oldest(c, k)
    PROVE  Older(f, g)
<1> DEFINE Preceding(x) == {h \in Candidates(c) : Older(h, x)}
<1>1. Ordered(older, Dated) /\ Candidates(c) \subseteq Dated
  BY OrderOKMeans DEF Candidates, Dated
<1>2. f \in Candidates(c) /\ g \in Candidates(c) /\ f # g
  BY DEF Oldest
<1>3. SUFFICES ASSUME Older(g, f) PROVE FALSE
  BY <1>1, <1>2 DEF Ordered, Older
<1>4. Preceding(g) \subseteq Preceding(f)
  BY <1>1, <1>2, <1>3 DEF Ordered, Older
<1>5. IsFiniteSet(Candidates(c))
  BY FS_Subset DEF Candidates
<1>6. IsFiniteSet(Preceding(f)) /\ IsFiniteSet(Preceding(g))
  BY <1>5, FS_Subset
<1>7. Cardinality(Preceding(g)) <= Cardinality(Preceding(f))
  <2> HIDE DEF Preceding
  <2>1. QED
    BY <1>4, <1>6, FS_Subset
<1>8. Cardinality(Preceding(f)) < k /\ ~(Cardinality(Preceding(g)) < k)
  BY <1>2 DEF Oldest
<1>9. Cardinality(Preceding(f)) \in Nat /\ Cardinality(Preceding(g)) \in Nat
  <2> HIDE DEF Preceding
  <2>1. QED
    BY <1>6, FS_CardinalityType
<1> HIDE DEF Preceding
<1>10. QED
  BY <1>7, <1>8, <1>9

(* README: evicts least-recently-used archives.                             *)
THEOREM TrimTakesTheOldest == Spec => OldestGoFirst
<1> DEFINE Taken ==
        \A c \in Callers :
          step[c] \in {"reuse", "publish"} /\ step'[c] # step[c] =>
              \A f, g \in Cached \ {wants[c]} :
                  cache'[f] = NoArchive /\ cache'[g] # NoArchive => Older(f, g)
<1>1. CacheInv /\ [Next]_vars => [Taken]_vars
  <2> SUFFICES ASSUME CacheInv, Next,
                      NEW c \in Callers, step[c] \in {"reuse", "publish"}, step'[c] # step[c],
                      NEW f \in Cached \ {wants[c]}, NEW g \in Cached \ {wants[c]},
                      cache'[f] = NoArchive, cache'[g] # NoArchive
               PROVE  Older(f, g)
    OBVIOUS
  <2>1. FetchTyped /\ IsFiniteSet(Cached) /\ OrderOK
    BY DEF CacheInv, SourceInv, FetchInv
  <2>2. (\E h \in Files, x \in Hashes : Begin(c, h, x)) \/ Fetch(c) \/ Cancelled(c)
    BY <2>1, StepsAreOwn DEF Next
  <2>3. Reuse(c) \/ Publish(c)
    <3>1. caller[c] = "held"
      BY DEF CacheInv, SourceInv, FetchInv, FetchHoldsLock
    <3>2. QED
      BY <2>2, <3>1 DEF Begin, Fetch, Cancelled, GotLock, Take, CheckContext, LookUp, Copy,
         StartDownload, Receive, Leave, GaveUp, Return, At, fetchVars
  <2>4. \E gone \in Trimmed(c, 0) \cup TrimFailed(c, 0)
                    \cup Trimmed(c, temp[c]) \cup TrimFailed(c, temp[c]) :
          \A h \in Cached \ {wants[c]} : h \in gone <=> cache'[h] = NoArchive
    BY <2>3 DEF Reuse, Publish, Evict, Cached
  <2>5. PICK k \in Nat : \A h \in Cached \ {wants[c]} :
                            h \in Oldest(c, k) <=> cache'[h] = NoArchive
    BY <2>1, <2>4, TrimTakesOldest
  <2>6. f \in Oldest(c, k) /\ g \in Candidates(c) \ Oldest(c, k)
    BY <2>5 DEF Candidates
  <2>7. QED
    BY <2>1, <2>6, TakenAreOlder
<1>2. QED
  BY <1>1, CacheCorrect, PTL DEF Spec, OldestGoFirst
=============================================================================
