------------------------- MODULE DownloadLockProofs -------------------------
(***************************************************************************)
(* Proofs about DownloadLock: for any callers, files and entry objects.    *)
(***************************************************************************)
EXTENDS DownloadLock, FiniteSetTheorems, TLAPS

(* A caller that is not idle has a file and an entry; an idle one neither. *)
CallersTyped ==
    \A c \in Callers :
        IF caller[c] = "idle"
          THEN wants[c] = NoFile /\ entry[c] = NoEntry
          ELSE wants[c] \in Files /\ entry[c] \in Entries

(* An entry object is in the table for one file only. *)
EntriesDistinct ==
    \A f, g \in Files : entries[f] = entries[g] /\ entries[f] # NoEntry => f = g

(* One holder per entry object. *)
OneHolder ==
    \A c, d \in Callers :
        caller[c] = "held" /\ caller[d] = "held" /\ entry[c] = entry[d] => c = d

LockInv ==
    /\ LockTypeOK
    /\ CallersTyped
    /\ EntriesDistinct
    /\ RefsMatchCallers
    /\ TokenIsConserved
    /\ OneHolder

-----------------------------------------------------------------------------
(* The callers that refer to an entry, and their number, after one of them  *)
(* joins or leaves. *)

LEMMA ReferringFinite ==
    \A e : IsFiniteSet(Referring(e)) /\ Cardinality(Referring(e)) \in Nat
<1> SUFFICES ASSUME NEW e
             PROVE  IsFiniteSet(Referring(e)) /\ Cardinality(Referring(e)) \in Nat
  OBVIOUS
<1>1. Referring(e) \subseteq Callers
  BY DEF Referring
<1>2. QED
  BY <1>1, LockAssumption, FS_Subset, FS_CardinalityType

LEMMA Joins ==
    ASSUME LockTypeOK, NEW c \in Callers, entry[c] = NoEntry, NEW e \in Entries,
           entry' = [entry EXCEPT ![c] = e]
    PROVE  /\ Cardinality(Referring(e)') = Cardinality(Referring(e)) + 1
           /\ \A o \in Entries \ {e} : Referring(o)' = Referring(o)
<1>1. e # NoEntry
  BY LockAssumption
<1>2. Referring(e)' = Referring(e) \cup {c} /\ c \notin Referring(e)
  BY <1>1 DEF LockTypeOK, Referring
<1>3. \A o \in Entries \ {e} : Referring(o)' = Referring(o)
  BY LockAssumption DEF LockTypeOK, Referring
<1>4. QED
  BY <1>2, <1>3, ReferringFinite, FS_AddElement

LEMMA Leaves ==
    ASSUME LockTypeOK, NEW c \in Callers, entry[c] \in Entries,
           entry' = [entry EXCEPT ![c] = NoEntry]
    PROVE  /\ Cardinality(Referring(entry[c])) = 1 => Referring(entry[c]) = {c}
           /\ Cardinality(Referring(entry[c])) \in Nat \ {0}
           /\ \A e \in Entries :
                 /\ Referring(e)' = Referring(e) \ {c}
                 /\ e # entry[c] => Referring(e)' = Referring(e)
           /\ Cardinality(Referring(entry[c]) \ {c}) = Cardinality(Referring(entry[c])) - 1
<1>1. c \in Referring(entry[c])
  BY DEF Referring
<1>2. Cardinality(Referring(entry[c]) \ {c}) = Cardinality(Referring(entry[c])) - 1
  BY <1>1, ReferringFinite, FS_RemoveElement
<1>3. \A e \in Entries :
         /\ Referring(e)' = Referring(e) \ {c}
         /\ e # entry[c] => Referring(e)' = Referring(e)
  BY LockAssumption DEF LockTypeOK, Referring
<1>4. Cardinality(Referring(entry[c])) # 0
  BY <1>1, ReferringFinite, FS_EmptySet
<1>5. ASSUME Cardinality(Referring(entry[c])) = 1 PROVE Referring(entry[c]) = {c}
  <2>1. IsFiniteSet(Referring(entry[c]) \ {c}) /\ Cardinality(Referring(entry[c]) \ {c}) = 0
    BY <1>2, <1>5, ReferringFinite, FS_RemoveElement
  <2>2. QED
    BY <1>1, <2>1, FS_EmptySet
<1>6. QED
  BY <1>2, <1>3, <1>4, <1>5, ReferringFinite

-----------------------------------------------------------------------------

LEMMA LockInvInit == LockInit => LockInv
<1> SUFFICES ASSUME LockInit PROVE LockInv
  OBVIOUS
<1>1. \A e \in Entries : Referring(e) = {}
  BY LockAssumption DEF LockInit, Referring
<1>2. RefsMatchCallers
  BY <1>1, FS_EmptySet DEF LockInit, RefsMatchCallers
<1>3. QED
  BY <1>2 DEF LockInit, LockInv, LockTypeOK, CallersTyped, EntriesDistinct,
     TokenIsConserved, OneHolder

(* A step that keeps the table, the counts and who refers to what. *)
LEMMA TableKept ==
    ASSUME LockInv, UNCHANGED <<entries, refs, entry, wants>>,
           \A c \in Callers : caller'[c] = "idle" <=> caller[c] = "idle"
    PROVE  RefsMatchCallers' /\ CallersTyped' /\ EntriesDistinct'
BY DEF LockInv, RefsMatchCallers, Referring, CallersTyped, EntriesDistinct

LEMMA LockKeepsInv ==
    ASSUME LockInv, NEW c \in Callers, NEW f \in Files, Lock(c, f)
    PROVE  LockInv'
<1>0. entry[c] = NoEntry /\ caller[c] = "idle" /\ ctxDone' = ctxDone
  BY DEF Lock, LockInv, CallersTyped
<1>1. CASE entries[f] # NoEntry
  <2> DEFINE e == entries[f]
  <2>1. /\ e \in Entries /\ Join(c, f, e)
        /\ refs' = [refs EXCEPT ![e] = @ + 1]
        /\ entries' = entries /\ tokens' = tokens
    BY <1>1 DEF Lock, LockInv, LockTypeOK
  <2>2. LockTypeOK' /\ CallersTyped' /\ EntriesDistinct'
    BY <1>0, <2>1 DEF Join, LockInv, LockTypeOK, CallersTyped, EntriesDistinct
  <2>3. RefsMatchCallers'
    <3>1. /\ Cardinality(Referring(e)') = Cardinality(Referring(e)) + 1
          /\ \A o \in Entries \ {e} : Referring(o)' = Referring(o)
      BY <1>0, <2>1, Joins DEF Join, LockInv
    <3>2. \A o \in Entries : refs'[o] = Cardinality(Referring(o)')
      BY <2>1, <3>1 DEF LockInv, LockTypeOK, RefsMatchCallers
    <3>3. \A d \in Callers : caller'[d] # "idle" => entries'[wants'[d]] = entry'[d]
      BY <1>0, <2>1 DEF Join, LockInv, LockTypeOK, RefsMatchCallers
    <3>4. \A g \in Files : entries'[g] # NoEntry => \E d \in Callers : entry'[d] = entries'[g]
      BY <1>0, <2>1, LockAssumption DEF Join, LockInv, LockTypeOK, RefsMatchCallers
    <3>5. QED
      BY <3>2, <3>3, <3>4 DEF RefsMatchCallers
  <2>4. TokenIsConserved'
    <3>1. PICK d \in Callers : entry[d] = e /\ caller[d] # "idle"
      BY <2>1, <1>1, LockAssumption DEF LockInv, RefsMatchCallers, CallersTyped
    <3>2. QED
      BY <1>0, <2>1, <3>1 DEF Join, LockInv, LockTypeOK, TokenIsConserved
  <2>5. OneHolder'
    BY <1>0, <2>1 DEF Join, LockInv, LockTypeOK, OneHolder
  <2>6. QED
    BY <2>2, <2>3, <2>4, <2>5 DEF LockInv
<1>2. CASE entries[f] = NoEntry
  <2>1. PICK e \in Fresh : /\ Join(c, f, e)
                           /\ entries' = [entries EXCEPT ![f] = e]
                           /\ refs' = [refs EXCEPT ![e] = 1]
                           /\ tokens' = tokens \cup {e}
    BY <1>2 DEF Lock
  <2>2. e \in Entries /\ Referring(e) = {} /\ \A g \in Files : entries[g] # e
    BY DEF Fresh
  <2>3. LockTypeOK' /\ CallersTyped'
    BY <1>0, <2>1, <2>2 DEF Join, LockInv, LockTypeOK, CallersTyped
  <2>4. EntriesDistinct'
    BY <2>1, <2>2 DEF LockInv, LockTypeOK, EntriesDistinct
  <2>5. RefsMatchCallers'
    <3>1. /\ Cardinality(Referring(e)') = Cardinality(Referring(e)) + 1
          /\ \A o \in Entries \ {e} : Referring(o)' = Referring(o)
      BY <1>0, <2>1, <2>2, Joins DEF Join, LockInv
    <3>2. \A o \in Entries : refs'[o] = Cardinality(Referring(o)')
      <4>1. Cardinality(Referring(e)') = 1
        BY <2>2, <3>1, FS_EmptySet
      <4>2. QED
        BY <2>1, <2>2, <3>1, <4>1 DEF LockInv, LockTypeOK, RefsMatchCallers
    <3>3. \A d \in Callers : caller'[d] # "idle" => entries'[wants'[d]] = entry'[d]
      <4>1. ASSUME NEW d \in Callers, d # c, caller[d] # "idle"
            PROVE  wants[d] # f
        BY <1>2, <4>1, LockAssumption DEF LockInv, RefsMatchCallers, CallersTyped
      <4>2. QED
        BY <1>0, <2>1, <4>1 DEF Join, LockInv, LockTypeOK, CallersTyped, RefsMatchCallers
    <3>4. \A g \in Files : entries'[g] # NoEntry => \E d \in Callers : entry'[d] = entries'[g]
      BY <1>0, <2>1, <2>2, LockAssumption DEF Join, LockInv, LockTypeOK, RefsMatchCallers
    <3>5. QED
      BY <3>2, <3>3, <3>4 DEF RefsMatchCallers
  <2>6. TokenIsConserved' /\ OneHolder'
    <3>1. \A d \in Callers : entry[d] # e
      BY <2>2 DEF Referring
    <3>2. QED
      BY <1>0, <2>1, <2>2, <3>1 DEF Join, LockInv, LockTypeOK, TokenIsConserved, OneHolder
  <2>7. QED
    BY <2>3, <2>4, <2>5, <2>6 DEF LockInv
<1>3. QED
  BY <1>1, <1>2

LEMMA HoldingKeepsInv ==
    ASSUME LockInv, NEW c \in Callers, Take(c) \/ GiveUp(c) \/ Unlock(c) \/ ContextDone(c)
    PROVE  LockInv'
<1>1. RefsMatchCallers' /\ CallersTyped' /\ EntriesDistinct'
  BY TableKept DEF Take, GiveUp, Unlock, ContextDone, LockInv, LockTypeOK
<1>2. LockTypeOK'
  BY DEF Take, GiveUp, Unlock, ContextDone, LockInv, LockTypeOK, CallersTyped
<1>3. CASE Take(c)
  <2>1. TokenIsConserved'
    BY <1>3 DEF Take, LockInv, LockTypeOK, TokenIsConserved, CallersTyped
  <2>2. OneHolder'
    BY <1>3 DEF Take, LockInv, LockTypeOK, TokenIsConserved, OneHolder
  <2>3. QED
    BY <1>1, <1>2, <2>1, <2>2 DEF LockInv
<1>4. CASE GiveUp(c) \/ ContextDone(c)
  <2>1. TokenIsConserved'
    BY <1>4 DEF GiveUp, ContextDone, LockInv, LockTypeOK, TokenIsConserved
  <2>2. OneHolder'
    BY <1>4 DEF GiveUp, ContextDone, LockInv, LockTypeOK, OneHolder
  <2>3. QED
    BY <1>1, <1>2, <2>1, <2>2 DEF LockInv
<1>5. CASE Unlock(c)
  <2>1. TokenIsConserved'
    BY <1>5 DEF Unlock, LockInv, LockTypeOK, TokenIsConserved, OneHolder
  <2>2. OneHolder'
    BY <1>5 DEF Unlock, LockInv, LockTypeOK, OneHolder
  <2>3. QED
    BY <1>1, <1>2, <2>1, <2>2 DEF LockInv
<1>6. QED
  BY <1>3, <1>4, <1>5

LEMMA ReleaseKeepsInv ==
    ASSUME LockInv, NEW c \in Callers, ReleaseRef(c)
    PROVE  LockInv'
<1> DEFINE e == entry[c]
           f == wants[c]
<1>0. /\ caller[c] = "release" /\ e \in Entries /\ f \in Files /\ entries[f] = e
      /\ refs' = [refs EXCEPT ![e] = @ - 1]
      /\ entries' = [entries EXCEPT ![f] = IF refs[e] = 1 THEN NoEntry ELSE @]
      /\ Forget(c) /\ tokens' = tokens
  BY DEF ReleaseRef, LockInv, CallersTyped, RefsMatchCallers
<1>1. /\ refs[e] = Cardinality(Referring(e))
      /\ refs[e] = 1 => Referring(e) = {c}
      /\ refs[e] \in Nat \ {0}
      /\ \A o \in Entries : /\ Referring(o)' = Referring(o) \ {c}
                            /\ o # e => Referring(o)' = Referring(o)
      /\ Cardinality(Referring(e) \ {c}) = refs[e] - 1
  BY <1>0, Leaves DEF Forget, LockInv, RefsMatchCallers
<1>2. LockTypeOK'
  BY <1>0, <1>1 DEF Forget, LockInv, LockTypeOK
<1>3. CallersTyped' /\ EntriesDistinct'
  BY <1>0 DEF Forget, LockInv, LockTypeOK, CallersTyped, EntriesDistinct
<1>4. RefsMatchCallers'
  <2>1. \A o \in Entries : refs'[o] = Cardinality(Referring(o)')
    BY <1>0, <1>1 DEF LockInv, LockTypeOK, RefsMatchCallers
  <2>2. ASSUME NEW d \in Callers, caller'[d] # "idle"
        PROVE  entries'[wants'[d]] = entry'[d]
    <3>1. /\ d # c /\ caller[d] # "idle" /\ wants'[d] = wants[d] /\ entry'[d] = entry[d]
          /\ entries[wants[d]] = entry[d] /\ wants[d] \in Files
      BY <1>0, <2>2 DEF Forget, LockInv, LockTypeOK, RefsMatchCallers, CallersTyped
    <3>2. wants[d] = f => refs[e] # 1
      BY <1>0, <1>1, <3>1 DEF Referring
    <3>3. QED
      BY <1>0, <3>1, <3>2 DEF LockInv, LockTypeOK
  <2>3. ASSUME NEW g \in Files, entries'[g] # NoEntry
        PROVE  \E d \in Callers : entry'[d] = entries'[g]
    <3>1. /\ entries'[g] = entries[g] /\ entries[g] \in Entries
          /\ \E d \in Callers : entry[d] = entries[g]
      BY <1>0, <2>3 DEF LockInv, LockTypeOK, RefsMatchCallers
    <3>2. CASE entries[g] # e
      <4>1. PICK d \in Callers : entry[d] = entries[g]
        BY <3>1
      <4>2. entry'[d] = entry[d]
        BY <1>0, <3>2, <4>1 DEF Forget, LockInv, LockTypeOK
      <4>3. QED
        BY <3>1, <4>1, <4>2
    <3>3. CASE entries[g] = e
      <4>1. g = f
        BY <1>0, <3>1, <3>3, LockAssumption DEF LockInv, EntriesDistinct
      <4>2. refs[e] # 1
        BY <1>0, <2>3, <4>1 DEF LockInv, LockTypeOK
      <4>3. Cardinality(Referring(e) \ {c}) # 0
        BY <1>1, <4>2
      <4>4. Referring(e) \ {c} # {}
        BY <4>3, FS_EmptySet
      <4>5. PICK d \in Callers \ {c} : entry[d] = e
        BY <4>4 DEF Referring
      <4>6. QED
        BY <1>0, <3>1, <3>3, <4>5 DEF Forget, LockInv, LockTypeOK
    <3>4. QED
      BY <3>2, <3>3
  <2>4. QED
    BY <2>1, <2>2, <2>3 DEF RefsMatchCallers
<1>5. TokenIsConserved' /\ OneHolder'
  BY <1>0 DEF Forget, LockInv, LockTypeOK, TokenIsConserved, OneHolder
<1>6. QED
  BY <1>2, <1>3, <1>4, <1>5 DEF LockInv

LEMMA LockInvStep == LockInv /\ [LockNext]_lockVars => LockInv'
<1> SUFFICES ASSUME LockInv, [LockNext]_lockVars PROVE LockInv'
  OBVIOUS
<1>1. CASE LockNext
  BY <1>1, LockKeepsInv, HoldingKeepsInv, ReleaseKeepsInv DEF LockNext
<1>2. CASE UNCHANGED lockVars
  BY <1>2 DEF lockVars, LockInv, LockTypeOK, CallersTyped, EntriesDistinct,
     RefsMatchCallers, Referring, TokenIsConserved, OneHolder
<1>3. QED
  BY <1>1, <1>2

(* The invariant of the lock holds in every reachable state. *)
THEOREM LockCorrect == LockSpec => []LockInv
BY LockInvInit, LockInvStep, PTL DEF LockSpec

(* Every variable of the lock keeps its type. *)
THEOREM LockTypesHold == LockSpec => []LockTypeOK
<1>1. LockInv => LockTypeOK
  BY DEF LockInv
<1>2. QED
  BY <1>1, LockCorrect, PTL

(* lockDownload: no two callers hold the lock of one file. *)
THEOREM DownloadsExclude == LockSpec => []MutualExclusion
<1>1. LockInv => MutualExclusion
  BY DEF LockInv, RefsMatchCallers, OneHolder, MutualExclusion
<1>2. QED
  BY <1>1, LockCorrect, PTL

(* releaseRef: entries are counted right, never deleted under a waiter and   *)
(* never left in the table.                                                 *)
THEOREM EntriesDoNotLeak == LockSpec => []RefsMatchCallers
<1>1. LockInv => RefsMatchCallers
  BY DEF LockInv
<1>2. QED
  BY <1>1, LockCorrect, PTL

(* The channel of an entry never holds a second token, and the token of an   *)
(* entry in use is never lost.                                              *)
THEOREM TokensConserved == LockSpec => []TokenIsConserved
<1>1. LockInv => TokenIsConserved
  BY DEF LockInv
<1>2. QED
  BY <1>1, LockCorrect, PTL
=============================================================================
