---------------------------- MODULE DownloadLock ----------------------------
(***************************************************************************)
(* The lock of one cache file (nginx/download.go, lockDownload): an entry  *)
(* object per file with a channel that holds one token and a count of the  *)
(* callers that refer to it.  The entry leaves the table with its last     *)
(* caller, and a later caller makes a new one.                             *)
(*                                                                         *)
(* Both sections under downloadLocks.Mutex are one step each; taking the   *)
(* token, giving up and returning the token are steps of their own.        *)
(***************************************************************************)
EXTENDS Integers, FiniteSets

CONSTANTS
    Callers,    \* goroutines that fetch sources
    Files,      \* keys of the table: the paths of the cache files
    Entries,    \* entry objects; one that nobody refers to is made anew
    NoEntry,    \* nil
    NoFile      \* the caller fetches nothing

ASSUME LockAssumption ==
    /\ IsFiniteSet(Callers)
    /\ NoEntry \notin Entries
    /\ NoFile \notin Files

VARIABLES
    entries,    \* downloadLocks.entries
    refs,       \* downloadLock.refs
    tokens,     \* entries whose channel holds the token
    caller,     \* "idle", "select", "held" or "release": where each caller is
    wants,      \* the file it calls lockDownload for
    entry,      \* its local variable entry
    ctxDone     \* callers whose context is done

lockVars == <<entries, refs, tokens, caller, wants, entry, ctxDone>>

LockTypeOK ==
    /\ entries \in [Files -> Entries \cup {NoEntry}]
    /\ refs \in [Entries -> Nat]
    /\ tokens \subseteq Entries
    /\ caller \in [Callers -> {"idle", "select", "held", "release"}]
    /\ wants \in [Callers -> Files \cup {NoFile}]
    /\ entry \in [Callers -> Entries \cup {NoEntry}]
    /\ ctxDone \subseteq Callers

LockInit ==
    /\ entries = [f \in Files |-> NoEntry]
    /\ refs = [e \in Entries |-> 0]
    /\ tokens = {}
    /\ caller = [c \in Callers |-> "idle"]
    /\ wants = [c \in Callers |-> NoFile]
    /\ entry = [c \in Callers |-> NoEntry]
    /\ ctxDone = {}

(* Callers whose local variable refers to an entry. *)
Referring(e) == {c \in Callers : entry[c] = e}

(* The objects that nothing refers to, out of which the next one is made.   *)
Fresh == {e \in Entries : Referring(e) = {} /\ \A f \in Files : entries[f] # e}

Join(c, f, e) ==
    /\ caller' = [caller EXCEPT ![c] = "select"]
    /\ wants' = [wants EXCEPT ![c] = f]
    /\ entry' = [entry EXCEPT ![c] = e]

(* The first section: find or make the entry and count the caller.  The     *)
(* context may be done before or at any time after.                         *)
Lock(c, f) ==
    /\ caller[c] = "idle"
    /\ \/ /\ entries[f] # NoEntry
          /\ Join(c, f, entries[f])
          /\ refs' = [refs EXCEPT ![entries[f]] = @ + 1]
          /\ UNCHANGED <<entries, tokens>>
       \/ /\ entries[f] = NoEntry
          /\ \E e \in Fresh :
                /\ Join(c, f, e)
                /\ entries' = [entries EXCEPT ![f] = e]
                /\ refs' = [refs EXCEPT ![e] = 1]
                /\ tokens' = tokens \cup {e}
    /\ UNCHANGED ctxDone

ContextDone(c) ==
    /\ caller[c] # "idle"
    /\ c \notin ctxDone
    /\ ctxDone' = ctxDone \cup {c}
    /\ UNCHANGED <<entries, refs, tokens, caller, wants, entry>>

(* The two cases of the select; with both ready either may be chosen.       *)
Take(c) ==
    /\ caller[c] = "select"
    /\ entry[c] \in tokens
    /\ tokens' = tokens \ {entry[c]}
    /\ caller' = [caller EXCEPT ![c] = "held"]
    /\ UNCHANGED <<entries, refs, wants, entry, ctxDone>>

\* Fault: a caller that gives up keeps its reference.
GiveUpKeepsRef(c) ==
    /\ caller[c] = "select"
    /\ c \in ctxDone
    /\ caller' = [caller EXCEPT ![c] = "idle"]
    /\ wants' = [wants EXCEPT ![c] = NoFile]
    /\ entry' = [entry EXCEPT ![c] = NoEntry]
    /\ ctxDone' = ctxDone \ {c}
    /\ UNCHANGED <<entries, refs, tokens>>

\* Fault: a caller that gives up leaves like one that held the lock.
GiveUpReturnsToken(c) ==
    /\ caller[c] = "select"
    /\ c \in ctxDone
    /\ tokens' = tokens \cup {entry[c]}
    /\ caller' = [caller EXCEPT ![c] = "release"]
    /\ UNCHANGED <<entries, refs, wants, entry, ctxDone>>

GiveUp(c) ==
    /\ caller[c] = "select"
    /\ c \in ctxDone
    /\ caller' = [caller EXCEPT ![c] = "release"]
    /\ UNCHANGED <<entries, refs, tokens, wants, entry, ctxDone>>

\* Fault: the token is not put back when others are waiting.
UnlockDropsToken(c) ==
    /\ caller[c] = "held"
    /\ tokens' = IF refs[entry[c]] > 1 THEN tokens ELSE tokens \cup {entry[c]}
    /\ caller' = [caller EXCEPT ![c] = "release"]
    /\ UNCHANGED <<entries, refs, wants, entry, ctxDone>>

(* The returned function first puts the token back; the channel has room    *)
(* for one, a second send would block.                                      *)
Unlock(c) ==
    /\ caller[c] = "held"
    /\ entry[c] \notin tokens
    /\ tokens' = tokens \cup {entry[c]}
    /\ caller' = [caller EXCEPT ![c] = "release"]
    /\ UNCHANGED <<entries, refs, wants, entry, ctxDone>>

Forget(c) ==
    /\ caller' = [caller EXCEPT ![c] = "idle"]
    /\ wants' = [wants EXCEPT ![c] = NoFile]
    /\ entry' = [entry EXCEPT ![c] = NoEntry]
    /\ ctxDone' = ctxDone \ {c}

\* Fault: the entry is deleted whoever still waits for it.
ReleaseRefDeletes(c) ==
    /\ caller[c] = "release"
    /\ refs' = [refs EXCEPT ![entry[c]] = @ - 1]
    /\ entries' = [entries EXCEPT ![wants[c]] = NoEntry]
    /\ Forget(c)
    /\ UNCHANGED tokens

(* The second section: uncount the caller; the last one deletes the entry.  *)
ReleaseRef(c) ==
    /\ caller[c] = "release"
    /\ refs' = [refs EXCEPT ![entry[c]] = @ - 1]
    /\ entries' = [entries EXCEPT ![wants[c]] =
                      IF refs[entry[c]] = 1 THEN NoEntry ELSE @]
    /\ Forget(c)
    /\ UNCHANGED tokens

LockNext ==
    \E c \in Callers :
        \/ \E f \in Files : Lock(c, f)
        \/ ContextDone(c) \/ Take(c) \/ GiveUp(c) \/ Unlock(c) \/ ReleaseRef(c)

LockSpec == LockInit /\ [][LockNext]_lockVars

(* Whoever holds the lock returns it.  Receivers wait in a queue of the      *)
(* channel, so a token that is put back again and again reaches each.        *)
LockFairness ==
    \A c \in Callers :
        /\ SF_lockVars(Take(c))
        /\ WF_lockVars(GiveUp(c))
        /\ WF_lockVars(Unlock(c))
        /\ WF_lockVars(ReleaseRef(c))

FairLockSpec == LockSpec /\ LockFairness

-----------------------------------------------------------------------------

(* fetchSource serializes downloads of the same file: no two callers hold   *)
(* its lock, though the entry is deleted and made anew while callers come,  *)
(* give up and leave.                                                       *)
MutualExclusion ==
    \A c, d \in Callers :
        caller[c] = "held" /\ caller[d] = "held" /\ wants[c] = wants[d] => c = d

(* The count is the number of callers that refer to the entry, and all of   *)
(* them find it in the table: nobody waits on a deleted entry, and a table  *)
(* without callers is empty.                                                *)
RefsMatchCallers ==
    /\ \A e \in Entries : refs[e] = Cardinality(Referring(e))
    /\ \A c \in Callers : caller[c] # "idle" => entries[wants[c]] = entry[c]
    /\ \A f \in Files : entries[f] # NoEntry =>
          \E c \in Callers : entry[c] = entries[f]

(* The token of an entry in use is in its channel or with one holder, so    *)
(* that returning it never blocks and never adds a second one.              *)
TokenIsConserved ==
    \A c \in Callers :
        /\ caller[c] = "held" => entry[c] \notin tokens
        /\ caller[c] # "idle" /\ entry[c] \notin tokens =>
              \E d \in Callers : caller[d] = "held" /\ entry[d] = entry[c]

(* Cancelling one waiter never cancels another: every caller gets the lock  *)
(* or has given up because of its own context.                              *)
EveryCallerIsServed ==
    \A c \in Callers :
        caller[c] = "select" ~> caller[c] = "held" \/ (caller[c] = "release" /\ c \in ctxDone)
=============================================================================
