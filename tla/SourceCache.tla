----------------------------- MODULE SourceCache -----------------------------
(***************************************************************************)
(* The shared cache of source archives (nginx/download.go, fetchSource and *)
(* trimCache) on top of the lock of each file, DownloadLock.               *)
(*                                                                         *)
(* A caller holds the lock of its file for the whole fetch and cacheMu     *)
(* while it looks up, evicts, publishes and copies; it downloads without   *)
(* cacheMu.  An archive is its size: archives of different content have    *)
(* different sizes here, so that a size is also a hash.  Removals, renames *)
(* and copies may fail; reading and listing the cache do not.              *)
(***************************************************************************)
EXTENDS DownloadLock, Relation

CONSTANTS
    Sizes,      \* sizes of archives
    MaxBytes,   \* DownloadLimits.MaxBytes
    CacheBytes, \* DownloadLimits.CacheBytes
    NoArchive,  \* there is no such file
    Partial,    \* a download that is not complete
    Anything,   \* no hash is expected
    Hashes,     \* hashes clients expect
    NoCaller    \* cacheMu is free

ASSUME SourceAssumption ==
    /\ Sizes \subseteq Nat
    /\ Anything \in Hashes
    /\ {NoArchive, Partial} \cap Sizes = {}
    /\ NoCaller \notin Callers
    /\ Callers \cap Files = {}                      \* temporary and cached files
    /\ {MaxBytes, CacheBytes} \subseteq Nat \ {0}   \* normalizedLimits

VARIABLES
    cache,      \* the *.tar.gz files of the cache directory
    older,      \* pairs of archives, the first of which was modified before the second
    temp,       \* the .download-* file of each caller
    cacheMu,    \* the caller that holds cacheMu
    step,       \* where in fetchSource each caller with the lock is
    expected,   \* its expected hash
    hash,       \* the hash it returns
    copied      \* the archive at its destination

fetchVars == <<cache, older, temp, cacheMu, step, expected, hash, copied>>
vars == <<lockVars, fetchVars>>

FetchSteps == {"none", "locked", "enter", "reuse", "copyCached", "fetch",
               "receive", "publish", "copyNew", "leave"}

Cached == {f \in Files : cache[f] # NoArchive}

(* The cached archives and the finished downloads, each by its caller.      *)
Dated == Cached \cup {c \in Callers : temp[c] \in Sizes}

Before == [p \in Dated \X Dated |-> p \in older]

OrderOK == older \subseteq Dated \X Dated /\ IsStrictlyTotallyOrdered(Before, Dated)

SourceTypeOK ==
    /\ LockTypeOK
    /\ cache \in [Files -> Sizes \cup {NoArchive}]
    /\ temp \in [Callers -> Sizes \cup {NoArchive, Partial}]
    /\ step \in [Callers -> FetchSteps]
    /\ expected \in [Callers -> Hashes]
    /\ hash \in [Callers -> Sizes \cup {NoArchive}]
    /\ copied \in [Callers -> Sizes \cup {NoArchive}]
    /\ cacheMu \in Callers \cup {NoCaller}
    /\ IsFiniteSet(Cached)
    /\ OrderOK
    /\ \A c \in Callers : cacheMu = c <=> step[c] \in {"reuse", "copyCached", "copyNew"}

(* The directory may hold whatever earlier processes left. *)
Init ==
    /\ LockInit
    /\ cache \in [Files -> Sizes \cup {NoArchive}]
    /\ IsFiniteSet(Cached)
    /\ temp = [c \in Callers |-> NoArchive]
    /\ older \in SUBSET (Cached \X Cached)
    /\ OrderOK
    /\ cacheMu = NoCaller
    /\ step = [c \in Callers |-> "none"]
    /\ expected = [c \in Callers |-> Anything]
    /\ hash = [c \in Callers |-> NoArchive]
    /\ copied = [c \in Callers |-> NoArchive]

-----------------------------------------------------------------------------
(* trimCache: evict the oldest archives but the caller's own until the rest *)
(* and the incoming one fit.                                                *)

(* The number of bytes in all of the files.                                 *)
TotalSize(files) == Cardinality(UNION {{f} \X (1 .. cache[f]) : f \in files})

(* The caller's own file is not counted when it is about to be replaced.    *)
Counted(c, incoming) == IF incoming > 0 THEN Cached \ {wants[c]} ELSE Cached

(* What may be evicted, and the k of it that were modified first.           *)
Candidates(c) == Cached \ {wants[c]}

Older(f, g) == <<f, g>> \in older

\* Fault: sorted newest first.
Newest(c, k) ==
    {f \in Candidates(c) : Cardinality({g \in Candidates(c) : Older(f, g)}) < k}

Oldest(c, k) ==
    {f \in Candidates(c) : Cardinality({g \in Candidates(c) : Older(g, f)}) < k}

\* Fault: the archive that comes in is not counted.
FitsWithoutIncoming(c, incoming, k) ==
    TotalSize(Counted(c, incoming) \ Oldest(c, k)) <= CacheBytes

FitsWithout(c, incoming, k) ==
    incoming + TotalSize(Counted(c, incoming) \ Oldest(c, k)) <= CacheBytes

(* What is gone when it succeeds: no more than needed.                      *)
Trimmed(c, incoming) ==
    {Oldest(c, k) : k \in {i \in 0 .. Cardinality(Candidates(c)) :
        /\ FitsWithout(c, incoming, i)
        /\ i > 0 => ~FitsWithout(c, incoming, i - 1)}}

(* What may be gone when it fails: nothing if the archive alone is too      *)
(* large; otherwise it stopped at a removal that failed, or evicted all.    *)
TrimFailed(c, incoming) ==
    {Oldest(c, k) : k \in {i \in 0 .. Cardinality(Candidates(c)) :
        /\ ~FitsWithout(c, incoming, i)
        /\ incoming > CacheBytes => i = 0}}

Evict(gone) == cache' = [f \in Files |-> IF f \in gone THEN NoArchive ELSE cache[f]]

(* The order when archives are gone, and when one is made the newest.        *)
Without(gone) == {p \in older : p[1] \notin gone /\ p[2] \notin gone}

WithNewest(x) == Without({x}) \cup ((Dated \ {x}) \X {x})

-----------------------------------------------------------------------------
(* fetchSource.  Errors lead to "leave", where the deferred functions run.  *)

Goto(c, s) == step' = [step EXCEPT ![c] = s]
At(c, s) == step[c] = s

Begin(c, f, x) ==
    /\ Lock(c, f)
    /\ expected' = [expected EXCEPT ![c] = x]
    /\ UNCHANGED <<cache, older, temp, cacheMu, step, hash, copied>>

GotLock(c) ==
    /\ Take(c)
    /\ Goto(c, "locked")
    /\ UNCHANGED <<cache, older, temp, cacheMu, expected, hash, copied>>

(* The check of the context, before it waits for cacheMu.                   *)
CheckContext(c) ==
    /\ At(c, "locked")
    /\ Goto(c, IF c \in ctxDone THEN "leave" ELSE "enter")
    /\ UNCHANGED <<lockVars, cache, older, temp, cacheMu, expected, hash, copied>>

\* Fault: whatever is cached under the name is accepted.
MatchesAlways(c, archive) == archive \in Sizes

Matches(c, archive) == expected[c] \in {archive, Anything}

(* Under cacheMu: a missing file is fetched; one that is too large is an    *)
(* error, as is a context that ends the hashing; a match keeps cacheMu; a   *)
(* mismatch is removed, unless that fails, and fetched.                     *)
LookUp(c) ==
    /\ At(c, "enter")
    /\ cacheMu = NoCaller
    /\ LET f == wants[c]
           archive == cache[wants[c]]
       IN  \/ /\ archive = NoArchive
              /\ Goto(c, "fetch")
              /\ UNCHANGED <<cache, older, cacheMu, hash>>
           \/ /\ archive # NoArchive
              /\ archive > MaxBytes \/ c \in ctxDone
              /\ Goto(c, "leave")
              /\ UNCHANGED <<cache, older, cacheMu, hash>>
           \/ /\ archive # NoArchive
              /\ archive <= MaxBytes /\ c \notin ctxDone
              /\ Matches(c, archive)
              /\ hash' = [hash EXCEPT ![c] = archive]
              /\ cacheMu' = c
              /\ Goto(c, "reuse")
              /\ UNCHANGED <<cache, older>>
           \/ /\ archive # NoArchive
              /\ archive <= MaxBytes /\ c \notin ctxDone
              /\ ~Matches(c, archive)
              /\ \E gone \in SUBSET {f} : Evict(gone) /\ older' = Without(gone)
              /\ Goto(c, "fetch")
              /\ UNCHANGED <<cacheMu, hash>>
    /\ UNCHANGED <<lockVars, temp, expected, copied>>

\* Fault: the cache is unlocked before the archive is copied.
ReuseUnlocks(c) ==
    /\ At(c, "reuse")
    /\ \/ \E gone \in Trimmed(c, 0) :
            /\ Evict(gone) /\ older' = Without(gone)
            /\ Goto(c, "copyCached")
       \/ \E gone \in TrimFailed(c, 0) :
            /\ Evict(gone) /\ older' = Without(gone)
            /\ Goto(c, "leave")
    /\ cacheMu' = NoCaller
    /\ UNCHANGED <<lockVars, temp, expected, hash, copied>>

Reuse(c) ==
    /\ At(c, "reuse")
    /\ \/ \E gone \in Trimmed(c, 0) :
            /\ Evict(gone) /\ older' = Without(gone)
            /\ Goto(c, "copyCached")
            /\ UNCHANGED cacheMu
       \/ \E gone \in TrimFailed(c, 0) :
            /\ Evict(gone) /\ older' = Without(gone)
            /\ Goto(c, "leave")
            /\ cacheMu' = NoCaller
    /\ UNCHANGED <<lockVars, temp, expected, hash, copied>>

(* A reused archive becomes the newest one, unless Chtimes fails.           *)
Touched(c) ==
    IF At(c, "copyCached") THEN {WithNewest(wants[c])} ELSE {}

\* Fault: an error of the copy returns without unlocking the cache.
CopyKeepsMu(c) ==
    /\ At(c, "copyCached") \/ At(c, "copyNew")
    /\ \/ /\ c \notin ctxDone
          /\ copied' = [copied EXCEPT ![c] = cache[wants[c]]]
          /\ older' \in {older} \cup Touched(c)
          /\ cacheMu' = NoCaller
       \/ UNCHANGED <<older, copied, cacheMu>>
    /\ Goto(c, "leave")
    /\ UNCHANGED <<lockVars, cache, temp, expected, hash>>

(* copyFileContext fails when the context is done, and may by itself.       *)
Copy(c) ==
    /\ At(c, "copyCached") \/ At(c, "copyNew")
    /\ \/ /\ c \notin ctxDone
          /\ copied' = [copied EXCEPT ![c] = cache[wants[c]]]
          /\ older' \in {older} \cup Touched(c)
       \/ UNCHANGED <<older, copied>>
    /\ cacheMu' = NoCaller
    /\ Goto(c, "leave")
    /\ UNCHANGED <<lockVars, cache, temp, expected, hash>>

(* The request fails, or its answer is received into a new file.            *)
StartDownload(c) ==
    /\ At(c, "fetch")
    /\ \/ Goto(c, "leave") /\ UNCHANGED temp
       \/ Goto(c, "receive") /\ temp' = [temp EXCEPT ![c] = Partial]
    /\ UNCHANGED <<lockVars, cache, older, cacheMu, expected, hash, copied>>

(* It is cut off, too large or not what was expected, or complete.          *)
Receive(c) ==
    /\ At(c, "receive")
    /\ \/ Goto(c, "leave") /\ UNCHANGED <<temp, hash, older>>
       \/ \E archive \in Sizes :
            /\ archive <= MaxBytes /\ c \notin ctxDone /\ Matches(c, archive)
            /\ temp' = [temp EXCEPT ![c] = archive]
            /\ hash' = [hash EXCEPT ![c] = archive]
            /\ older' = WithNewest(c)
            /\ Goto(c, "publish")
    /\ UNCHANGED <<lockVars, cache, cacheMu, expected, copied>>

(* A finished download takes the name of the file.                          *)
Published(c, x) == IF x = c THEN wants[c] ELSE x

(* Under cacheMu: make room, then rename, which keeps the time of the       *)
(* download; either may fail.                                               *)
Publish(c) ==
    /\ At(c, "publish")
    /\ cacheMu = NoCaller
    /\ \/ \E gone \in Trimmed(c, temp[c]) :
            /\ cache' = [f \in Files |-> IF f = wants[c] THEN temp[c]
                                         ELSE IF f \in gone THEN NoArchive ELSE cache[f]]
            /\ older' = {<<Published(c, p[1]), Published(c, p[2])>> :
                            p \in Without(gone \cup {wants[c]})}
            /\ temp' = [temp EXCEPT ![c] = NoArchive]
            /\ cacheMu' = c
            /\ Goto(c, "copyNew")
       \/ \E gone \in Trimmed(c, temp[c]) \cup TrimFailed(c, temp[c]) :
            /\ Evict(gone) /\ older' = Without(gone)
            /\ Goto(c, "leave")
            /\ UNCHANGED <<temp, cacheMu>>
    /\ UNCHANGED <<lockVars, expected, hash, copied>>

(* The deferred functions: remove the temporary file, return the token.     *)
Leave(c) ==
    /\ At(c, "leave")
    /\ Unlock(c)
    /\ temp' = [temp EXCEPT ![c] = NoArchive]
    /\ older' = Without({c})
    /\ Goto(c, "none")
    /\ UNCHANGED <<cache, cacheMu, expected, hash, copied>>

(* The caller has given up waiting for the lock.                            *)
GaveUp(c) == GiveUp(c) /\ UNCHANGED fetchVars

(* The caller leaves lockDownload and fetchSource with what it returns.     *)
Return(c) ==
    /\ ReleaseRef(c)
    /\ expected' = [expected EXCEPT ![c] = Anything]
    /\ hash' = [hash EXCEPT ![c] = NoArchive]
    /\ copied' = [copied EXCEPT ![c] = NoArchive]
    /\ UNCHANGED <<cache, older, temp, cacheMu, step>>

Cancelled(c) == ContextDone(c) /\ UNCHANGED fetchVars

Fetch(c) == GotLock(c) \/ CheckContext(c) \/ LookUp(c) \/ Reuse(c) \/ Copy(c)
            \/ StartDownload(c) \/ Receive(c) \/ Publish(c) \/ Leave(c) \/ GaveUp(c) \/ Return(c)

Next ==
    \E c \in Callers :
        \/ \E f \in Files, x \in Hashes : Begin(c, f, x)
        \/ Fetch(c)
        \/ Cancelled(c)

Spec == Init /\ [][Next]_vars

(* Goroutines that can run do, the client of a download has a timeout, and  *)
(* waiters of a mutex or a channel are served in turn.                      *)
Fairness ==
    \A c \in Callers :
        /\ SF_vars(GotLock(c) \/ LookUp(c) \/ Publish(c))
        /\ WF_vars(CheckContext(c) \/ Reuse(c) \/ Copy(c) \/ StartDownload(c)
                   \/ Receive(c) \/ Leave(c) \/ GaveUp(c) \/ Return(c))

FairSpec == Spec /\ Fairness

-----------------------------------------------------------------------------

(* fetchSource serializes downloads of the same file.                       *)
OneDownloadPerFile ==
    \A c, d \in Callers :
        /\ c # d /\ wants[c] = wants[d]
        /\ step[c] \in {"fetch", "receive", "publish"}
        => step[d] = "none"

(* An archive cannot disappear, or change, between its verification and its *)
(* copy, whatever other files are published meanwhile.                      *)
ArchiveStaysForCopy ==
    \A c \in Callers :
        step[c] \in {"reuse", "copyCached", "copyNew"} => cache[wants[c]] = hash[c]

(* README: cache hits also enforce size and available expected hashes.  A   *)
(* fetch that succeeds delivers the archive whose hash it returns.          *)
ServedIsVerified ==
    \A c \in Callers :
        copied[c] # NoArchive =>
            /\ copied[c] = hash[c]
            /\ expected[c] \in {copied[c], Anything}
            /\ copied[c] <= MaxBytes

(* README: publication and reuse keep the cache within its budget.  It may  *)
(* start above it; no step adds to it beyond the budget, and whenever an    *)
(* archive is delivered it fits.                                            *)
BudgetKept ==
    [][/\ TotalSize(Cached)' > CacheBytes => TotalSize(Cached)' <= TotalSize(Cached)
       /\ \A c \in Callers :
             copied[c] = NoArchive /\ copied'[c] # NoArchive
                => TotalSize(Cached) <= CacheBytes]_vars

(* README: evicts least-recently-used archives.  Whatever a trim takes is   *)
(* older than all it leaves, but the archive that is being fetched.         *)
OldestGoFirst ==
    [][\A c \in Callers :
          step[c] \in {"reuse", "publish"} /\ step'[c] # step[c] =>
              \A f, g \in Cached \ {wants[c]} :
                  cache'[f] = NoArchive /\ cache'[g] # NoArchive => Older(f, g)]_vars

(* A fetch always comes to an end and lets the next one in.                 *)
EveryFetchReturns ==
    \A c \in Callers : caller[c] # "idle" ~> caller[c] = "idle"
=============================================================================
