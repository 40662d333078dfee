---------------------------- MODULE VersionCache ----------------------------
(***************************************************************************)
(* The list of nginx versions (nginx/version.go, GetVersionsContext).      *)
(*                                                                         *)
(* An official list is the time at which nginx.org was asked for it; what  *)
(* it says is left out.  The lock is free while nginx.org is asked, so     *)
(* that several callers may be at it.                                      *)
(***************************************************************************)
EXTENDS Integers

CONSTANTS
    Fetchers,       \* requests that need the list
    CacheTime,      \* how long a list is used: 30 minutes
    FetchTimeout,   \* of the HTTP client: 8 seconds
    Horizon,        \* bound: the clock
    NoList,         \* nothing is cached yet
    Bundled         \* DefaultKnownVersions

ASSUME VersionAssumption == {CacheTime, FetchTimeout, Horizon} \subseteq Nat \ {0}

VARIABLES
    clock,
    cachedVersions, \* the list
    lastFetchTime,  \* when it was stored
    fetch,          \* where each caller is
    since,          \* when it asked nginx.org
    list            \* the list it has, and hands out when it is back to "idle"

versionVars == <<clock, cachedVersions, lastFetchTime, fetch, since, list>>

Official(l) == l \notin {NoList, Bundled}

VersionInit ==
    /\ clock = 0
    /\ cachedVersions = NoList
    /\ lastFetchTime = 0
    /\ fetch = [f \in Fetchers |-> "idle"]
    /\ since = [f \in Fetchers |-> 0]
    /\ list = [f \in Fetchers |-> NoList]

\* Fault: the age of the list is not looked at.
FreshForEver == cachedVersions # NoList

(* A list is used for CacheTime after it was stored, a bundled one as well. *)
Fresh == cachedVersions # NoList /\ clock - lastFetchTime < CacheTime

GetVersions(f) ==
    /\ fetch[f] = "idle"
    /\ IF Fresh
       THEN list' = [list EXCEPT ![f] = cachedVersions] /\ UNCHANGED <<fetch, since>>
       ELSE /\ fetch' = [fetch EXCEPT ![f] = "asking"]
            /\ since' = [since EXCEPT ![f] = clock]
            /\ list' = [list EXCEPT ![f] = NoList]
    /\ UNCHANGED <<clock, cachedVersions, lastFetchTime>>

(* fetchOfficialVersions returns a list the site had since it was asked, or *)
(* nothing: an error, the timeout, a cancelled request, another page.       *)
FetchOfficialVersions(f) ==
    /\ fetch[f] = "asking"
    /\ \E l \in since[f] .. clock \cup {Bundled} : list' = [list EXCEPT ![f] = l]
    /\ fetch' = [fetch EXCEPT ![f] = "storing"]
    /\ UNCHANGED <<clock, cachedVersions, lastFetchTime, since>>

Store(f) ==
    /\ fetch[f] = "storing"
    /\ cachedVersions' = list[f]
    /\ lastFetchTime' = clock
    /\ fetch' = [fetch EXCEPT ![f] = "idle"]
    /\ UNCHANGED <<clock, since, list>>

(* Time does not pass an answer that is due, nor a store: it takes no time. *)
(* A list that was handed out is forgotten.                                 *)
PassTime ==
    /\ clock < Horizon
    /\ \A f \in Fetchers : /\ fetch[f] # "storing"
                           /\ fetch[f] = "asking" => clock - since[f] < FetchTimeout
    /\ clock' = clock + 1
    /\ list' = [f \in Fetchers |-> NoList]
    /\ UNCHANGED <<cachedVersions, lastFetchTime, fetch, since>>

VersionNext ==
    PassTime \/ \E f \in Fetchers : GetVersions(f) \/ FetchOfficialVersions(f) \/ Store(f)

VersionSpec == VersionInit /\ [][VersionNext]_versionVars

-----------------------------------------------------------------------------
(* Refreshes overlap, and one that began earlier may store later and renews *)
(* the time of the cache (version.go:67-70).  All the same an official list *)
(* that is handed out was on nginx.org within the time it is cached for and *)
(* that of one request.                                                     *)
ServedIsRecent ==
    \A f \in Fetchers :
        fetch[f] = "idle" /\ Official(list[f]) => clock - list[f] < CacheTime + FetchTimeout

(* README.md:11: the service "caches the list for 30 minutes, and falls     *)
(* back to a bundled version list if retrieval fails".  So a retrieval that *)
(* fails does not take the list that was retrieved less than 30 minutes ago *)
(* from those who come next.                                                *)
ListIsCached ==
    [][Fresh /\ Official(cachedVersions) => cachedVersions' # Bundled]_versionVars
=============================================================================
