---------------------------- MODULE SessionStore ----------------------------
(***************************************************************************)
(* Browser sessions (auth/auth.go, sessionStore) and the requests the      *)
(* middleware lets pass or turns away by them.                             *)
(*                                                                         *)
(* Sessions are numbered in the order they are created.  Requests with the *)
(* access key itself need no session.  A request is atomic here: each uses *)
(* the store once, under its lock.                                         *)
(***************************************************************************)
EXTENDS Integers, FiniteSets, Functions

CONSTANTS
    Lifetime,       \* sessionLifetime
    MaxSessions,    \* maxSessions
    MaxLogins,      \* bound: sessions that are created
    MaxTime         \* bound: the clock

ASSUME SessionAssumption ==
    /\ {Lifetime, MaxSessions} \subseteq Nat \ {0}
    /\ {MaxLogins, MaxTime} \subseteq Nat

VARIABLES
    now,            \* the clock
    sessions,       \* sessionStore.sessions: when each session expires
    logins,         \* when each session was created
    loggedOut,      \* sessions whose user logged out
    passed          \* the session of the last request that passed, or 0

sessionVars == <<now, sessions, logins, loggedOut, passed>>

Tokens == 1 .. MaxLogins
Issued == DOMAIN logins

SessionTypeOK ==
    /\ now \in Nat
    /\ Issued \subseteq Tokens
    /\ logins \in [Issued -> Nat]
    /\ DOMAIN sessions \subseteq Issued
    /\ sessions \in [DOMAIN sessions -> Nat]
    /\ loggedOut \subseteq Issued
    /\ passed \in Issued \cup {0}

SessionInit ==
    /\ now = 0
    /\ sessions = [t \in {} |-> 0]
    /\ logins = [t \in {} |-> 0]
    /\ loggedOut = {}
    /\ passed = 0

Live == {t \in DOMAIN sessions : sessions[t] > now}

\* Fault: a session with the most time left is evicted.
Newest(t) == \A u \in Live : sessions[t] >= sessions[u]

(* The session that makes room: any of those that are next to expire.       *)
Oldest(t) == \A u \in Live : sessions[t] <= sessions[u]

Evicted == {t \in Live : Cardinality(Live) >= MaxSessions /\ Oldest(t)}

(* A login, by the form or by a key in the URL.                             *)
Create(t) ==
    /\ t \notin Issued
    /\ \A u \in 1 .. t - 1 : u \in Issued
    /\ \E gone \in SUBSET Evicted :
          /\ Cardinality(gone) = IF Evicted = {} THEN 0 ELSE 1
          /\ sessions' = [u \in (Live \ gone) \cup {t} |->
                            IF u = t THEN now + Lifetime ELSE sessions[u]]
    /\ logins' = [u \in Issued \cup {t} |-> IF u = t THEN now ELSE logins[u]]
    /\ UNCHANGED <<now, loggedOut, passed>>

(* A request with the cookie of a session that was created at some time; a  *)
(* session that is found expired is removed.                                *)
Valid(t) ==
    /\ t \in Issued
    /\ IF t \in Live
       THEN passed' = t /\ UNCHANGED sessions
       ELSE passed' = 0 /\ sessions' = Restrict(sessions, DOMAIN sessions \ {t})
    /\ UNCHANGED <<now, logins, loggedOut>>

Logout(t) ==
    /\ t \in Issued
    /\ sessions' = Restrict(sessions, DOMAIN sessions \ {t})
    /\ loggedOut' = loggedOut \cup {t}
    /\ passed' = 0
    /\ UNCHANGED <<now, logins>>

Tick ==
    /\ now < MaxTime
    /\ now' = now + 1
    /\ passed' = 0
    /\ UNCHANGED <<sessions, logins, loggedOut>>

SessionNext == Tick \/ \E t \in Tokens : Create(t) \/ Valid(t) \/ Logout(t)

SessionSpec == SessionInit /\ [][SessionNext]_sessionVars

-----------------------------------------------------------------------------
(* The sessions a user may count on: not expired, not logged out.           *)
Entitled(t) == t \in Issued \ loggedOut /\ now < logins[t] + Lifetime

(* Logins that may have pushed this one out: those of others not before it. *)
After(t) == {u \in Issued \ {t} : logins[u] >= logins[t]}

(* The store is small and the next to expire makes room when it is full     *)
(* (auth.go:46-56).  Whatever was created, expired, found expired or logged *)
(* out in between, whoever logged in is let in until the session ends or    *)
(* as many others have logged in since as the store holds, and a session    *)
(* that ended is never let in again.                                        *)
SessionsAreKept ==
    /\ \A t \in Issued :
          Entitled(t) /\ Cardinality(After(t)) < MaxSessions => t \in DOMAIN sessions
    /\ passed # 0 => Entitled(passed)
    /\ Cardinality(DOMAIN sessions) <= MaxSessions
=============================================================================
