---------------------------- MODULE MCWebService ----------------------------
(***************************************************************************)
(* Instances of WebServer, SessionStore and VersionCache for TLC.  The     *)
(* three have no variable in common, and every property is about one of    *)
(* them: each behaviour shows one and leaves the others as they start.     *)
(***************************************************************************)
EXTENDS WebServer, SessionStore, VersionCache

VARIABLE part

vars == <<serverVars, installerVars, sessionVars, versionVars, part>>

(* The distribution's package manager, another one, none, and no rights.    *)
Host(family, tools, root) == [family |-> family, tools |-> tools, root |-> root]

SomeHosts ==
    { Host("debian", {"apt", "dnf"}, TRUE), Host("fedora", {"yum", "apk"}, TRUE),
      Host("suse", {}, TRUE), Host("other", {"apt"}, FALSE) }

Init ==
    /\ part \in {"server", "sessions", "versions"}
    /\ IF part = "server" THEN InstallerInit
       ELSE InstallerInit /\ installed = {} /\ host = CHOOSE h \in Hosts : TRUE
    /\ ServerInit /\ SessionInit /\ VersionInit

Next ==
    /\ part' = part
    /\ \/ /\ part = "server" /\ ServerNext
          /\ UNCHANGED <<sessionVars, versionVars>>
       \/ /\ part = "sessions" /\ SessionNext
          /\ UNCHANGED <<serverVars, installerVars, versionVars>>
       \/ /\ part = "versions" /\ VersionNext
          /\ UNCHANGED <<serverVars, installerVars, sessionVars>>

Spec == Init /\ [][Next]_vars /\ ServerFairness
=============================================================================
