----------------------------- MODULE WebServer -----------------------------
(***************************************************************************)
(* The life of the process (cmd/server/main.go) with the requests that     *)
(* keep it: those of the dependency installer, whose streams have no end   *)
(* of their own.  Builds are in BuildManager; of Manager.Shutdown only its *)
(* return is left here.                                                    *)
(***************************************************************************)
EXTENDS DepInstaller

VARIABLES
    server,     \* what main does
    expired     \* the deadline both shutdowns share has passed

serverVars == <<server, expired>>

ServerInit == server = "serving" /\ expired = FALSE

(* Requests are accepted until server.Shutdown closes the listener; what is *)
(* running goes on until the process exits.                                 *)
Accepting == server \in {"serving", "workers"}
Running == server # "exited"

ActiveRequest ==
    \/ \E n \in Attempts : phase[n] = "checking"
    \/ \E r \in Readers : reader[r] # "away"

Request ==
    /\ Accepting
    /\ \/ \E n \in Attempts : InstallDependencies(n)
       \/ \E r \in Readers : ReadHistory(r)
    /\ UNCHANGED serverVars

Work ==
    /\ Running
    /\ \/ \E n \in Attempts : CheckDependencies(n) \/ RunInstall(n)
       \/ \E r \in Readers : Stream(r)
    /\ UNCHANGED serverVars

(* A signal, or the listener failed.                                        *)
Stop ==
    /\ server = "serving"
    /\ server' = "workers"
    /\ UNCHANGED <<installerVars, expired>>

Expire ==
    /\ server \in {"workers", "closing"}
    /\ ~expired
    /\ expired' = TRUE
    /\ UNCHANGED <<installerVars, server>>

(* Manager.Shutdown returns when the workers have, or at the deadline.      *)
WorkersReturn ==
    /\ server = "workers"
    /\ server' = "closing"
    /\ UNCHANGED <<installerVars, expired>>

LeaveWorkers == expired /\ WorkersReturn

\* Fault: server.Shutdown is given a context without deadline.
CloseServerWaits ==
    /\ server = "closing"
    /\ ~ActiveRequest
    /\ server' = "exited"
    /\ UNCHANGED <<installerVars, expired>>

(* server.Shutdown waits for the requests, or until the deadline, when      *)
(* server.Close ends them.  Goroutines of the installer are not waited for. *)
CloseServer ==
    /\ server = "closing"
    /\ ActiveRequest => expired
    /\ server' = "exited"
    /\ UNCHANGED <<installerVars, expired>>

ServerNext == Request \/ Work \/ Stop \/ Expire \/ WorkersReturn \/ CloseServer

(* The timer fires and main goes on; clients, commands and workers need not. *)
ServerFairness ==
    /\ WF_<<serverVars, installerVars>>(Expire)
    /\ WF_<<serverVars, installerVars>>(LeaveWorkers)
    /\ WF_<<serverVars, installerVars>>(CloseServer)

ServerSpec ==
    /\ InstallerInit /\ ServerInit
    /\ [][ServerNext]_<<serverVars, installerVars>>
    /\ ServerFairness

-----------------------------------------------------------------------------
(* Once it is told to stop, the process exits, although streams of the      *)
(* installer never end and workers, commands and clients may hang: both     *)
(* shutdowns share one deadline (main.go:117-126).                          *)
ServerExits == server # "serving" ~> server = "exited"
=============================================================================
