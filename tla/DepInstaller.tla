---------------------------- MODULE DepInstaller ----------------------------
(***************************************************************************)
(* The installer of build dependencies (system/deps.go, DepInstaller, and  *)
(* system/distro.go) with the requests that start it and the readers of    *)
(* its log (handler.go, handleInstallSystemDeps, handleSystemDepsLogs).    *)
(*                                                                         *)
(* Attempt n is the n-th request to install: its handler, and the          *)
(* goroutine it starts if it may.  A line of the log is the attempt that   *)
(* wrote it and its number among the lines of this attempt; what it says   *)
(* is left out.  A reader is one connection at a time.                     *)
(***************************************************************************)
EXTENDS Integers, Sequences

CONSTANTS
    Required,       \* dependencies a build needs
    Optional,       \* dependencies of some modules
    Hosts,          \* hosts the service runs on
    MaxAttempts,    \* bound: requests to install
    MaxOutput,      \* bound: lines of an attempt before its commands end
    Readers,        \* connections that stream the log
    ChannelSize     \* lines a listener's channel holds

ASSUME InstallerAssumption ==
    {MaxAttempts, MaxOutput, ChannelSize} \subseteq Nat

VARIABLES
    host,           \* the host
    installed,      \* dependencies it has
    isInstalling,   \* DepInstaller.isInstalling
    logLines,       \* DepInstaller.logLines
    listeners,      \* readers whose channel is registered
    channel,        \* lines in the channel of each reader
    phase,          \* where each attempt is
    missing,        \* dependencies an attempt found missing
    written,        \* lines an attempt has written
    reader,         \* where each reader is
    received        \* lines a reader was sent on its connection

hostVars == <<host, installed>>
attemptVars == <<phase, missing>>
readerVars == <<listeners, reader, received>>
installerVars == <<hostVars, attemptVars, readerVars, isInstalling, logLines, channel, written>>

Attempts == 1 .. MaxAttempts
Dependencies == Required \cup Optional

(***************************************************************************)
(* DetectDistro: the package manager of the distribution if it is there,   *)
(* or else the first that is.  A host is its family, its package managers  *)
(* and whether root's rights are at hand, as [family, tools, root].        *)
(***************************************************************************)
Managers == <<"apt", "dnf", "yum", "apk", "pacman", "zypper">>

ManagersOf(family) ==
    CASE family = "debian" -> <<"apt">>
      [] family = "fedora" -> <<"dnf", "yum">>
      [] family = "alpine" -> <<"apk">>
      [] family = "arch" -> <<"pacman">>
      [] family = "suse" -> <<"zypper">>
      [] OTHER -> <<>>

PackageManager ==
    LET found == SelectSeq(ManagersOf(host.family) \o Managers, LAMBDA t : t \in host.tools)
    IN  IF found = <<>> THEN "unknown" ELSE Head(found)

CanInstall == host.root
AllInstalled == Required \subseteq installed

InstallerInit ==
    /\ host \in Hosts
    /\ installed \in SUBSET Dependencies
    /\ isInstalling = FALSE
    /\ logLines = <<>>
    /\ listeners = {}
    /\ channel = [r \in Readers |-> <<>>]
    /\ phase = [n \in Attempts |-> "new"]
    /\ missing = [n \in Attempts |-> {}]
    /\ written = [n \in Attempts |-> 0]
    /\ reader = [r \in Readers |-> "away"]
    /\ received = [r \in Readers |-> <<>>]

-----------------------------------------------------------------------------
(* An attempt.                                                              *)

Busy == {"checking", "started", "updating", "installing", "stuck", "rechecking", "finishing"}

Enter(n, p) == phase' = [phase EXCEPT ![n] = p]

\* Fault: an attempt that is refused resets the flag as it returns.
InstallResetsFlag(n) ==
    /\ phase[n] = "new"
    /\ \A k \in 1 .. n - 1 : phase[k] # "new"
    /\ IF isInstalling
       THEN Enter(n, "ended") /\ isInstalling' = FALSE /\ UNCHANGED logLines
       ELSE Enter(n, "checking") /\ isInstalling' = TRUE /\ logLines' = <<>>
    /\ UNCHANGED <<hostVars, readerVars, channel, missing, written>>

(* The log of the previous attempt is dropped before it is known whether    *)
(* there is anything to install.                                            *)
InstallDependencies(n) ==
    /\ phase[n] = "new"
    /\ \A k \in 1 .. n - 1 : phase[k] # "new"
    /\ IF isInstalling
       THEN Enter(n, "ended") /\ UNCHANGED <<isInstalling, logLines>>
       ELSE Enter(n, "checking") /\ isInstalling' = TRUE /\ logLines' = <<>>
    /\ UNCHANGED <<hostVars, readerVars, channel, missing, written>>

CheckDependencies(n) ==
    /\ phase[n] = "checking"
    /\ IF AllInstalled \/ ~CanInstall
       THEN Enter(n, "ended") /\ isInstalling' = FALSE /\ UNCHANGED missing
       ELSE /\ Enter(n, "started")
            /\ missing' = [missing EXCEPT ![n] = Dependencies \ installed]
            /\ UNCHANGED isInstalling
    /\ UNCHANGED <<hostVars, readerVars, channel, logLines, written>>

(* A line goes to the log and to every channel that has room.               *)
Broadcast(n) ==
    LET line == <<n, written[n] + 1>>
    IN  /\ written' = [written EXCEPT ![n] = @ + 1]
        /\ logLines' = Append(logLines, line)
        /\ channel' = [r \in Readers |->
               IF r \in listeners /\ Len(channel[r]) < ChannelSize
               THEN Append(channel[r], line) ELSE channel[r]]

(* runInstall; apt updates its index first, whatever comes of it.  The      *)
(* lines that are written one after another without a command in between    *)
(* are one line here.                                                       *)
StartInstall(n) ==
    /\ phase[n] = "started"
    /\ Broadcast(n)
    /\ Enter(n, CASE PackageManager = "apt" -> "updating"
                  [] PackageManager = "unknown" -> "finishing"
                  [] OTHER -> "installing")
    /\ UNCHANGED <<hostVars, readerVars, isInstalling, missing>>

CommandPrints(n) ==
    /\ phase[n] \in {"updating", "installing"}
    /\ written[n] < MaxOutput
    /\ Broadcast(n)
    /\ UNCHANGED <<hostVars, readerVars, attemptVars, isInstalling>>

(* The scanner gives up at a line that is too long; a command with more to  *)
(* print then blocks on its pipe, and Wait with it.                         *)
LineTooLong(n) ==
    /\ phase[n] \in {"updating", "installing"}
    /\ Enter(n, "stuck")
    /\ UNCHANGED <<hostVars, readerVars, isInstalling, logLines, channel, missing, written>>

UpdateEnds(n) ==
    /\ phase[n] = "updating"
    /\ Enter(n, "installing")
    /\ UNCHANGED <<hostVars, readerVars, isInstalling, logLines, channel, missing, written>>

InstallEnds(n) ==
    /\ phase[n] = "installing"
    /\ Broadcast(n)
    /\ \/ installed' = installed \cup missing[n] /\ Enter(n, "rechecking")
       \/ /\ \E some \in SUBSET missing[n] : installed' = installed \cup some
          /\ Enter(n, "finishing")
    /\ UNCHANGED <<host, readerVars, isInstalling, missing>>

Recheck(n) ==
    /\ phase[n] = "rechecking"
    /\ Broadcast(n)
    /\ Enter(n, "finishing")
    /\ UNCHANGED <<hostVars, readerVars, isInstalling, missing>>

FinishInstall(n) ==
    /\ phase[n] = "finishing"
    /\ Enter(n, "ended")
    /\ isInstalling' = FALSE
    /\ UNCHANGED <<hostVars, readerVars, logLines, channel, missing, written>>

RunInstall(n) ==
    \/ StartInstall(n) \/ CommandPrints(n) \/ LineTooLong(n) \/ UpdateEnds(n)
    \/ InstallEnds(n) \/ Recheck(n) \/ FinishInstall(n)

-----------------------------------------------------------------------------
(* A reader.  Nobody closes the channel of a listener but the reader itself *)
(* as it leaves: the branch that tells the end of the log is never taken.   *)

ReadHistory(r) ==
    /\ reader[r] = "away"
    /\ reader' = [reader EXCEPT ![r] = "history"]
    /\ received' = [received EXCEPT ![r] = logLines]
    /\ UNCHANGED <<hostVars, attemptVars, isInstalling, logLines, listeners, channel, written>>

\* Fault: the channel is registered first, and holds lines of the history.
SubscribeFirst(r) ==
    /\ reader[r] = "history"
    /\ listeners' = listeners \cup {r}
    /\ \E k \in 0 .. Len(logLines) :
          /\ received' = [received EXCEPT ![r] = logLines]
          /\ channel' = [channel EXCEPT ![r] = SubSeq(logLines, k + 1, Len(logLines))]
    /\ reader' = [reader EXCEPT ![r] = "streaming"]
    /\ UNCHANGED <<hostVars, attemptVars, isInstalling, logLines, written>>

Subscribe(r) ==
    /\ reader[r] = "history"
    /\ reader' = [reader EXCEPT ![r] = "streaming"]
    /\ listeners' = listeners \cup {r}
    /\ channel' = [channel EXCEPT ![r] = <<>>]
    /\ UNCHANGED <<hostVars, attemptVars, isInstalling, logLines, received, written>>

Receive(r) ==
    /\ reader[r] = "streaming"
    /\ channel[r] # <<>>
    /\ received' = [received EXCEPT ![r] = Append(@, Head(channel[r]))]
    /\ channel' = [channel EXCEPT ![r] = Tail(@)]
    /\ UNCHANGED <<hostVars, attemptVars, isInstalling, logLines, listeners, reader, written>>

Unsubscribe(r) ==
    /\ reader[r] = "streaming"
    /\ reader' = [reader EXCEPT ![r] = "away"]
    /\ listeners' = listeners \ {r}
    /\ channel' = [channel EXCEPT ![r] = <<>>]
    /\ received' = [received EXCEPT ![r] = <<>>]
    /\ UNCHANGED <<hostVars, attemptVars, isInstalling, logLines, written>>

Stream(r) == Subscribe(r) \/ Receive(r) \/ Unsubscribe(r)

-----------------------------------------------------------------------------
(***************************************************************************)
(* Properties.                                                             *)
(***************************************************************************)

(* The flag is set before the lock is released for the check and reset on   *)
(* three paths of two functions (deps.go:408-420, 427): it always stands    *)
(* for exactly one attempt that checks or installs.                         *)
OneInstaller ==
    /\ isInstalling <=> \E n \in Attempts : phase[n] \in Busy
    /\ \A n, k \in Attempts : phase[n] \in Busy /\ phase[k] \in Busy => n = k

Earlier(a, b) == a[1] < b[1] \/ (a[1] = b[1] /\ a[2] < b[2])

(* A reader reads the log and then registers its channel (handler.go:446,   *)
(* 455): lines in between are lost, and a new attempt may drop the log, but *)
(* what it is sent is in order and no line is sent twice.                   *)
StreamInOrder ==
    \A r \in Readers : \A i, j \in DOMAIN received[r] :
        i < j => Earlier(received[r][i], received[r][j])
=============================================================================
