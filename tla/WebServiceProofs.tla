-------------------------- MODULE WebServiceProofs --------------------------
(***************************************************************************)
(* Proofs about the three parts of the web service that keep state of      *)
(* their own: the installer and its log, the session store, and the list   *)
(* of versions, for any number of requests, readers, logins and callers    *)
(* and any sizes and times.                                                *)
(***************************************************************************)
EXTENDS WebServer, SessionStore, VersionCache, FiniteSetTheorems, WellFoundedInduction, TLAPS

-----------------------------------------------------------------------------
(* The installer and its log *)

LEMMA BoundsAreNats == MaxAttempts \in Nat /\ MaxOutput \in Nat /\ ChannelSize \in Nat
BY InstallerAssumption

Phases == {"new", "ended"} \cup Busy
Lines == Attempts \X (Nat \ {0})

InstallerTypeOK ==
    /\ isInstalling \in BOOLEAN
    /\ phase \in [Attempts -> Phases]
    /\ written \in [Attempts -> Nat]
    /\ logLines \in Seq(Lines)
    /\ listeners \subseteq Readers
    /\ channel \in [Readers -> Seq(Lines)]
    /\ reader \in [Readers -> {"away", "history", "streaming"}]
    /\ received \in [Readers -> Seq(Lines)]

(* Requests come in turn, and who did not begin has written nothing; nor    *)
(* has a request after the one that installs: it was refused.               *)
InTurn ==
    /\ \A n, k \in Attempts : k < n /\ phase[k] = "new" => phase[n] = "new"
    /\ \A n \in Attempts : phase[n] \in {"new", "checking"} => written[n] = 0
    /\ \A n, k \in Attempts : phase[n] \in Busy /\ n < k => written[k] = 0

(* A sequence of lines is in order, written so far, earlier than another.   *)
Ordered(s) == \A i, j \in DOMAIN s : i < j => Earlier(s[i], s[j])
Upto(s, w) == \A i \in DOMAIN s : s[i][2] <= w[s[i][1]]
Before(s, t) == \A i \in DOMAIN s, j \in DOMAIN t : Earlier(s[i], t[j])

(* The log, what is in a channel and what a reader was sent are in order;   *)
(* what it was sent is earlier than what is in its channel, and all of it    *)
(* was written: the next line is later.                                     *)
LogOrdered == Ordered(logLines) /\ Upto(logLines, written)

StreamOrdered(r) ==
    /\ Ordered(channel[r]) /\ Upto(channel[r], written)
    /\ Ordered(received[r]) /\ Upto(received[r], written)
    /\ Before(received[r], channel[r])
    /\ reader[r] # "streaming" => channel[r] = <<>> /\ r \notin listeners

InstallerInv ==
    /\ InstallerTypeOK /\ OneInstaller /\ InTurn
    /\ LogOrdered
    /\ \A r \in Readers : StreamOrdered(r)

-----------------------------------------------------------------------------
(* Sequences of lines. *)

LEMMA EmptyIsOrdered ==
    /\ Ordered(<<>>)
    /\ \A s, w : Upto(<<>>, w) /\ Before(s, <<>>) /\ Before(<<>>, s)
BY DEF Ordered, Upto, Before

LEMMA AppendInOrder ==
    ASSUME NEW s \in Seq(Lines), NEW e \in Lines, Ordered(s), Before(s, <<e>>)
    PROVE  Append(s, e) \in Seq(Lines) /\ Ordered(Append(s, e))
<1>1. /\ DOMAIN Append(s, e) = DOMAIN s \cup {Len(s) + 1}
      /\ \A i \in DOMAIN s : Append(s, e)[i] = s[i] /\ i \in 1 .. Len(s)
      /\ Append(s, e)[Len(s) + 1] = e
      /\ Len(s) \in Nat
  OBVIOUS
<1>2. \A i \in DOMAIN s : Earlier(s[i], e)
  BY DEF Before
<1>3. Ordered(Append(s, e))
  BY <1>1, <1>2 DEF Ordered
<1> QED
  BY <1>3

LEMMA AppendUpto ==
    ASSUME NEW s \in Seq(Lines), NEW e \in Lines, NEW w, Upto(s, w), e[2] <= w[e[1]]
    PROVE  Upto(Append(s, e), w)
<1>1. /\ DOMAIN Append(s, e) = DOMAIN s \cup {Len(s) + 1}
      /\ \A i \in DOMAIN s : Append(s, e)[i] = s[i]
      /\ Append(s, e)[Len(s) + 1] = e
  OBVIOUS
<1> QED
  BY <1>1 DEF Upto

LEMMA AppendBefore ==
    ASSUME NEW s \in Seq(Lines), NEW t \in Seq(Lines), NEW e \in Lines,
           Before(s, t), Before(s, <<e>>)
    PROVE  Before(s, Append(t, e))
<1>1. /\ DOMAIN Append(t, e) = DOMAIN t \cup {Len(t) + 1}
      /\ \A i \in DOMAIN t : Append(t, e)[i] = t[i]
      /\ Append(t, e)[Len(t) + 1] = e
  OBVIOUS
<1>2. \A i \in DOMAIN s : Earlier(s[i], e)
  BY DEF Before
<1> QED
  BY <1>1, <1>2 DEF Before

(* The head of a channel goes to the reader. *)
LEMMA TailInOrder ==
    ASSUME NEW t \in Seq(Lines), t # <<>>, Ordered(t)
    PROVE  /\ Head(t) \in Lines /\ Tail(t) \in Seq(Lines)
           /\ Ordered(Tail(t)) /\ Before(<<Head(t)>>, Tail(t))
           /\ \A w : Upto(t, w) => Upto(Tail(t), w) /\ Head(t)[2] <= w[Head(t)[1]]
           /\ \A s : Before(s, t) => Before(s, Tail(t)) /\ Before(s, <<Head(t)>>)
<1>1. /\ Len(t) \in Nat \ {0} /\ DOMAIN t = 1 .. Len(t)
      /\ DOMAIN Tail(t) = 1 .. Len(t) - 1
      /\ \A i \in 1 .. Len(t) - 1 : Tail(t)[i] = t[i + 1] /\ i + 1 \in DOMAIN t
      /\ Head(t) = t[1] /\ 1 \in DOMAIN t
      /\ Head(t) \in Lines /\ Tail(t) \in Seq(Lines)
  OBVIOUS
<1>2. Ordered(Tail(t)) /\ Before(<<Head(t)>>, Tail(t))
  BY <1>1 DEF Ordered, Before
<1>3. \A w : Upto(t, w) => Upto(Tail(t), w) /\ Head(t)[2] <= w[Head(t)[1]]
  BY <1>1 DEF Upto
<1>4. \A s : Before(s, t) => Before(s, Tail(t)) /\ Before(s, <<Head(t)>>)
  BY <1>1 DEF Before
<1> QED
  BY <1>1, <1>2, <1>3, <1>4

LEMMA BeforeAppend ==
    ASSUME NEW s \in Seq(Lines), NEW e \in Lines, NEW t \in Seq(Lines),
           Before(s, t), Before(<<e>>, t)
    PROVE  Before(Append(s, e), t)
<1>1. /\ DOMAIN Append(s, e) = DOMAIN s \cup {Len(s) + 1}
      /\ \A i \in DOMAIN s : Append(s, e)[i] = s[i]
      /\ Append(s, e)[Len(s) + 1] = e
  OBVIOUS
<1>2. \A j \in DOMAIN t : Earlier(e, t[j])
  BY DEF Before
<1> QED
  BY <1>1, <1>2 DEF Before

(* Writing more only adds lines that are later. *)
LEMMA UptoGrows ==
    ASSUME NEW w \in [Attempts -> Nat], NEW v \in [Attempts -> Nat],
           \A n \in Attempts : w[n] <= v[n],
           NEW s \in Seq(Lines), Upto(s, w)
    PROVE  Upto(s, v)
<1> SUFFICES ASSUME NEW i \in DOMAIN s PROVE s[i][2] <= v[s[i][1]]
  BY DEF Upto
<1>1. s[i] \in Lines
  OBVIOUS
<1>2. s[i][1] \in Attempts /\ s[i][2] \in Nat /\ s[i][2] <= w[s[i][1]]
  BY <1>1 DEF Lines, Upto
<1> QED
  BY <1>2

LEMMA NextIsLater ==
    ASSUME InstallerInv, NEW n \in Attempts, phase[n] \in Busy,
           NEW s \in Seq(Lines), Upto(s, written)
    PROVE  Before(s, << <<n, written[n] + 1>> >>)
<1> SUFFICES ASSUME NEW i \in DOMAIN s PROVE Earlier(s[i], <<n, written[n] + 1>>)
  BY DEF Before
<1>1. s[i] \in Lines
  OBVIOUS
<1>2. /\ s[i][1] \in Attempts /\ s[i][2] \in Nat \ {0}
      /\ s[i][2] <= written[s[i][1]]
  BY <1>1 DEF Lines, Upto
<1>3. s[i][1] <= n
  <2>1. ~(n < s[i][1])
    BY <1>2 DEF InstallerInv, InTurn
  <2>2. s[i][1] \in Nat /\ n \in Nat
    BY <1>2, BoundsAreNats DEF Attempts
  <2>3. QED
    BY <2>1, <2>2
<1>4. s[i][1] \in Int /\ n \in Int /\ written[n] \in Nat
  BY <1>2, BoundsAreNats DEF InstallerInv, InstallerTypeOK, Attempts
<1> QED
  BY <1>2, <1>3, <1>4 DEF Earlier

-----------------------------------------------------------------------------
(* The steps. *)

LEMMA InstallerInvStarts == InstallerInit => InstallerInv
<1> SUFFICES ASSUME InstallerInit PROVE InstallerInv
  OBVIOUS
<1>1. InstallerTypeOK
  <2>1. <<>> \in Seq(Lines)
    OBVIOUS
  <2>2. logLines \in Seq(Lines) /\ listeners \subseteq Readers /\ isInstalling \in BOOLEAN
    BY <2>1 DEF InstallerInit
  <2>3. /\ channel \in [Readers -> Seq(Lines)] /\ received \in [Readers -> Seq(Lines)]
        /\ reader \in [Readers -> {"away", "history", "streaming"}]
    BY <2>1 DEF InstallerInit
  <2>4. phase \in [Attempts -> Phases] /\ written \in [Attempts -> Nat]
    BY DEF InstallerInit, Phases
  <2> QED
    BY <2>2, <2>3, <2>4 DEF InstallerTypeOK
<1>2. OneInstaller /\ InTurn
  BY DEF InstallerInit, OneInstaller, InTurn, Busy
<1>3. LogOrdered
  BY EmptyIsOrdered DEF InstallerInit, LogOrdered
<1>4. ASSUME NEW r \in Readers PROVE StreamOrdered(r)
  <2>1. /\ channel[r] = <<>> /\ received[r] = <<>> /\ reader[r] = "away"
        /\ r \notin listeners
    BY DEF InstallerInit
  <2>2. Ordered(<<>>) /\ Upto(<<>>, written) /\ Before(<<>>, <<>>)
    BY EmptyIsOrdered
  <2> QED
    BY <2>1, <2>2 DEF StreamOrdered
<1> QED
  BY <1>1, <1>2, <1>3, <1>4 DEF InstallerInv

LEMMA BroadcastKeepsLogs ==
    ASSUME InstallerInv, NEW n \in Attempts, phase[n] \in Busy, Broadcast(n),
           UNCHANGED readerVars
    PROVE  /\ LogOrdered'
           /\ \A r \in Readers : StreamOrdered(r)'
           /\ written' \in [Attempts -> Nat]
           /\ \A k \in Attempts \ {n} : written'[k] = written[k]
           /\ logLines' \in Seq(Lines)
           /\ channel' \in [Readers -> Seq(Lines)]
<1> DEFINE line == <<n, written[n] + 1>>
<1>1. /\ written' = [written EXCEPT ![n] = @ + 1]
      /\ logLines' = Append(logLines, line)
      /\ channel' = [r \in Readers |->
             IF r \in listeners /\ Len(channel[r]) < ChannelSize
             THEN Append(channel[r], line) ELSE channel[r]]
      /\ UNCHANGED <<listeners, reader, received>>
  BY DEF Broadcast, readerVars
<1>2. /\ line \in Lines /\ line[2] <= written'[line[1]]
      /\ written \in [Attempts -> Nat] /\ written' \in [Attempts -> Nat]
      /\ \A k \in Attempts : written[k] <= written'[k]
  BY <1>1 DEF InstallerInv, InstallerTypeOK, Lines
<1>3. \A s \in Seq(Lines) : Upto(s, written) => Before(s, <<line>>)
  BY NextIsLater
<1>4. \A s \in Seq(Lines) : Upto(s, written) => Upto(s, written')
  BY <1>2, UptoGrows
<1> HIDE DEF line
<1>5. \A s \in Seq(Lines) : Ordered(s) /\ Upto(s, written) =>
          /\ Append(s, line) \in Seq(Lines)
          /\ Ordered(Append(s, line)) /\ Upto(Append(s, line), written')
  BY <1>2, <1>3, <1>4, AppendInOrder, AppendUpto
<1>6. logLines \in Seq(Lines) /\ Ordered(logLines) /\ Upto(logLines, written)
  BY DEF InstallerInv, InstallerTypeOK, LogOrdered
<1>7. LogOrdered' /\ logLines' \in Seq(Lines)
  BY <1>1, <1>5, <1>6 DEF LogOrdered, Ordered, Upto, Earlier
<1>8. ASSUME NEW r \in Readers
      PROVE  StreamOrdered(r)' /\ channel'[r] \in Seq(Lines)
  <2>1. /\ channel[r] \in Seq(Lines) /\ Ordered(channel[r]) /\ Upto(channel[r], written)
        /\ received[r] \in Seq(Lines) /\ Ordered(received[r]) /\ Upto(received[r], written)
        /\ Before(received[r], channel[r])
        /\ reader[r] # "streaming" => channel[r] = <<>> /\ r \notin listeners
    BY DEF InstallerInv, InstallerTypeOK, StreamOrdered
  <2>2. \/ channel'[r] = channel[r]
        \/ r \in listeners /\ channel'[r] = Append(channel[r], line)
    BY <1>1
  <2>3. /\ channel'[r] \in Seq(Lines) /\ Ordered(channel'[r]) /\ Upto(channel'[r], written')
        /\ Before(received[r], channel'[r])
        /\ reader[r] # "streaming" => channel'[r] = <<>> /\ r \notin listeners
    BY <2>1, <2>2, <1>2, <1>3, <1>4, <1>5, AppendBefore
  <2>4. Upto(received[r], written')
    BY <2>1, <1>4
  <2> QED
    BY <2>1, <2>3, <2>4, <1>1 DEF StreamOrdered
<1>9. channel' \in [Readers -> Seq(Lines)]
  BY <1>1, <1>8
<1> QED
  BY <1>1, <1>2, <1>7, <1>8, <1>9 DEF InstallerInv, InstallerTypeOK

(* What a step of one attempt may do to the phases: it leaves "new" in turn  *)
(* and is alone while it is busy. *)
LEMMA PhaseStep ==
    ASSUME InstallerInv, NEW n \in Attempts, NEW p \in Phases \ {"new"},
           Enter(n, p),
           phase[n] \in Busy \/ (phase[n] = "new" /\ \A k \in 1 .. n - 1 : phase[k] # "new"),
           phase[n] = "new" /\ p = "ended" => isInstalling,
           phase[n] = "new" /\ p # "ended" => ~isInstalling,
           written' \in [Attempts -> Nat],
           \A k \in Attempts \ {n} : written'[k] = written[k],
           phase[n] = "new" => written' = written,
           p = "checking" => phase[n] = "new",
           isInstalling' = \/ isInstalling /\ ~(phase[n] \in Busy /\ p = "ended")
                           \/ phase[n] = "new" /\ p # "ended"
    PROVE  phase' \in [Attempts -> Phases] /\ OneInstaller' /\ InTurn'
<1>1. /\ phase \in [Attempts -> Phases]
      /\ phase' = [phase EXCEPT ![n] = p]
      /\ written \in [Attempts -> Nat]
  BY DEF Enter, InstallerInv, InstallerTypeOK
<1>2. phase' \in [Attempts -> Phases]
  BY <1>1
<1>3. /\ isInstalling <=> \E k \in Attempts : phase[k] \in Busy
      /\ \A j, k \in Attempts : phase[j] \in Busy /\ phase[k] \in Busy => j = k
  BY DEF InstallerInv, OneInstaller
<1>4. "new" \notin Busy /\ "ended" \notin Busy /\ p \in Busy \cup {"ended"}
  BY DEF Busy, Phases
<1>5. OneInstaller'
  BY <1>1, <1>3, <1>4 DEF OneInstaller, Busy
<1>6. InTurn'
  <2>1. /\ \A j, k \in Attempts : k < j /\ phase[k] = "new" => phase[j] = "new"
        /\ \A k \in Attempts : phase[k] \in {"new", "checking"} => written[k] = 0
        /\ \A j, k \in Attempts : phase[j] \in Busy /\ j < k => written[k] = 0
    BY DEF InstallerInv, InTurn
  <2>2. Attempts = 1 .. MaxAttempts /\ MaxAttempts \in Nat
    BY BoundsAreNats DEF Attempts
  <2>3. ASSUME NEW j \in Attempts, NEW k \in Attempts, k < j, phase'[k] = "new"
        PROVE  phase'[j] = "new"
    BY <2>1, <2>2, <2>3, <1>1, <1>4
  <2>4. ASSUME NEW k \in Attempts, phase'[k] \in {"new", "checking"}
        PROVE  written'[k] = 0
    BY <2>1, <2>4, <1>1, <1>4
  <2>5. ASSUME NEW j \in Attempts, NEW k \in Attempts, phase'[j] \in Busy, j < k
        PROVE  written'[k] = 0
    <3>1. CASE j = n
      <4>1. k # n /\ written'[k] = written[k]
        BY <3>1, <2>2, <2>5
      <4>2. CASE phase[n] \in Busy
        BY <4>1, <4>2, <3>1, <2>1, <2>5
      <4>3. CASE phase[n] = "new"
        BY <4>1, <4>3, <3>1, <2>1, <2>5
      <4> QED
        BY <4>2, <4>3
    <3>2. CASE j # n
      <4>1. phase[j] \in Busy
        BY <3>2, <2>5, <1>1
      <4>2. phase[n] = "new" => written' = written
        OBVIOUS
      <4>3. phase[n] \notin Busy
        BY <3>2, <4>1, <1>3
      <4> QED
        BY <4>1, <4>2, <4>3, <2>1, <2>5
    <3> QED
      BY <3>1, <3>2
  <2> QED
    BY <2>3, <2>4, <2>5 DEF InTurn
<1> QED
  BY <1>2, <1>5, <1>6

(* Steps that leave the log and the readers alone. *)
LEMMA LogsStay ==
    ASSUME InstallerInv, UNCHANGED <<readerVars, channel, written>>,
           logLines' = logLines \/ logLines' = <<>>
    PROVE  /\ LogOrdered' /\ (\A r \in Readers : StreamOrdered(r)')
           /\ logLines' \in Seq(Lines) /\ channel' \in [Readers -> Seq(Lines)]
           /\ written' \in [Attempts -> Nat] /\ \A k \in Attempts : written'[k] = written[k]
<1>1. LogOrdered' /\ logLines' \in Seq(Lines)
  <2>1. logLines \in Seq(Lines) /\ Ordered(logLines) /\ Upto(logLines, written)
    BY DEF InstallerInv, LogOrdered, InstallerTypeOK
  <2>2. Ordered(logLines') /\ Upto(logLines', written) /\ logLines' \in Seq(Lines)
    <3>1. Ordered(<<>>) /\ Upto(<<>>, written) /\ <<>> \in Seq(Lines)
      BY EmptyIsOrdered
    <3> QED
      BY <2>1, <3>1
  <2> QED
    BY <2>2 DEF LogOrdered
<1>2. \A r \in Readers : StreamOrdered(r)'
  BY DEF InstallerInv, StreamOrdered, readerVars
<1> QED
  BY <1>1, <1>2 DEF InstallerInv, InstallerTypeOK

LEMMA InstallDependenciesKeeps ==
    ASSUME InstallerInv, NEW n \in Attempts, InstallDependencies(n)
    PROVE  InstallerInv'
<1>1. /\ phase[n] = "new" /\ \A k \in 1 .. n - 1 : phase[k] # "new"
      /\ UNCHANGED <<readerVars, channel, written>>
  BY DEF InstallDependencies
<1>2. isInstalling \in BOOLEAN /\ "new" \notin Busy
  BY DEF InstallerInv, InstallerTypeOK, Busy
<1>3. CASE isInstalling
  <2>1. Enter(n, "ended") /\ UNCHANGED <<isInstalling, logLines>>
    BY <1>3 DEF InstallDependencies
  <2>2. phase' \in [Attempts -> Phases] /\ OneInstaller' /\ InTurn'
    BY <1>1, <1>2, <1>3, <2>1, PhaseStep, LogsStay DEF Phases
  <2> QED
    BY <2>1, <2>2, <1>1, LogsStay DEF InstallerInv, InstallerTypeOK, readerVars
<1>4. CASE ~isInstalling
  <2>1. Enter(n, "checking") /\ isInstalling' = TRUE /\ logLines' = <<>>
    BY <1>4 DEF InstallDependencies
  <2>2. phase' \in [Attempts -> Phases] /\ OneInstaller' /\ InTurn'
    BY <1>1, <1>2, <1>4, <2>1, PhaseStep, LogsStay DEF Phases, Busy
  <2> QED
    BY <2>1, <2>2, <1>1, LogsStay DEF InstallerInv, InstallerTypeOK, readerVars
<1> QED
  BY <1>2, <1>3, <1>4

(* A step of a busy attempt to another phase. *)
LEMMA BusyStep ==
    ASSUME InstallerInv, NEW n \in Attempts, phase[n] \in Busy,
           NEW p \in (Busy \ {"checking"}) \cup {"ended"}, Enter(n, p),
           isInstalling' = (p # "ended"),
           UNCHANGED readerVars,
           Broadcast(n) \/ UNCHANGED <<logLines, channel, written>>
    PROVE  InstallerInv'
<1>1. isInstalling = TRUE
  BY DEF InstallerInv, OneInstaller, InstallerTypeOK
<1>2. /\ LogOrdered' /\ (\A r \in Readers : StreamOrdered(r)')
      /\ written' \in [Attempts -> Nat]
      /\ \A k \in Attempts \ {n} : written'[k] = written[k]
      /\ logLines' \in Seq(Lines)
      /\ channel' \in [Readers -> Seq(Lines)]
  <2>1. CASE Broadcast(n)
    BY <2>1, BroadcastKeepsLogs
  <2>2. CASE UNCHANGED <<logLines, channel, written>>
    BY <2>2, LogsStay
  <2> QED
    BY <2>1, <2>2
<1>3. phase' \in [Attempts -> Phases] /\ OneInstaller' /\ InTurn'
  <2>1. phase[n] # "new" /\ p \in Phases \ {"new"} /\ p # "checking"
    BY DEF Busy, Phases
  <2> QED
    BY <1>1, <1>2, <2>1, PhaseStep
<1> QED
  BY <1>2, <1>3 DEF InstallerInv, InstallerTypeOK, readerVars

(* An attempt that prints and stays where it is. *)
LEMMA PrintKeeps ==
    ASSUME InstallerInv, NEW n \in Attempts, CommandPrints(n)
    PROVE  InstallerInv'
<1>1. /\ phase[n] \in Busy \ {"checking"} /\ Broadcast(n)
      /\ UNCHANGED readerVars /\ phase' = phase /\ isInstalling' = isInstalling
  BY DEF CommandPrints, Busy, attemptVars
<1>2. Enter(n, phase[n]) /\ isInstalling = TRUE
  BY <1>1 DEF Enter, InstallerInv, InstallerTypeOK, OneInstaller
<1> QED
  BY <1>1, <1>2, BusyStep DEF Busy

LEMMA CheckDependenciesKeeps ==
    ASSUME InstallerInv, NEW n \in Attempts, CheckDependencies(n)
    PROVE  InstallerInv'
<1>1. /\ phase[n] \in Busy
      /\ UNCHANGED <<readerVars, channel, logLines, written>>
      /\ \/ Enter(n, "ended") /\ isInstalling' = FALSE
         \/ Enter(n, "started") /\ UNCHANGED isInstalling
  BY DEF CheckDependencies, Busy
<1>2. isInstalling = TRUE
  BY <1>1 DEF InstallerInv, OneInstaller, InstallerTypeOK
<1> QED
  BY <1>1, <1>2, BusyStep DEF Busy

LEMMA RunInstallKeeps ==
    ASSUME InstallerInv, NEW n \in Attempts, RunInstall(n)
    PROVE  InstallerInv'
<1>1. CASE CommandPrints(n)
  BY <1>1, PrintKeeps
<1>2. CASE FinishInstall(n)
  <2>1. /\ phase[n] \in Busy /\ Enter(n, "ended") /\ isInstalling' = FALSE
        /\ UNCHANGED <<readerVars, logLines, channel, written>>
    BY <1>2 DEF FinishInstall, Busy
  <2> QED
    BY <2>1, BusyStep
<1>3. CASE \/ StartInstall(n) \/ LineTooLong(n) \/ UpdateEnds(n)
           \/ InstallEnds(n) \/ Recheck(n)
  <2>1. /\ phase[n] \in Busy /\ UNCHANGED <<readerVars, isInstalling>>
        /\ Broadcast(n) \/ UNCHANGED <<logLines, channel, written>>
    BY <1>3 DEF StartInstall, LineTooLong, UpdateEnds, InstallEnds, Recheck, Busy
  <2>2. \E p \in Busy \ {"checking"} : Enter(n, p)
    BY <1>3 DEF StartInstall, LineTooLong, UpdateEnds, InstallEnds, Recheck, Busy
  <2>3. isInstalling = TRUE
    BY <2>1 DEF InstallerInv, OneInstaller, InstallerTypeOK
  <2> QED
    BY <2>1, <2>2, <2>3, BusyStep DEF Busy
<1> QED
  BY <1>1, <1>2, <1>3 DEF RunInstall

-----------------------------------------------------------------------------
(* Readers.  Each step concerns one of them. *)

LEMMA ReaderStep ==
    ASSUME InstallerInv, NEW r \in Readers,
           UNCHANGED <<attemptVars, isInstalling, logLines, written>>,
           listeners' \subseteq Readers,
           reader' \in [Readers -> {"away", "history", "streaming"}],
           received' \in [Readers -> Seq(Lines)],
           channel' \in [Readers -> Seq(Lines)],
           \A q \in Readers \ {r} :
               /\ reader'[q] = reader[q] /\ received'[q] = received[q]
               /\ channel'[q] = channel[q] /\ (q \in listeners' => q \in listeners),
           StreamOrdered(r)'
    PROVE  InstallerInv'
<1>1. phase' = phase /\ written' = written /\ logLines' = logLines /\ isInstalling' = isInstalling
  BY DEF attemptVars
<1>2. InstallerTypeOK' /\ OneInstaller' /\ InTurn' /\ LogOrdered'
  BY <1>1 DEF InstallerInv, InstallerTypeOK, OneInstaller, InTurn, LogOrdered
<1>3. ASSUME NEW q \in Readers \ {r} PROVE StreamOrdered(q)'
  <2>1. /\ reader'[q] = reader[q] /\ received'[q] = received[q]
        /\ channel'[q] = channel[q] /\ (q \in listeners' => q \in listeners)
    OBVIOUS
  <2> QED
    BY <1>1, <2>1 DEF InstallerInv, StreamOrdered
<1> QED
  BY <1>2, <1>3 DEF InstallerInv

LEMMA ReadHistoryKeeps ==
    ASSUME InstallerInv, NEW r \in Readers, ReadHistory(r)
    PROVE  InstallerInv'
<1>1. /\ reader[r] = "away" /\ reader' = [reader EXCEPT ![r] = "history"]
      /\ received' = [received EXCEPT ![r] = logLines]
      /\ UNCHANGED <<attemptVars, isInstalling, logLines, listeners, channel, written>>
  BY DEF ReadHistory
<1>2. /\ reader'[r] = "history" /\ received'[r] = logLines /\ channel[r] = <<>>
      /\ r \notin listeners /\ Ordered(logLines) /\ Upto(logLines, written)
      /\ Ordered(<<>>) /\ Upto(<<>>, written) /\ Before(logLines, <<>>)
  BY <1>1, EmptyIsOrdered DEF InstallerInv, InstallerTypeOK, StreamOrdered, LogOrdered
<1>3. StreamOrdered(r)'
  BY <1>1, <1>2 DEF StreamOrdered
<1> QED
  BY <1>1, <1>3, ReaderStep DEF InstallerInv, InstallerTypeOK

LEMMA SubscribeKeeps ==
    ASSUME InstallerInv, NEW r \in Readers, Subscribe(r)
    PROVE  InstallerInv'
<1>1. /\ reader' = [reader EXCEPT ![r] = "streaming"]
      /\ listeners' = listeners \cup {r} /\ channel' = [channel EXCEPT ![r] = <<>>]
      /\ UNCHANGED <<attemptVars, isInstalling, logLines, received, written>>
  BY DEF Subscribe
<1>2. <<>> \in Seq(Lines)
  OBVIOUS
<1>3. /\ reader'[r] = "streaming" /\ channel'[r] = <<>>
      /\ Ordered(received[r]) /\ Upto(received[r], written)
      /\ Ordered(<<>>) /\ Upto(<<>>, written) /\ Before(received[r], <<>>)
  BY <1>1, EmptyIsOrdered DEF InstallerInv, InstallerTypeOK, StreamOrdered
<1>4. StreamOrdered(r)'
  BY <1>1, <1>3 DEF StreamOrdered
<1> QED
  BY <1>1, <1>2, <1>4, ReaderStep DEF InstallerInv, InstallerTypeOK

LEMMA ReceiveKeeps ==
    ASSUME InstallerInv, NEW r \in Readers, Receive(r)
    PROVE  InstallerInv'
<1> DEFINE sent == received[r]
           queue == channel[r]
<1>1. /\ reader[r] = "streaming" /\ queue # <<>>
      /\ received' = [received EXCEPT ![r] = Append(sent, Head(queue))]
      /\ channel' = [channel EXCEPT ![r] = Tail(queue)]
      /\ UNCHANGED <<attemptVars, isInstalling, logLines, listeners, reader, written>>
  BY DEF Receive
<1>2. /\ sent \in Seq(Lines) /\ Ordered(sent) /\ Upto(sent, written)
      /\ queue \in Seq(Lines) /\ Ordered(queue) /\ Upto(queue, written)
      /\ Before(sent, queue)
      /\ received'[r] = Append(sent, Head(queue)) /\ channel'[r] = Tail(queue)
  BY <1>1 DEF InstallerInv, InstallerTypeOK, StreamOrdered
<1> HIDE DEF sent, queue
<1>3. /\ Head(queue) \in Lines /\ Tail(queue) \in Seq(Lines)
      /\ Ordered(Tail(queue)) /\ Before(<<Head(queue)>>, Tail(queue))
      /\ Upto(Tail(queue), written) /\ Head(queue)[2] <= written[Head(queue)[1]]
      /\ Before(sent, Tail(queue)) /\ Before(sent, <<Head(queue)>>)
  BY <1>1, <1>2, TailInOrder
<1>4. /\ Append(sent, Head(queue)) \in Seq(Lines)
      /\ Ordered(Append(sent, Head(queue)))
      /\ Upto(Append(sent, Head(queue)), written)
      /\ Before(Append(sent, Head(queue)), Tail(queue))
  BY <1>2, <1>3, AppendInOrder, AppendUpto, BeforeAppend
<1>5. StreamOrdered(r)'
  BY <1>1, <1>2, <1>3, <1>4 DEF StreamOrdered
<1> QED
  BY <1>1, <1>3, <1>4, <1>5, ReaderStep DEF InstallerInv, InstallerTypeOK

LEMMA UnsubscribeKeeps ==
    ASSUME InstallerInv, NEW r \in Readers, Unsubscribe(r)
    PROVE  InstallerInv'
<1>1. /\ listeners' = listeners \ {r} /\ channel' = [channel EXCEPT ![r] = <<>>]
      /\ received' = [received EXCEPT ![r] = <<>>] /\ reader' = [reader EXCEPT ![r] = "away"]
      /\ UNCHANGED <<attemptVars, isInstalling, logLines, written>>
  BY DEF Unsubscribe
<1>2. <<>> \in Seq(Lines)
  OBVIOUS
<1>3. /\ received'[r] = <<>> /\ channel'[r] = <<>> /\ r \notin listeners'
      /\ Ordered(<<>>) /\ Upto(<<>>, written) /\ Before(<<>>, <<>>)
  BY <1>1, EmptyIsOrdered DEF InstallerInv, InstallerTypeOK
<1>4. StreamOrdered(r)'
  BY <1>1, <1>3 DEF StreamOrdered
<1> QED
  BY <1>1, <1>2, <1>4, ReaderStep DEF InstallerInv, InstallerTypeOK

-----------------------------------------------------------------------------
LEMMA ServerStepKeeps ==
    InstallerInv /\ [ServerNext]_<<serverVars, installerVars>> => InstallerInv'
<1> SUFFICES ASSUME InstallerInv, [ServerNext]_<<serverVars, installerVars>>
             PROVE  InstallerInv'
  OBVIOUS
<1>1. CASE Request
  BY <1>1, InstallDependenciesKeeps, ReadHistoryKeeps DEF Request
<1>2. CASE Work
  BY <1>2, CheckDependenciesKeeps, RunInstallKeeps, SubscribeKeeps, ReceiveKeeps,
     UnsubscribeKeeps DEF Work, Stream
<1>3. CASE UNCHANGED installerVars
  <2>1. UNCHANGED <<isInstalling, logLines, listeners, channel, phase, written, reader, received>>
    BY <1>3 DEF installerVars, attemptVars, readerVars
  <2>2. \A r \in Readers : StreamOrdered(r)'
    BY <2>1 DEF InstallerInv, StreamOrdered
  <2> QED
    BY <2>1, <2>2 DEF InstallerInv, InstallerTypeOK, OneInstaller, InTurn, LogOrdered
<1> QED
  BY <1>1, <1>2, <1>3 DEF ServerNext, Stop, Expire, WorkersReturn, CloseServer

(* The invariant the two theorems rest on. *)
LEMMA InstallerInvHolds == ServerSpec => []InstallerInv
<1>1. InstallerInit /\ ServerInit => InstallerInv
  BY InstallerInvStarts
<1> QED
  BY <1>1, ServerStepKeeps, PTL DEF ServerSpec

(* Of any number of requests to install, at any time of the service, at most *)
(* one checks or installs, and the flag says exactly whether one does        *)
(* (deps.go:397-431).                                                        *)
THEOREM InstallersExclude == ServerSpec => []OneInstaller
<1>1. InstallerInv => OneInstaller
  BY DEF InstallerInv
<1> QED
  BY <1>1, InstallerInvHolds, PTL

(* Whatever lines are lost between log and stream, a reader of the installer *)
(* gets what it gets in order and nothing twice (deps.go:544-584).           *)
THEOREM StreamsInOrder == ServerSpec => []StreamInOrder
<1>1. InstallerInv => StreamInOrder
  BY DEF InstallerInv, StreamOrdered, Ordered, StreamInOrder
<1> QED
  BY <1>1, InstallerInvHolds, PTL

-----------------------------------------------------------------------------
(* The session store: what users may count on *)

LEMMA LimitsAreNats ==
    /\ Lifetime \in Nat \ {0} /\ MaxSessions \in Nat \ {0}
    /\ MaxLogins \in Nat /\ MaxTime \in Nat
BY SessionAssumption

(* A stored session expires a lifetime after its login, and nobody logged   *)
(* it out. *)
StoredMatches ==
    \A t \in DOMAIN sessions : sessions[t] = logins[t] + Lifetime /\ t \notin loggedOut

LoginsArePast == \A t \in Issued : logins[t] <= now

SessionInv == SessionTypeOK /\ StoredMatches /\ LoginsArePast /\ SessionsAreKept

-----------------------------------------------------------------------------
(* Sets of tokens. *)

LEMMA TokensFinite ==
    ASSUME NEW S \in SUBSET Tokens
    PROVE  IsFiniteSet(S) /\ Cardinality(S) \in Nat
<1>1. IsFiniteSet(Tokens)
  BY LimitsAreNats, FS_Interval DEF Tokens
<1> QED
  BY <1>1, FS_Subset, FS_CardinalityType

LEMMA SetsOfTokens ==
    ASSUME SessionTypeOK
    PROVE  /\ DOMAIN sessions \in SUBSET Tokens
           /\ Live \in SUBSET DOMAIN sessions
           /\ \A t : After(t) \in SUBSET Tokens
BY DEF SessionTypeOK, Live, After

(* A store with sessions has one that is next to expire. *)
LEMMA OldestExists ==
    ASSUME SessionTypeOK, Live # {}
    PROVE  \E t \in Live : Oldest(t)
<1> DEFINE times == {sessions[t] : t \in Live}
<1>1. times \subseteq Nat /\ times # {}
  BY SetsOfTokens DEF SessionTypeOK
<1>2. PICK x \in times : \A y \in times : ~(<<y, x>> \in OpToRel(<, Nat))
  <2> HIDE DEF times
  <2> QED
    BY <1>1, NatLessThanWellFounded, WFMin
<1>3. PICK t \in Live : x = sessions[t]
  BY <1>2
<1>4. \A u \in Live : sessions[t] <= sessions[u]
  <2> SUFFICES ASSUME NEW u \in Live PROVE sessions[t] <= sessions[u]
    OBVIOUS
  <2>1. sessions[t] \in Nat /\ sessions[u] \in Nat
    BY <1>1
  <2>2. ~(sessions[u] < sessions[t])
    BY <1>2, <1>3, <2>1 DEF OpToRel
  <2> QED
    BY <2>1, <2>2
<1> QED
  BY <1>3, <1>4 DEF Oldest

-----------------------------------------------------------------------------

LEMMA SessionInvStarts == SessionInit => SessionInv
<1> SUFFICES ASSUME SessionInit PROVE SessionInv
  OBVIOUS
<1>1. DOMAIN sessions = {} /\ Issued = {} /\ passed = 0 /\ loggedOut = {}
  BY DEF SessionInit, Issued
<1>2. SessionTypeOK
  BY <1>1 DEF SessionInit, SessionTypeOK, Issued
<1>3. StoredMatches /\ LoginsArePast
  BY <1>1 DEF StoredMatches, LoginsArePast
<1>4. SessionsAreKept
  BY <1>1, FS_EmptySet, LimitsAreNats DEF SessionsAreKept
<1> QED
  BY <1>2, <1>3, <1>4 DEF SessionInv

(* The step of a login: what is stored afterwards. *)
LEMMA CreateKeeps ==
    ASSUME SessionInv, NEW t \in Tokens, Create(t)
    PROVE  SessionInv'
<1> USE LimitsAreNats
<1>1. PICK gone \in SUBSET Evicted :
          /\ Cardinality(gone) = IF Evicted = {} THEN 0 ELSE 1
          /\ sessions' = [u \in (Live \ gone) \cup {t} |->
                            IF u = t THEN now + Lifetime ELSE sessions[u]]
  BY DEF Create
<1>2. /\ t \notin Issued
      /\ logins' = [u \in Issued \cup {t} |-> IF u = t THEN now ELSE logins[u]]
      /\ UNCHANGED <<now, loggedOut, passed>>
  BY DEF Create
<1>3. Issued' = Issued \cup {t} /\ DOMAIN sessions' = (Live \ gone) \cup {t}
  BY <1>1, <1>2 DEF Issued
<1>4. Live \subseteq Issued /\ t \notin Live /\ gone \subseteq Live
  BY <1>1, <1>2 DEF Live, Evicted, SessionInv, SessionTypeOK
<1>5. SessionTypeOK'
  <2>1. Issued' \subseteq Tokens /\ logins' \in [Issued' -> Nat]
    BY <1>2, <1>3 DEF SessionInv, SessionTypeOK
  <2>2. DOMAIN sessions' \subseteq Issued' /\ sessions' \in [DOMAIN sessions' -> Nat]
    BY <1>1, <1>3, <1>4 DEF SessionInv, SessionTypeOK, Live
  <2> QED
    BY <2>1, <2>2, <1>2, <1>3 DEF SessionInv, SessionTypeOK
<1>6. StoredMatches'
  <2> SUFFICES ASSUME NEW u \in DOMAIN sessions'
               PROVE  sessions'[u] = logins'[u] + Lifetime /\ u \notin loggedOut'
    BY DEF StoredMatches
  <2>1. CASE u = t
    BY <2>1, <1>1, <1>2, <1>3 DEF SessionInv, SessionTypeOK
  <2>2. CASE u # t
    BY <2>2, <1>1, <1>2, <1>3, <1>4 DEF SessionInv, StoredMatches, Live
  <2> QED
    BY <2>1, <2>2
<1>7. LoginsArePast'
  BY <1>2, <1>3 DEF SessionInv, SessionTypeOK, LoginsArePast
<1>8. IsFiniteSet(Live) /\ Cardinality(Live) \in Nat /\ Cardinality(Live) <= MaxSessions
  <2>1. IsFiniteSet(DOMAIN sessions) /\ Cardinality(DOMAIN sessions) \in Nat
    BY SetsOfTokens, TokensFinite DEF SessionInv
  <2>2. IsFiniteSet(Live) /\ Cardinality(Live) <= Cardinality(DOMAIN sessions)
    BY <2>1, SetsOfTokens, FS_Subset DEF SessionInv
  <2> QED
    BY <2>1, <2>2, FS_CardinalityType DEF SessionInv, SessionsAreKept
<1>9. \/ Cardinality(Live) < MaxSessions /\ gone = {}
      \/ /\ Cardinality(Live) = MaxSessions
         /\ \E v \in Live : gone = {v} /\ Oldest(v)
  <2>1. CASE Cardinality(Live) < MaxSessions
    BY <2>1, <1>1, <1>8 DEF Evicted
  <2>2. CASE Cardinality(Live) = MaxSessions
    <3>1. Live # {}
      BY <2>2, FS_EmptySet
    <3>2. Evicted # {}
      BY <2>2, <3>1, OldestExists DEF Evicted, SessionInv
    <3>3. IsFiniteSet(gone)
      BY <1>4, <1>8, FS_Subset
    <3>4. PICK v : gone = {v}
      BY <1>1, <3>2, <3>3, FS_Singleton
    <3> QED
      BY <2>2, <3>4, <1>1 DEF Evicted
  <2> QED
    BY <2>1, <2>2, <1>8
<1>10. Cardinality(DOMAIN sessions') <= MaxSessions
  <2>1. IsFiniteSet(Live \ gone) /\ Cardinality(Live \ gone) \in Nat
        /\ Cardinality(Live \ gone) < MaxSessions
    <3>1. CASE gone = {}
      BY <3>1, <1>8, <1>9, FS_Singleton, FS_EmptySet
    <3>2. CASE gone # {}
      <4>1. PICK v \in Live : gone = {v} /\ Cardinality(Live) = MaxSessions
        BY <3>2, <1>9
      <4>2. IsFiniteSet(Live \ {v}) /\ Cardinality(Live \ {v}) = Cardinality(Live) - 1
        BY <1>8, FS_RemoveElement
      <4> QED
        BY <4>1, <4>2
    <3> QED
      BY <3>1, <3>2
  <2>2. t \notin Live \ gone
    BY <1>4
  <2>3. Cardinality((Live \ gone) \cup {t}) = Cardinality(Live \ gone) + 1
    BY <2>1, <2>2, FS_AddElement
  <2> QED
    BY <2>1, <2>3, <1>3
<1>11. ASSUME NEW v \in Issued', Entitled(v)', Cardinality(After(v)') < MaxSessions
       PROVE  v \in DOMAIN sessions'
  <2> SUFFICES ASSUME v # t, v \notin Live \ gone PROVE FALSE
    BY <1>3
  <2>1. v \in Issued /\ Entitled(v) /\ v \in Tokens
    BY <1>2, <1>3, <1>11 DEF Entitled, SessionInv, SessionTypeOK
  <2>2. After(v)' = After(v) \cup {t} /\ t \notin After(v)
    BY <2>1, <1>2, <1>3 DEF After, SessionInv, LoginsArePast, SessionTypeOK
  <2>3. IsFiniteSet(After(v)) /\ Cardinality(After(v)) \in Nat
    BY SetsOfTokens, TokensFinite DEF SessionInv
  <2>4. Cardinality(After(v)') = Cardinality(After(v)) + 1
    BY <2>2, <2>3, FS_AddElement
  <2>5. v \in DOMAIN sessions
    BY <2>1, <2>3, <2>4, <1>11 DEF SessionInv, SessionsAreKept
  <2>6. v \in Live
    BY <2>1, <2>5 DEF Live, Entitled, SessionInv, StoredMatches
  <2>7. gone = {v} /\ Oldest(v) /\ Cardinality(Live) = MaxSessions
    BY <2>6, <1>9
  <2>8. Live \ {v} \subseteq After(v)
    <3> SUFFICES ASSUME NEW u \in Live \ {v} PROVE u \in After(v)
      OBVIOUS
    <3>1. /\ sessions[v] <= sessions[u]
          /\ sessions[v] = logins[v] + Lifetime
          /\ sessions[u] = logins[u] + Lifetime
      BY <2>5, <2>7 DEF Oldest, Live, SessionInv, StoredMatches
    <3>2. u \in Issued /\ logins[u] \in Nat /\ logins[v] \in Nat
      BY <1>4, <2>1 DEF SessionInv, SessionTypeOK
    <3> QED
      BY <3>1, <3>2 DEF After
  <2>9. Cardinality(Live \ {v}) = MaxSessions - 1
    BY <2>6, <2>7, <1>8, FS_RemoveElement
  <2>10. Cardinality(Live \ {v}) <= Cardinality(After(v))
    BY <2>3, <2>8, FS_Subset
  <2> QED
    BY <2>3, <2>4, <2>9, <2>10, <1>11
<1>12. passed' # 0 => Entitled(passed)'
  BY <1>2, <1>3 DEF Entitled, SessionInv, SessionsAreKept, SessionTypeOK
<1>13. SessionsAreKept'
  BY <1>10, <1>11, <1>12 DEF SessionsAreKept
<1> QED
  BY <1>5, <1>6, <1>7, <1>13 DEF SessionInv

(* A session is taken out of the store, as it is expired or logged out. *)
LEMMA RemovalKeeps ==
    ASSUME SessionInv, NEW t \in Issued, UNCHANGED <<now, logins>>,
           sessions' = Restrict(sessions, DOMAIN sessions \ {t}),
           loggedOut' \in {loggedOut, loggedOut \cup {t}},
           t \in loggedOut' \/ t \notin Live,
           passed' = 0
    PROVE  SessionInv'
<1> USE LimitsAreNats
<1>1. /\ DOMAIN sessions' = DOMAIN sessions \ {t}
      /\ \A u \in DOMAIN sessions' : sessions'[u] = sessions[u]
  BY DEF Restrict
<1>2. Issued' = Issued
  BY DEF Issued
<1>3. SessionTypeOK'
  <2>1. sessions' \in [DOMAIN sessions' -> Nat]
    BY <1>1 DEF SessionInv, SessionTypeOK, Restrict
  <2> QED
    BY <1>1, <1>2, <2>1 DEF SessionInv, SessionTypeOK
<1>4. StoredMatches' /\ LoginsArePast'
  BY <1>1, <1>2 DEF SessionInv, StoredMatches, LoginsArePast
<1>5. Cardinality(DOMAIN sessions') <= MaxSessions
  <2>1. IsFiniteSet(DOMAIN sessions) /\ Cardinality(DOMAIN sessions) \in Nat
    BY SetsOfTokens, TokensFinite DEF SessionInv
  <2>2. /\ Cardinality(DOMAIN sessions') <= Cardinality(DOMAIN sessions)
        /\ Cardinality(DOMAIN sessions') \in Nat
    BY <1>1, <2>1, FS_Subset, FS_CardinalityType
  <2> QED
    BY <2>1, <2>2 DEF SessionInv, SessionsAreKept
<1>6. ASSUME NEW v \in Issued', Entitled(v)', Cardinality(After(v)') < MaxSessions
      PROVE  v \in DOMAIN sessions'
  <2>1. Entitled(v) /\ v \notin loggedOut' /\ After(v)' = After(v)
    BY <1>2, <1>6 DEF Entitled, After
  <2>2. v \in DOMAIN sessions
    BY <2>1, <1>2, <1>6 DEF SessionInv, SessionsAreKept
  <2>3. v \in Live
    BY <2>1, <2>2 DEF Live, Entitled, SessionInv, StoredMatches
  <2> QED
    BY <2>1, <2>2, <2>3, <1>1
<1>7. SessionsAreKept'
  BY <1>5, <1>6 DEF SessionsAreKept
<1> QED
  BY <1>3, <1>4, <1>7 DEF SessionInv

LEMMA ValidKeeps ==
    ASSUME SessionInv, NEW t \in Tokens, Valid(t)
    PROVE  SessionInv'
<1>1. CASE t \in Live
  <2>1. passed' = t /\ UNCHANGED <<now, sessions, logins, loggedOut>>
    BY <1>1 DEF Valid
  <2>2. t \in Issued /\ Entitled(t)
    BY <1>1 DEF Valid, Live, Entitled, SessionInv, StoredMatches
  <2>3. Entitled(passed)' /\ Issued' = Issued
    BY <2>1, <2>2 DEF Entitled, Issued
  <2>4. SessionTypeOK' /\ StoredMatches' /\ LoginsArePast'
    BY <2>1, <2>2, <2>3 DEF SessionInv, SessionTypeOK, StoredMatches, LoginsArePast
  <2>5. SessionsAreKept'
    BY <2>1, <2>3 DEF SessionInv, SessionsAreKept, Entitled, After
  <2> QED
    BY <2>4, <2>5 DEF SessionInv
<1>2. CASE t \notin Live
  BY <1>2, RemovalKeeps DEF Valid
<1> QED
  BY <1>1, <1>2

LEMMA LogoutKeeps ==
    ASSUME SessionInv, NEW t \in Tokens, Logout(t)
    PROVE  SessionInv'
BY RemovalKeeps DEF Logout

LEMMA TickKeeps == SessionInv /\ Tick => SessionInv'
<1> SUFFICES ASSUME SessionInv, Tick PROVE SessionInv'
  OBVIOUS
<1>1. /\ now \in Nat /\ now' = now + 1 /\ passed' = 0
      /\ UNCHANGED <<sessions, logins, loggedOut>>
      /\ Issued' = Issued /\ logins \in [Issued -> Nat]
  BY DEF Tick, Issued, SessionInv, SessionTypeOK
<1>2. SessionTypeOK' /\ StoredMatches' /\ LoginsArePast'
  BY <1>1 DEF SessionInv, SessionTypeOK, StoredMatches, LoginsArePast
<1>3. \A t \in Issued : Entitled(t)' => Entitled(t)
  BY <1>1, LimitsAreNats DEF Entitled
<1>4. SessionsAreKept'
  BY <1>1, <1>3 DEF SessionInv, SessionsAreKept, After
<1> QED
  BY <1>2, <1>4 DEF SessionInv

(* Whatever is created, expires, is found expired or logs out, in whatever   *)
(* order: a user is let in until the session ends or as many others have     *)
(* logged in since as the store holds, and never again after it ended        *)
(* (auth.go:33-80).                                                          *)
THEOREM SessionsStay == SessionSpec => []SessionsAreKept
<1>1. SessionInv /\ [SessionNext]_sessionVars => SessionInv'
  <2> SUFFICES ASSUME SessionInv, [SessionNext]_sessionVars PROVE SessionInv'
    OBVIOUS
  <2>1. CASE Tick
    BY <2>1, TickKeeps
  <2>2. CASE \E t \in Tokens : Create(t) \/ Valid(t) \/ Logout(t)
    BY <2>2, CreateKeeps, ValidKeeps, LogoutKeeps
  <2>3. CASE UNCHANGED sessionVars
    <3>1. UNCHANGED <<now, sessions, logins, loggedOut, passed>> /\ Issued' = Issued
      BY <2>3 DEF sessionVars, Issued
    <3>2. SessionTypeOK' /\ StoredMatches' /\ LoginsArePast'
      BY <3>1 DEF SessionInv, SessionTypeOK, StoredMatches, LoginsArePast
    <3>3. SessionsAreKept'
      BY <3>1 DEF SessionInv, SessionsAreKept, Entitled, After
    <3> QED
      BY <3>2, <3>3 DEF SessionInv
  <2> QED
    BY <2>1, <2>2, <2>3 DEF SessionNext
<1>2. SessionInv => SessionsAreKept
  BY DEF SessionInv
<1> QED
  BY SessionInvStarts, <1>1, <1>2, PTL DEF SessionSpec

-----------------------------------------------------------------------------
(* The version list: what is served is recent *)

LEMMA TimesAreNats == CacheTime \in Nat \ {0} /\ FetchTimeout \in Nat \ {0} /\ Horizon \in Nat \ {0}
BY VersionAssumption

TypesOK ==
    /\ clock \in Nat
    /\ lastFetchTime \in 0 .. clock
    /\ cachedVersions \in Nat \cup {NoList, Bundled}
    /\ fetch \in [Fetchers -> {"idle", "asking", "storing"}]
    /\ since \in [Fetchers -> 0 .. clock]
    /\ list \in [Fetchers -> Nat \cup {NoList, Bundled}]

(* A request under way began at most FetchTimeout ago, and a list that is    *)
(* about to be stored is not older than its request.                        *)
RequestsAreShort ==
    \A f \in Fetchers :
        /\ fetch[f] # "idle" => clock - since[f] <= FetchTimeout
        /\ fetch[f] = "storing" /\ Official(list[f]) => list[f] >= since[f]

(* The cached list was on nginx.org within a request of when it was stored. *)
StoredInTime == Official(cachedVersions) => lastFetchTime - cachedVersions <= FetchTimeout

VersionInv == TypesOK /\ RequestsAreShort /\ StoredInTime /\ ServedIsRecent

LEMMA VersionInvStarts == VersionInit => VersionInv
<1> SUFFICES ASSUME VersionInit PROVE VersionInv
  OBVIOUS
<1>1. TypesOK
  BY DEF VersionInit, TypesOK
<1>2. RequestsAreShort /\ StoredInTime /\ ServedIsRecent
  BY DEF VersionInit, RequestsAreShort, StoredInTime, ServedIsRecent, Official
<1> QED
  BY <1>1, <1>2 DEF VersionInv

LEMMA GetVersionsKeeps ==
  ASSUME VersionInv, NEW f \in Fetchers, GetVersions(f)
  PROVE  VersionInv'
<1> USE TimesAreNats DEF VersionInv
<1>1. CASE Fresh
  <2>1. /\ list' = [list EXCEPT ![f] = cachedVersions]
        /\ UNCHANGED <<clock, cachedVersions, lastFetchTime, fetch, since>>
    BY <1>1 DEF GetVersions
  <2>2. TypesOK'
    BY <2>1 DEF TypesOK
  <2>3. RequestsAreShort' /\ StoredInTime'
    BY <2>1 DEF TypesOK, RequestsAreShort, StoredInTime, Official, GetVersions
  <2>4. Official(cachedVersions) => clock - cachedVersions < CacheTime + FetchTimeout
    BY <1>1 DEF Fresh, StoredInTime, TypesOK, Official
  <2>5. ServedIsRecent'
    BY <2>1, <2>4 DEF ServedIsRecent, TypesOK, Official
  <2> QED
    BY <2>2, <2>3, <2>5
<1>2. CASE ~Fresh
  <2>1. /\ fetch' = [fetch EXCEPT ![f] = "asking"]
        /\ since' = [since EXCEPT ![f] = clock]
        /\ list' = [list EXCEPT ![f] = NoList]
        /\ UNCHANGED <<clock, cachedVersions, lastFetchTime>>
    BY <1>2 DEF GetVersions
  <2>2. TypesOK'
    BY <2>1 DEF TypesOK
  <2>3. RequestsAreShort'
    BY <2>1 DEF TypesOK, RequestsAreShort, Official
  <2>4. StoredInTime' /\ ServedIsRecent'
    BY <2>1 DEF TypesOK, StoredInTime, ServedIsRecent, Official
  <2> QED
    BY <2>2, <2>3, <2>4
<1> QED
  BY <1>1, <1>2

LEMMA FetchKeeps ==
  ASSUME VersionInv, NEW f \in Fetchers, FetchOfficialVersions(f)
  PROVE  VersionInv'
<1> USE TimesAreNats DEF VersionInv
<1>1. PICK l \in since[f] .. clock \cup {Bundled} : list' = [list EXCEPT ![f] = l]
  BY DEF FetchOfficialVersions
<1>2. /\ fetch[f] = "asking"
      /\ fetch' = [fetch EXCEPT ![f] = "storing"]
      /\ UNCHANGED <<clock, cachedVersions, lastFetchTime, since>>
  BY DEF FetchOfficialVersions
<1>3. l \in Nat \cup {NoList, Bundled} /\ (Official(l) => l >= since[f])
  BY <1>1 DEF TypesOK, Official
<1>4. TypesOK'
  BY <1>1, <1>2, <1>3 DEF TypesOK
<1>5. RequestsAreShort'
  BY <1>1, <1>2, <1>3 DEF TypesOK, RequestsAreShort, Official
<1>6. StoredInTime' /\ ServedIsRecent'
  BY <1>1, <1>2 DEF TypesOK, StoredInTime, ServedIsRecent, Official
<1> QED
  BY <1>4, <1>5, <1>6

LEMMA StoreKeeps ==
  ASSUME VersionInv, NEW f \in Fetchers, Store(f)
  PROVE  VersionInv'
<1> USE TimesAreNats DEF VersionInv
<1>1. /\ fetch[f] = "storing"
      /\ cachedVersions' = list[f]
      /\ lastFetchTime' = clock
      /\ fetch' = [fetch EXCEPT ![f] = "idle"]
      /\ UNCHANGED <<clock, since, list>>
  BY DEF Store
<1>2. TypesOK'
  BY <1>1 DEF TypesOK
<1>3. RequestsAreShort'
  BY <1>1 DEF TypesOK, RequestsAreShort, Official
<1>4. Official(list[f]) => clock - list[f] <= FetchTimeout
  BY <1>1 DEF TypesOK, RequestsAreShort, Official
<1>5. StoredInTime' /\ ServedIsRecent'
  BY <1>1, <1>4 DEF TypesOK, StoredInTime, ServedIsRecent, Official
<1> QED
  BY <1>2, <1>3, <1>5

LEMMA PassTimeKeeps == VersionInv /\ PassTime => VersionInv'
<1> SUFFICES ASSUME VersionInv, PassTime PROVE VersionInv'
  OBVIOUS
<1> USE TimesAreNats DEF VersionInv
<1>1. TypesOK'
  BY DEF TypesOK, PassTime
<1>2. RequestsAreShort'
  BY DEF TypesOK, RequestsAreShort, Official, PassTime
<1>3. StoredInTime' /\ ServedIsRecent'
  BY DEF TypesOK, StoredInTime, ServedIsRecent, Official, PassTime
<1> QED
  BY <1>1, <1>2, <1>3

(* Whatever refreshes overlap, fail or come late, an official list that is  *)
(* handed out was on nginx.org less than CacheTime + FetchTimeout ago       *)
(* (version.go:45-73, 118-125).                                             *)
THEOREM VersionsAreRecent == VersionSpec => []ServedIsRecent
<1>1. VersionInv /\ [VersionNext]_versionVars => VersionInv'
  <2> SUFFICES ASSUME VersionInv, [VersionNext]_versionVars PROVE VersionInv'
    OBVIOUS
  <2>1. CASE PassTime
    BY <2>1, PassTimeKeeps
  <2>2. CASE \E f \in Fetchers : GetVersions(f) \/ FetchOfficialVersions(f) \/ Store(f)
    BY <2>2, GetVersionsKeeps, FetchKeeps, StoreKeeps
  <2>3. CASE UNCHANGED versionVars
    BY <2>3 DEF versionVars, VersionInv, TypesOK, RequestsAreShort, StoredInTime,
                ServedIsRecent, Official
  <2> QED
    BY <2>1, <2>2, <2>3 DEF VersionNext
<1>2. VersionInv => ServedIsRecent
  BY DEF VersionInv
<1> QED
  BY VersionInvStarts, <1>1, <1>2, PTL DEF VersionSpec
=============================================================================
