---------------------------- MODULE BuildRequest ----------------------------
(***************************************************************************)
(* What becomes of a request: the preview (handler.go, handlePreview), the *)
(* admission (manager.go, CreateJob) and the worker that prepares the      *)
(* libraries, configures, verifies and tests the binary (executor.go,      *)
(* ExecuteBuild).  Each of them validates the same request again: without  *)
(* resolution, as the user chose, and with resolution.                     *)
(*                                                                         *)
(* The page decides on resolution by the last preview that was answered,   *)
(* which may be of an earlier selection: both choices are possible.        *)
(***************************************************************************)
EXTENDS ConfigureOptions

CONSTANTS
    Requests,   \* what users send
    Host,       \* the platform of the service, which a request without target means
    Lists,      \* the version lists a look-up may meet: [listed, default]
    Releases,   \* the versions of the form 1.N.N
    NoVersion   \* no version: not known yet, or a list without a stable entry

(* Names of the default version. *)
Symbolic == {"", "stable", "latest"}

(* What a list names are versions, which are no names of the default.       *)
ASSUME RequestAssumption ==
    /\ Releases \cap (Symbolic \cup {NoVersion}) = {}
    /\ NoVersion \notin Symbolic
    /\ \A list \in Lists :
          /\ list.listed \cap (Symbolic \cup {NoVersion}) = {}
          /\ list.default \in list.listed \cup {NoVersion}

VARIABLES
    request,    \* the request
    shown,      \* the answer of the preview, Failed before it
    offered,    \* the version the preview showed
    auto,       \* auto_resolve_conflicts, as submitted
    stage,      \* where the request is
    version,    \* NginxVersion of the job
    fetched,    \* the version whose source the worker extracted
    prepared,   \* libraries whose source was looked up, fetched and extracted
    job         \* configure arguments and warnings of the job

vars == <<request, shown, offered, auto, stage, version, fetched, prepared, job>>

(* "rejected" for what was asked, "refused" for the state of the service;   *)
(* "misconfigured" by a decision of the worker, "failed" by anything else.  *)
Stages == {"edited", "rejected", "refused", "queued", "fetching", "failed",
           "misconfigured", "configured", "tested"}

Init ==
    /\ request \in Requests
    /\ shown = Failed
    /\ auto \in BOOLEAN
    /\ stage = "edited"
    /\ offered = NoVersion /\ version = NoVersion /\ fetched = NoVersion
    /\ prepared = {}
    /\ job = Failed

Goto(s) == stage' = s

(* GetVersionContext: the default of the list, an entry of it, or a release *)
(* that is not listed.  The list may be another one at every look-up.       *)
GetVersion(list, v) ==
    IF v \in Symbolic /\ list.default # NoVersion THEN list.default
    ELSE IF v \in list.listed \cup Releases THEN v
    ELSE NoVersion

(* handlePreview collects the conflicts.  An unknown version or an invalid  *)
(* request shows nothing.                                                   *)
Preview ==
    /\ stage = "edited"
    /\ shown = Failed
    /\ \E list \in Lists : offered' = GetVersion(list, request.version)
    /\ offered' # NoVersion
    /\ shown' = ValidateAndBuildArgs(request, FALSE)
    /\ shown' # Failed
    /\ UNCHANGED <<request, auto, stage, version, fetched, prepared, job>>

(* CreateJob up to the queue: requests for other platforms, invalid ones,   *)
(* those with conflicts that were not to be resolved and those of unknown   *)
(* versions are rejected; a service that shuts down, is full or cannot      *)
(* write refuses any other.                                                 *)
Accepts(answer) == answer.ok /\ answer.conflicts = {}

Reject == Goto("rejected") /\ UNCHANGED <<version, job>>

Refuse == Goto("refused") /\ UNCHANGED <<version, job>>

Enqueue(answer, v) == Goto("queued") /\ version' = v /\ job' = answer

CreateJob ==
    /\ stage = "edited"
    /\ LET answer == ValidateAndBuildArgs(request, auto)
       IN  IF request.target # Host \/ ~Accepts(answer) THEN Reject
           ELSE \/ Refuse
                \/ \E list \in Lists :
                      LET v == GetVersion(list, request.version)
                      IN  IF v = NoVersion THEN Reject ELSE Enqueue(answer, v)
    /\ UNCHANGED <<request, shown, offered, auto, fetched, prepared>>

(* DownloadAndVerifySourceContext takes releases only, listed or not.       *)
Downloadable(v) == v \in Releases

(* The worker looks its version up again, then the source is fetched and    *)
(* extracted, or that fails.                                                *)
FetchSource ==
    /\ stage = "queued"
    /\ \/ Goto("failed") /\ UNCHANGED fetched
       \/ \E list \in Lists :
             LET v == GetVersion(list, version)
             IN  IF Downloadable(v) THEN Goto("fetching") /\ fetched' = v
                                    ELSE Goto("misconfigured") /\ UNCHANGED fetched
    /\ UNCHANGED <<request, shown, offered, auto, version, prepared, job>>

(* The next library that is built from source is looked up again.           *)
ToPrepare == {lib \in Libraries : Wants(request, lib)} \ prepared

NextLibrary ==
    CHOOSE lib \in ToPrepare :
        \/ lib = "openssl"
        \/ lib = "pcre" /\ "openssl" \notin ToPrepare
        \/ lib = "zlib" /\ ToPrepare = {"zlib"}

PrepareDep ==
    /\ stage = "fetching"
    /\ ToPrepare # {}
    /\ IF ResolveDepSource(NextLibrary, request.source[NextLibrary])
       THEN \/ prepared' = prepared \cup {NextLibrary} /\ UNCHANGED stage
            \/ UNCHANGED prepared /\ Goto("failed")
       ELSE UNCHANGED prepared /\ Goto("misconfigured")
    /\ UNCHANGED <<request, shown, offered, auto, version, fetched, job>>

(* The worker resolves conflicts whatever was asked for.                    *)
Configure ==
    /\ stage = "fetching"
    /\ ToPrepare = {}
    /\ LET answer == ValidateAndBuildArgs(request, TRUE)
       IN  IF answer.ok THEN Goto("configured") /\ job' = answer
                        ELSE Goto("misconfigured") /\ UNCHANGED job
    /\ UNCHANGED <<request, shown, offered, auto, version, fetched, prepared>>

-----------------------------------------------------------------------------
(* The configuration of the smoke test (generateSmokeTestConfig): what its  *)
(* blocks and directives need of the binary.                                *)

Has(id) == id \in job.args

TempPathModules == {"proxy", "fastcgi", "uwsgi", "scgi"}

Disables(module) == CASE module = "proxy" -> "without_http_proxy"
                      [] module = "fastcgi" -> "without_http_fastcgi"
                      [] module = "uwsgi" -> "without_http_uwsgi"
                      [] module = "scgi" -> "without_http_scgi"

SmokeTestConfig ==
    {b \in {"http"} : ~Has("without_http")}
    \cup {m \in TempPathModules : ~Has("without_http") /\ ~Has(Disables(m))}
    \cup {b \in {"stream"} : Has("stream") /\ Has("without_http")}

(* What a binary understands that was built with these arguments.           *)
Understands ==
    {b \in {"http"} : ~Has("without_http")}
    \cup {m \in TempPathModules : ~Has("without_http") /\ ~Has(Disables(m))}
    \cup {b \in {"stream"} : Has("stream")}

(* make, nginx -V, the archive and the smoke test; any but the last may fail *)
(* for reasons of the machine.                                               *)
BuildAndTest ==
    /\ stage = "configured"
    /\ \/ Goto("failed")
       \/ IF SmokeTestConfig \subseteq Understands THEN Goto("tested") ELSE Goto("misconfigured")
    /\ UNCHANGED <<request, shown, offered, auto, version, fetched, prepared, job>>

Done == stage \in {"rejected", "refused", "failed", "misconfigured", "tested"} /\ UNCHANGED vars

Next == Preview \/ CreateJob \/ FetchSource \/ PrepareDep \/ Configure \/ BuildAndTest \/ Done

Spec == Init /\ [][Next]_vars

-----------------------------------------------------------------------------
(***************************************************************************)
(* Properties.                                                             *)
(***************************************************************************)

(* Preview, admission and worker validate the same request three times, two *)
(* of them with the resolution the user may or may not have asked for, and   *)
(* each looks its version up in the list of its time.  What the preview      *)
(* showed without conflicts is accepted either way and built, but for        *)
(* another platform (manager.go:118) or a version that is no release         *)
(* (version.go:204); it is what configure is called with, of the version     *)
(* that was shown if the request named one (handler.go:120, manager.go:121,  *)
(* executor.go:76, 187).                                                     *)
PreviewIsBuilt ==
    Accepts(shown) =>
        /\ stage = "rejected" => request.target # Host \/ request.version \notin Releases
        /\ stage = "misconfigured" => version \notin Releases
        /\ job.ok => job.args = shown.args
        /\ request.version \notin Symbolic => {version, fetched} \subseteq {NoVersion, offered}

(* The options of the arguments exclude no other, and what they depend on   *)
(* is among them.                                                           *)
ArgsAreConsistent(args) ==
    /\ ConflictFree(args)
    /\ \A o \in Catalog : o.id \in args => o.deps \subseteq args

(* What nginx's configure and a useful binary need beyond the tables.       *)
ArgsAreUsable(args) ==
    /\ "without_http" \in args => {"stream", "mail"} \cap args # {}
    /\ "without_pcre" \in args => /\ {"without_http", "without_http_rewrite"} \cap args # {}
                                  /\ "pcre" \notin args
    /\ "openssl" \in args => {"http_ssl", "stream_ssl", "mail_ssl"} \cap args # {}

(* An accepted request of a release never fails for what the service made  *)
(* of it: the version and the libraries are still known, whatever list the   *)
(* worker meets, nothing is irreconcilable when it validates again, and the  *)
(* smoke test uses what was built.  The version is that of the job, the      *)
(* arguments are consistent and usable, and no feature the user asked for is *)
(* given up.  With resolution no request of known options (options.go:577)   *)
(* for a release and this platform is rejected.                              *)
BuildableArgs ==
    /\ stage = "misconfigured" => version \notin Releases
    /\ stage = "rejected" /\ auto =>
          ~WellFormed(request) \/ request.target # Host \/ request.version \notin Releases
    /\ stage \in {"configured", "tested"} =>
         /\ fetched = version
         /\ ArgsAreConsistent(job.args)
         /\ ArgsAreUsable(job.args)
         /\ request.options \ Disabling \subseteq job.args

(* A comment says of the flags that disable parts of http (options.go:683): *)
(* "If without_http is enabled, sub-http disable flags (like                *)
(* without_http_rewrite) are redundant"; the user is told they were ignored *)
(* because all of http is disabled (690).  Then it should be.               *)
RedundantMeansDisabled ==
    stage = "configured" =>
        \A id \in HttpParts :
            <<"redundant", id>> \in job.warnings => "without_http" \in job.args
=============================================================================
