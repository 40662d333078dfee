-------------------------- MODULE ConfigureOptions --------------------------
(***************************************************************************)
(* The configure options nginx can be built with and the algorithm that    *)
(* turns a request into configure arguments (nginx/options.go,             *)
(* ValidateAndBuildArgs).                                                  *)
(*                                                                         *)
(* An option is its ID.  A flag, a name and a warning are abstracted to    *)
(* what they are about.  A value that does not pass the checks of strings  *)
(* is an ID, a path key, a library or a version that is in no table.       *)
(***************************************************************************)
EXTENDS Integers, Sequences, Functions

(* One entry of the catalog: its ID, what it depends on and, in order, what *)
(* it conflicts with.                                                       *)
Opt(id, deps, conflicts) == [id |-> id, deps |-> deps, conflicts |-> conflicts]

HttpOpt(id) == Opt(id, {}, <<"without_http">>)

TlsOptions ==
    << HttpOpt("http_ssl"), HttpOpt("http_v2"),
       Opt("http_v3", {"http_ssl"}, <<"without_http">>),
       Opt("stream_ssl", {"stream"}, <<>>),
       Opt("stream_ssl_preread", {"stream"}, <<>>),
       Opt("mail_ssl", {"mail"}, <<>>) >>

HttpFilterOptions ==
    << HttpOpt("http_realip"), HttpOpt("http_addition"), HttpOpt("http_sub"),
       HttpOpt("http_dav"), HttpOpt("http_flv"), HttpOpt("http_mp4"),
       Opt("http_gunzip", {}, <<"without_http", "without_http_gzip">>),
       HttpOpt("http_gzip_static") >>

HttpAccessOptions ==
    << HttpOpt("http_auth_request"), HttpOpt("http_random_index"),
       HttpOpt("http_secure_link"), HttpOpt("http_degradation"),
       HttpOpt("http_slice"), HttpOpt("http_stub_status"), HttpOpt("http_xslt"),
       HttpOpt("http_image_filter"), HttpOpt("http_geoip") >>

ProxyOptions ==
    << Opt("stream", {}, <<>>),
       Opt("stream_realip", {"stream"}, <<>>),
       Opt("stream_geoip", {"stream"}, <<>>),
       Opt("mail", {}, <<>>) >>

SystemOptions ==
    << Opt("threads", {}, <<>>), Opt("file_aio", {}, <<>>),
       Opt("pcre_jit", {}, <<"without_pcre">>),
       Opt("compat", {}, <<>>), Opt("debug", {}, <<>>), Opt("cpp_test", {}, <<>>),
       Opt("select_module", {}, <<"without_select_module">>),
       Opt("without_select_module", {}, <<"select_module">>),
       Opt("poll_module", {}, <<"without_poll_module">>),
       Opt("without_poll_module", {}, <<"poll_module">>) >>

DisablingOptions ==
    << Opt("without_http", {},
         << "http_ssl", "http_v2", "http_v3", "http_realip", "http_addition", "http_sub",
            "http_dav", "http_flv", "http_mp4", "http_gunzip", "http_gzip_static",
            "http_auth_request", "http_random_index", "http_secure_link",
            "http_degradation", "http_slice", "http_stub_status", "http_xslt",
            "http_image_filter", "http_geoip", "without_http_gzip",
            "without_http_rewrite", "without_http_proxy", "without_http_fastcgi",
            "without_http_uwsgi", "without_http_scgi", "without_http_grpc",
            "without_http_cache" >>),
       HttpOpt("without_http_cache"),
       Opt("without_pcre", {}, <<"pcre_jit">>),
       HttpOpt("without_http_gzip"), HttpOpt("without_http_rewrite"),
       HttpOpt("without_http_proxy"), HttpOpt("without_http_fastcgi"),
       HttpOpt("without_http_uwsgi"), HttpOpt("without_http_scgi"),
       HttpOpt("without_http_grpc") >>

OfficialOptions ==
    TlsOptions \o HttpFilterOptions \o HttpAccessOptions \o ProxyOptions
        \o SystemOptions \o DisablingOptions

Catalog == Range(OfficialOptions)

Ids(options) == {o.id : o \in Range(options)}
OptionIds == Ids(OfficialOptions)

(* The options whose ID starts with "without_http_", and with "without_".   *)
HttpParts == Ids(DisablingOptions) \ {"without_http", "without_pcre"}
Disabling == Ids(DisablingOptions) \cup {"without_select_module", "without_poll_module"}

(* The keys of AllowedPathOptions.                                          *)
PathKeys == { "prefix", "conf-path", "error-log-path", "group", "http-log-path",
              "lock-path", "pid-path", "sbin-path", "user" }

(* The libraries that are built from source and their known versions.       *)
DefaultDepLibraries ==
    [openssl |-> {"3.4.1", "3.0.16", "1.1.1w"}, pcre |-> {"10.45", "10.42"}, zlib |-> {"1.3.1"}]

Libraries == DOMAIN DefaultDepLibraries

NoSource == "none"      \* the library of the system is used

(* A version is known, the default, or that of a source with a URL.         *)
ResolveDepSource(lib, version) ==
    version \in DefaultDepLibraries[lib] \cup {"", "latest", "default", "custom"}

(***************************************************************************)
(* A request: the options and path overrides of the user, the version of   *)
(* each library and the libraries that have compiler options, as           *)
(* [options, paths, source, opts].                                         *)
(***************************************************************************)
Wants(req, lib) == req.source[lib] # NoSource

(* The checks that come first: any of them fails the request.               *)
WellFormed(req) ==
    /\ req.options \subseteq OptionIds
    /\ req.paths \subseteq PathKeys
    /\ req.opts \subseteq Libraries
    /\ \A lib \in Libraries : Wants(req, lib) => ResolveDepSource(lib, req.source[lib])

(***************************************************************************)
(* The stages work on the options selected so far, the warnings and the    *)
(* conflicts, all of them sets.                                            *)
(***************************************************************************)
Start(req) == [selected |-> req.options, warnings |-> {}, conflicts |-> {}]

Select(s, id, why) ==
    [s EXCEPT !.selected = @ \cup {id}, !.warnings = @ \cup {<<why, id>>}]

Drop(s, id, why) ==
    [s EXCEPT !.selected = @ \ {id}, !.warnings = @ \cup {<<why, id>>}]

Report(s, conflict) == [s EXCEPT !.conflicts = @ \cup {conflict}]

NeedsEngine(s) ==
    "without_http" \in s.selected /\ {"stream", "mail"} \cap s.selected = {}

\* Fault: without resolution the missing engine is not reported.
EnsureEngineUnasked(s, auto) == IF NeedsEngine(s) /\ auto THEN Select(s, "stream", "engine") ELSE s

(* Without http, stream and mail nothing is served.                         *)
EnsureEngine(s, auto) ==
    IF ~NeedsEngine(s) THEN s
    ELSE IF auto THEN Select(s, "stream", "engine")
                 ELSE Report(s, {"without_http"})

(* An OpenSSL that is built is used by one of the servers.                  *)
TlsModule(s) ==
    IF "without_http" \in s.selected /\ "stream" \in s.selected THEN "stream_ssl"
    ELSE IF "without_http" \in s.selected /\ "mail" \in s.selected THEN "mail_ssl"
    ELSE "http_ssl"

EnableTls(s, req) ==
    IF Wants(req, "openssl") /\ {"http_ssl", "stream_ssl", "mail_ssl"} \cap s.selected = {}
    THEN Select(s, TlsModule(s), "tls")
    ELSE s

(* OpenSSL 1.1.1w has no QUIC: a hint, its version is not changed.          *)
HintQuic(s, req) ==
    IF req.source["openssl"] = "1.1.1w" /\ "http_v3" \in s.selected
    THEN [s EXCEPT !.warnings = @ \cup {<<"quic", "http_v3">>}]
    ELSE s

KeepPcreSource(s, req, auto) ==
    IF ~(Wants(req, "pcre") /\ "without_pcre" \in s.selected) THEN s
    ELSE IF auto THEN Drop(s, "without_pcre", "source")
                 ELSE Report(s, {"without_pcre"})

(* nginx mandates that the rewrite module goes with PCRE.                   *)
DisableRewrite(s) ==
    IF /\ "without_pcre" \in s.selected
       /\ {"without_http", "without_http_rewrite"} \cap s.selected = {}
    THEN Select(s, "without_http_rewrite", "mandated")
    ELSE s

(* Parts of http are not disabled one by one when all of it is; a warning   *)
(* is given for those the user asked for.                                   *)
DropRedundant(s, req) ==
    IF "without_http" \notin s.selected THEN s
    ELSE [s EXCEPT !.selected = @ \ HttpParts,
                   !.warnings = @ \cup {<<"redundant", id>> :
                                    id \in HttpParts \cap s.selected \cap req.options}]

(* What selected options depend on.  One pass over the catalog is enough:   *)
(* nothing depends on an option that depends on another (lemma              *)
(* DependenciesAreRoots).                                                   *)
Dependencies(selected) == UNION {o.deps : o \in {p \in Catalog : p.id \in selected}}

AddDependencies(s) ==
    LET missing == Dependencies(s.selected) \ s.selected
    IN  [s EXCEPT !.selected = @ \cup missing,
                  !.warnings = @ \cup {<<"dependency", id>> : id \in missing}]

(* Which of two options that exclude each other goes: the one the user did  *)
(* not ask for; else a part of http for all of it, a disabling one for a    *)
(* feature, or the one that was found as the other's conflict.              *)
Yields(id, other) ==
    \/ other = "without_http" /\ id \in HttpParts
    \/ id \in Disabling /\ other \notin Disabling

Loser(id, other, explicit) ==
    IF id \in explicit <=> other \in explicit
    THEN IF Yields(id, other) THEN id ELSE other
    ELSE IF id \in explicit THEN other ELSE id

(* One conflict of an option that was selected when its turn came; a pair   *)
(* is looked at once.  The option itself may be gone by then, but nothing   *)
(* comes back: only what was selected at the start is looked at.            *)
ResolvePair(s, id, other, explicit, auto) ==
    IF other \notin s.selected \/ {id, other} \in s.seen THEN s
    ELSE LET t == [s EXCEPT !.seen = @ \cup {{id, other}}]
         IN  IF auto THEN Drop(t, Loser(id, other, explicit), "conflict")
                     ELSE Report(t, {id, other})

(* The states of an option's turn: after[k] is the one after k conflicts.   *)
Turn(s, o, explicit, auto) ==
    LET after[k \in 0 .. Len(o.conflicts)] ==
            IF k = 0 THEN s
            ELSE ResolvePair(after[k - 1], o.id, o.conflicts[k], explicit, auto)
    IN  after

ResolveOption(s, o, explicit, auto) ==
    IF o.id \notin s.selected THEN s
    ELSE Turn(s, o, explicit, auto)[Len(o.conflicts)]

Unresolved(s) ==
    [selected |-> s.selected, warnings |-> s.warnings, conflicts |-> s.conflicts, seen |-> {}]

(* The states of the loop over the catalog: after[n] follows n turns.       *)
Turns(s, req, auto) ==
    LET after[n \in 0 .. Len(OfficialOptions)] ==
            IF n = 0 THEN Unresolved(s)
            ELSE ResolveOption(after[n - 1], OfficialOptions[n], req.options, auto)
    IN  after

ResolveConflicts(s, req, auto) == Turns(s, req, auto)[Len(OfficialOptions)]

(* The silent passes after it, until nothing is missing.                    *)
Closure(selected) == selected \cup Dependencies(selected)

\* Fault: dependencies are added before conflicts are resolved and not again.
RestoreNothing(selected) == selected

RestoreClosure(selected) ==
    LET closed == Closure(selected)
    IN  IF "without_pcre" \in closed /\ "without_http" \notin closed
        THEN closed \cup {"without_http_rewrite"}
        ELSE closed

ConflictFree(selected) ==
    \A o \in Catalog :
        o.id \in selected => Range(o.conflicts) \cap selected = {}

(* The arguments.  They come in the order of the tables, so their set says  *)
(* it all.  A library is its name: the directory of its source is known to  *)
(* the executor only.                                                       *)
CompilerOptions == [openssl |-> "openssl-opt", pcre |-> "pcre-opt", zlib |-> "zlib-opt"]

GivenSources(req, selected) ==
    {lib \in Libraries : Wants(req, lib) /\ ~(lib = "pcre" /\ "without_pcre" \in selected)}

BuildArgs(req, selected) ==
    {"prefix"}
    \cup {key \in PathKeys \cap req.paths :
            ~("without_http" \in selected /\ key = "http-log-path")}
    \cup (OptionIds \cap selected)
    \cup GivenSources(req, selected)
    \cup {CompilerOptions[lib] : lib \in GivenSources(req, selected) \cap req.opts}

Failed == [ok |-> FALSE, args |-> {}, warnings |-> {}, conflicts |-> {}]

(* ValidateAndBuildArgs: the request as completed, without its conflicts,   *)
(* and the answer.                                                          *)
Completed(req, auto) ==
    LET s1 == EnsureEngine(Start(req), auto)
        s2 == KeepPcreSource(HintQuic(EnableTls(s1, req), req), req, auto)
    IN  AddDependencies(DropRedundant(DisableRewrite(s2), req))

Adjusted(req, auto) == ResolveConflicts(Completed(req, auto), req, auto)

ValidateAndBuildArgs(req, auto) ==
    LET s == Adjusted(req, auto)
        selected == IF auto THEN RestoreClosure(s.selected) ELSE s.selected
    IN  IF ~WellFormed(req) \/ (auto /\ ~ConflictFree(selected)) THEN Failed
        ELSE [ok |-> TRUE, args |-> BuildArgs(req, selected),
              warnings |-> s.warnings, conflicts |-> s.conflicts]

(***************************************************************************)
(* ParameterPresets (nginx/presets.go): selections the page offers.        *)
(***************************************************************************)
ParameterPresets ==
    [ modern_web |->
        {"http_ssl", "http_v2", "stream", "stream_ssl", "http_realip",
         "http_gzip_static", "http_stub_status", "pcre_jit", "threads"},
      full_featured |->
        {"http_ssl", "http_v2", "http_v3", "stream", "stream_ssl", "stream_ssl_preread",
         "stream_realip", "http_realip", "http_addition", "http_sub", "http_gunzip",
         "http_gzip_static", "http_auth_request", "http_secure_link", "http_slice",
         "http_stub_status", "threads", "file_aio", "pcre_jit", "compat"},
      minimal |->
        {"without_http_fastcgi", "without_http_uwsgi", "without_http_scgi",
         "without_http_grpc", "pcre_jit"},
      media_streaming |->
        {"http_ssl", "http_v2", "http_flv", "http_mp4", "http_slice", "http_secure_link",
         "http_realip", "threads", "file_aio", "pcre_jit"},
      l4_gateway |->
        {"stream", "stream_ssl", "stream_ssl_preread", "stream_realip", "threads",
         "pcre_jit", "http_ssl", "http_stub_status"},
      security_hardened |->
        {"http_ssl", "http_v2", "http_v3", "http_realip", "http_auth_request",
         "http_secure_link", "http_stub_status", "pcre_jit"},
      dynamic_compat |->
        {"compat", "http_ssl", "http_v2", "stream", "stream_ssl", "http_realip",
         "threads", "file_aio", "pcre_jit"} ]
=============================================================================
