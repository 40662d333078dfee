--------------------------- MODULE MCBuildRequest ---------------------------
EXTENDS BuildRequest

(* Options that take part in conflicts, dependencies and special rules.     *)
Hot == {"http_ssl", "http_v3", "http_gunzip", "stream", "stream_ssl", "mail",
        "without_http", "without_http_gzip", "without_http_rewrite",
        "without_pcre", "pcre_jit"}

Selections ==
    SUBSET Hot \cup {ParameterPresets[p] : p \in DOMAIN ParameterPresets}
               \cup {{a, b} : a \in OptionIds, b \in OptionIds} \cup {{"unknown"}}

System == [lib \in Libraries |-> NoSource]
Sources ==
    {System, [System EXCEPT !.openssl = "latest"], [System EXCEPT !.pcre = "10.42"]}

(* The page with and without an old release, after a new stable one and     *)
(* without any, and the bundled list.                                       *)
Known == {"1.30.5", "1.31.6", "1.28.3"}
SomeLists ==
    { [listed |-> Known, default |-> "1.30.5"],
      [listed |-> Known \cup {"0.8.55"}, default |-> "1.30.5"],
      [listed |-> Known \cup {"1.32.0"}, default |-> "1.32.0"],
      [listed |-> {"1.31.6", "0.8.55"}, default |-> NoVersion] }
SomeReleases == Known \cup {"1.32.0", "1.99.0"}

Of(selections, paths, sources, opts, versions, targets) ==
    [options : selections, paths : paths, source : sources, opts : opts,
     version : versions, target : targets]

SomeRequests ==
    Of(Selections, {{}}, Sources, {{}}, {"1.28.3"}, {Host})
    \cup Of({{"without_http", "mail"}, {"http_v3"}},
            {{"prefix", "user", "http-log-path"}, {"unknown"}},
            {System, [System EXCEPT !.openssl = "1.1.1w", !.pcre = "custom", !.zlib = ""],
             [System EXCEPT !.zlib = "0.9"]},
            {{}, {"openssl", "zlib"}, {"unknown"}}, {"1.30.5"}, {Host})
    \cup Of({{"http_v3"}, {"http_ssl", "without_http", "mail"}, {"unknown"}}, {{}}, {System}, {{}},
            {"", "stable", "latest", "1.32.0", "1.99.0", "0.8.55", "0.5.0"}, {Host, "other"})
=============================================================================
