------------------------- MODULE BuildRequestProofs -------------------------
(***************************************************************************)
(* Proofs about ConfigureOptions and BuildRequest, for every request: what *)
(* its catalog guarantees, what each stage of ValidateAndBuildArgs keeps,  *)
(* what the loop over the conflicts ends with, and from these that the     *)
(* three validations of a request agree and what is built is usable.       *)
(***************************************************************************)
EXTENDS BuildRequest, SequenceTheorems, WellFoundedInduction, TLAPS

-----------------------------------------------------------------------------
(* Induction over the steps of a loop, over a set instead of a predicate.   *)

LEMMA LeastExists ==
    ASSUME NEW S \in SUBSET Nat, S # {}
    PROVE  \E m \in S : \A k \in S : m <= k
<1>1. PICK m \in S : \A k \in S : ~(<<k, m>> \in OpToRel(<, Nat))
  BY NatLessThanWellFounded, WFMin
<1>2. \A k \in S : ~(k < m)
  BY <1>1 DEF OpToRel
<1>3. QED
  BY <1>2

LEMMA LoopInduction ==
    ASSUME NEW n \in Nat, NEW P, 0 \in P,
           \A k \in 1 .. n : k - 1 \in P => k \in P
    PROVE  \A k \in 0 .. n : k \in P
<1> DEFINE Q == {k \in 0 .. n : k \notin P}
<1>1. SUFFICES ASSUME Q # {} PROVE FALSE
  OBVIOUS
<1>2. PICK m \in Q : \A k \in Q : m <= k
  <2>1. Q \in SUBSET Nat
    OBVIOUS
  <2>2. QED
    BY <1>1, <2>1, LeastExists
<1>3. m \in 1 .. n /\ m - 1 \in 0 .. n
  OBVIOUS
<1>4. m - 1 \in P
  BY <1>2, <1>3
<1>5. QED
  BY <1>3, <1>4

(* The functions that the loops are written with exist, so they satisfy     *)
(* their equations.  A step of a loop has a name of its own so that what it *)
(* does to the state can be left out of sight.                              *)

AfterPair(t, o, k, explicit, mode) == ResolvePair(t, o.id, o.conflicts[k], explicit, mode)

AfterOption(t, n, req, mode) == ResolveOption(t, OfficialOptions[n], req.options, mode)

LEMMA TurnStates ==
    ASSUME NEW s, NEW o, NEW explicit, NEW mode, Len(o.conflicts) \in Nat
    PROVE  /\ Turn(s, o, explicit, mode)[0] = s
           /\ \A k \in 1 .. Len(o.conflicts) :
                 Turn(s, o, explicit, mode)[k] =
                    AfterPair(Turn(s, o, explicit, mode)[k - 1], o, k, explicit, mode)
<1> DEFINE Next1(t, k) == AfterPair(t, o, k, explicit, mode)
           Eq(f, m) == f = [k \in 0 .. m |-> IF k = 0 THEN s ELSE Next1(f[k - 1], k)]
           N == Len(o.conflicts)
           P == {m \in Nat : \E f : Eq(f, m)}
<1>1. Turn(s, o, explicit, mode) = CHOOSE f : Eq(f, N)
  BY DEF Turn, AfterPair
<1> HIDE DEF Next1
<1>2. 0 \in P
  <2>1. Eq([k \in 0 .. 0 |-> s], 0)
    OBVIOUS
  <2>2. QED
    BY <2>1
<1>3. ASSUME NEW m \in 1 .. N, m - 1 \in P PROVE m \in P
  <2>1. PICK f : Eq(f, m - 1)
    BY <1>3
  <2> DEFINE g == [k \in 0 .. m |-> IF k = m THEN Next1(f[m - 1], m) ELSE f[k]]
  <2>2. \A k \in 0 .. m : g[k] = IF k = 0 THEN s ELSE Next1(g[k - 1], k)
    <3>1. \A k \in 0 .. m - 1 : f[k] = IF k = 0 THEN s ELSE Next1(f[k - 1], k)
      BY <2>1
    <3>2. QED
      BY <3>1
  <2>3. Eq(g, m)
    <3> HIDE DEF g
    <3>1. g = [k \in 0 .. m |-> g[k]]
      BY DEF g
    <3> QED
      BY <2>2, <3>1
  <2>4. m \in Nat
    OBVIOUS
  <2> HIDE DEF g, Eq
  <2>5. QED
    BY <2>3, <2>4
<1>4. N \in P
  <2> HIDE DEF P
  <2>1. \A k \in 0 .. N : k \in P
    BY <1>2, <1>3, LoopInduction
  <2>2. QED
    BY <2>1
<1>5. Eq(CHOOSE f : Eq(f, N), N)
  <2>1. PICK f : Eq(f, N)
    BY <1>4
  <2> HIDE DEF Eq
  <2>2. QED
    BY <2>1
<1> DEFINE f == CHOOSE f : Eq(f, N)
<1>6. \A k \in 0 .. N : f[k] = IF k = 0 THEN s ELSE Next1(f[k - 1], k)
  <2> HIDE DEF f
  <2>1. f = [k \in 0 .. N |-> IF k = 0 THEN s ELSE Next1(f[k - 1], k)]
    BY <1>5 DEF f
  <2>2. QED
    BY <2>1
<1> HIDE DEF f
<1>7. QED
  BY <1>1, <1>6 DEF Next1, f

LEMMA TurnsStates ==
    ASSUME NEW s, NEW req, NEW mode, Len(OfficialOptions) \in Nat
    PROVE  /\ Turns(s, req, mode)[0] = Unresolved(s)
           /\ \A n \in 1 .. Len(OfficialOptions) :
                 Turns(s, req, mode)[n] = AfterOption(Turns(s, req, mode)[n - 1], n, req, mode)
<1> DEFINE First == Unresolved(s)
           Following(t, n) == AfterOption(t, n, req, mode)
           Eq(f, m) == f = [k \in 0 .. m |-> IF k = 0 THEN First ELSE Following(f[k - 1], k)]
           N == Len(OfficialOptions)
           P == {m \in Nat : \E f : Eq(f, m)}
<1>1. Turns(s, req, mode) = CHOOSE f : Eq(f, N)
  BY DEF Turns, AfterOption
<1> HIDE DEF Following, First
<1>2. 0 \in P
  <2>1. Eq([k \in 0 .. 0 |-> First], 0)
    OBVIOUS
  <2>2. QED
    BY <2>1
<1>3. ASSUME NEW m \in 1 .. N, m - 1 \in P PROVE m \in P
  <2>1. PICK f : Eq(f, m - 1)
    BY <1>3
  <2> DEFINE g == [k \in 0 .. m |-> IF k = m THEN Following(f[m - 1], m) ELSE f[k]]
  <2>2. \A k \in 0 .. m : g[k] = IF k = 0 THEN First ELSE Following(g[k - 1], k)
    <3>1. \A k \in 0 .. m - 1 : f[k] = IF k = 0 THEN First ELSE Following(f[k - 1], k)
      BY <2>1
    <3>2. QED
      BY <3>1
  <2>3. Eq(g, m)
    <3> HIDE DEF g
    <3>1. g = [k \in 0 .. m |-> g[k]]
      BY DEF g
    <3>2. QED
      BY <2>2, <3>1
  <2>4. m \in Nat
    OBVIOUS
  <2> HIDE DEF g, Eq
  <2>5. QED
    BY <2>3, <2>4
<1>4. N \in P
  <2> HIDE DEF P
  <2>1. \A k \in 0 .. N : k \in P
    BY <1>2, <1>3, LoopInduction
  <2>2. QED
    BY <2>1
<1>5. Eq(CHOOSE f : Eq(f, N), N)
  <2>1. PICK f : Eq(f, N)
    BY <1>4
  <2> HIDE DEF Eq
  <2>2. QED
    BY <2>1
<1> DEFINE f == CHOOSE f : Eq(f, N)
<1>6. \A k \in 0 .. N : f[k] = IF k = 0 THEN First ELSE Following(f[k - 1], k)
  <2> HIDE DEF f
  <2>1. f = [k \in 0 .. N |-> IF k = 0 THEN First ELSE Following(f[k - 1], k)]
    BY <1>5 DEF f
  <2>2. QED
    BY <2>1
<1> HIDE DEF f
<1>7. QED
  BY <1>1, <1>6 DEF Following, First, f

-----------------------------------------------------------------------------
(* The catalog. *)

(* What the algorithm relies on in the catalog.  Engines and their TLS      *)
(* modules are excluded by nothing, http_ssl and without_http_rewrite by    *)
(* without_http only; what others depend on depends on nothing; two         *)
(* features never exclude each other.                                       *)
Engines == {"stream", "mail"}
FreeOptions == Engines \cup {"stream_ssl", "mail_ssl"}

(* What the arguments contain beside options. *)
OtherNames ==
    PathKeys \cup {"openssl", "pcre", "zlib", "openssl-opt", "pcre-opt", "zlib-opt"}

WellPlaced(o) ==
    /\ o.conflicts \in Seq(Range(o.conflicts))
    /\ o.deps \subseteq Engines \cup {"http_ssl"}
    /\ o.id \in Engines \cup {"http_ssl", "without_http_rewrite"} => o.deps = {}
    /\ "http_ssl" \in o.deps => "without_http" \in Range(o.conflicts)
    /\ o.id \in FreeOptions => Range(o.conflicts) = {}
    /\ FreeOptions \cap Range(o.conflicts) = {}
    /\ o.id \in {"http_ssl", "without_http_rewrite"} => Range(o.conflicts) = {"without_http"}
    /\ {"http_ssl", "without_http_rewrite"} \cap Range(o.conflicts) # {} => o.id = "without_http"
    /\ o.id \in Disabling \/ Range(o.conflicts) \subseteq Disabling
    /\ OtherNames \cap ({o.id} \cup Range(o.conflicts)) = {}

LEMMA DisablingIs ==
    /\ Ids(DisablingOptions) =
         {"without_http", "without_http_cache", "without_pcre", "without_http_gzip",
          "without_http_rewrite", "without_http_proxy", "without_http_fastcgi",
          "without_http_uwsgi", "without_http_scgi", "without_http_grpc"}
    /\ Disabling =
         {"without_http", "without_http_cache", "without_pcre", "without_http_gzip",
          "without_http_rewrite", "without_http_proxy", "without_http_fastcgi",
          "without_http_uwsgi", "without_http_scgi", "without_http_grpc",
          "without_select_module", "without_poll_module"}
<1>1. Ids(DisablingOptions) =
         {"without_http", "without_http_cache", "without_pcre", "without_http_gzip",
          "without_http_rewrite", "without_http_proxy", "without_http_fastcgi",
          "without_http_uwsgi", "without_http_scgi", "without_http_grpc"}
  BY DEF DisablingOptions, Range, HttpOpt, Opt, Ids
<1>2. QED
  BY <1>1 DEF Disabling

LEMMA SmallRanges ==
    /\ Range(<<>>) = {}
    /\ \A x : Range(<<x>>) = {x}
    /\ \A x, y : Range(<<x, y>>) = {x, y}
BY DEF Range

(* The kinds of entries. *)

LEMMA PlainPlaced ==
    ASSUME NEW id, id \notin OtherNames \cup {"http_ssl", "without_http_rewrite"}
    PROVE  WellPlaced(Opt(id, {}, <<>>))
BY SmallRanges DEF WellPlaced, Opt, Engines, OtherNames, PathKeys

LEMMA DependentPlaced ==
    ASSUME NEW id, id \notin OtherNames \cup Engines \cup {"http_ssl", "without_http_rewrite"},
           NEW dep \in Engines
    PROVE  WellPlaced(Opt(id, {dep}, <<>>))
BY SmallRanges DEF WellPlaced, Opt, Engines, OtherNames, PathKeys

LEMMA HttpPlaced ==
    ASSUME NEW id, id \notin OtherNames \cup FreeOptions
    PROVE  WellPlaced(HttpOpt(id))
<1>1. <<"without_http">> \in Seq({"without_http"})
  OBVIOUS
<1>2. QED
  BY <1>1, SmallRanges, DisablingIs DEF WellPlaced, HttpOpt, Opt, FreeOptions, Engines, OtherNames, PathKeys

LEMMA ExcludingPlaced ==
    ASSUME NEW id, NEW other,
           {id, other} \cap (OtherNames \cup FreeOptions \cup {"http_ssl", "without_http_rewrite"}) = {},
           id \in Disabling \/ other \in Disabling
    PROVE  WellPlaced(Opt(id, {}, <<other>>))
<1>1. <<other>> \in Seq({other})
  OBVIOUS
<1>2. QED
  BY <1>1, SmallRanges DEF WellPlaced, Opt

LEMMA TlsPlaced == \A i \in DOMAIN TlsOptions : WellPlaced(TlsOptions[i])
<1>1. WellPlaced(HttpOpt("http_ssl")) /\ WellPlaced(HttpOpt("http_v2"))
  BY HttpPlaced DEF FreeOptions, Engines, OtherNames, PathKeys
<1>2. WellPlaced(Opt("http_v3", {"http_ssl"}, <<"without_http">>))
  <2>1. <<"without_http">> \in Seq({"without_http"})
    OBVIOUS
  <2>2. QED
    BY <2>1, SmallRanges, DisablingIs DEF WellPlaced, Opt, FreeOptions, Engines, OtherNames, PathKeys
<1>3. /\ WellPlaced(Opt("stream_ssl", {"stream"}, <<>>))
      /\ WellPlaced(Opt("stream_ssl_preread", {"stream"}, <<>>))
      /\ WellPlaced(Opt("mail_ssl", {"mail"}, <<>>))
  BY DependentPlaced DEF Engines, OtherNames, PathKeys
<1>4. \A i \in DOMAIN TlsOptions : WellPlaced(TlsOptions[i])
  BY <1>1, <1>2, <1>3 DEF TlsOptions
<1>5. QED
  BY <1>4

LEMMA HttpFilterPlaced ==
    \A i \in DOMAIN HttpFilterOptions : WellPlaced(HttpFilterOptions[i])
<1>1. WellPlaced(Opt("http_gunzip", {}, <<"without_http", "without_http_gzip">>))
  BY SmallRanges, DisablingIs DEF WellPlaced, Opt, FreeOptions, Engines, OtherNames, PathKeys
<1>2. \A id : id \notin OtherNames \cup FreeOptions => WellPlaced(HttpOpt(id))
  BY HttpPlaced
<1>3. QED
  BY <1>1, <1>2 DEF HttpFilterOptions, FreeOptions, Engines, OtherNames, PathKeys

LEMMA HttpAccessPlaced ==
    \A i \in DOMAIN HttpAccessOptions : WellPlaced(HttpAccessOptions[i])
<1>1. \A id : id \notin OtherNames \cup FreeOptions => WellPlaced(HttpOpt(id))
  BY HttpPlaced
<1>2. QED
  BY <1>1 DEF HttpAccessOptions, FreeOptions, Engines, OtherNames, PathKeys

LEMMA ProxyPlaced ==
    \A i \in DOMAIN ProxyOptions : WellPlaced(ProxyOptions[i])
<1>1. WellPlaced(Opt("stream", {}, <<>>)) /\ WellPlaced(Opt("mail", {}, <<>>))
  BY PlainPlaced DEF OtherNames, PathKeys
<1>2. /\ WellPlaced(Opt("stream_realip", {"stream"}, <<>>))
      /\ WellPlaced(Opt("stream_geoip", {"stream"}, <<>>))
  BY DependentPlaced DEF Engines, OtherNames, PathKeys
<1>3. QED
  BY <1>1, <1>2 DEF ProxyOptions

LEMMA SystemPlaced ==
    \A i \in DOMAIN SystemOptions : WellPlaced(SystemOptions[i])
<1>1. \A id \in {"threads", "file_aio", "compat", "debug", "cpp_test"} :
         WellPlaced(Opt(id, {}, <<>>))
  BY PlainPlaced DEF OtherNames, PathKeys
<1>2. /\ WellPlaced(Opt("pcre_jit", {}, <<"without_pcre">>))
      /\ WellPlaced(Opt("select_module", {}, <<"without_select_module">>))
      /\ WellPlaced(Opt("without_select_module", {}, <<"select_module">>))
      /\ WellPlaced(Opt("poll_module", {}, <<"without_poll_module">>))
      /\ WellPlaced(Opt("without_poll_module", {}, <<"poll_module">>))
  BY ExcludingPlaced, DisablingIs DEF FreeOptions, Engines, OtherNames, PathKeys
<1>3. QED
  BY <1>1, <1>2 DEF SystemOptions

LEMMA DisablingPlaced == \A i \in DOMAIN DisablingOptions : WellPlaced(DisablingOptions[i])
<1> DEFINE all == << "http_ssl", "http_v2", "http_v3", "http_realip", "http_addition", "http_sub",
            "http_dav", "http_flv", "http_mp4", "http_gunzip", "http_gzip_static",
            "http_auth_request", "http_random_index", "http_secure_link",
            "http_degradation", "http_slice", "http_stub_status", "http_xslt",
            "http_image_filter", "http_geoip", "without_http_gzip",
            "without_http_rewrite", "without_http_proxy", "without_http_fastcgi",
            "without_http_uwsgi", "without_http_scgi", "without_http_grpc",
            "without_http_cache" >>
<1>1. WellPlaced(Opt("without_http", {}, all))
  <2>1. all \in Seq(Range(all))
    <3>1. DOMAIN all = 1 .. 28 /\ all = [i \in DOMAIN all |-> all[i]]
      OBVIOUS
    <3> HIDE DEF all
    <3>2. \A i \in 1 .. 28 : all[i] \in Range(all)
      BY <3>1 DEF Range
    <3>3. [i \in 1 .. 28 |-> all[i]] \in Seq(Range(all))
      BY <3>2
    <3>4. QED
      BY <3>1, <3>3, Zenon
  <2>2. (FreeOptions \cup OtherNames) \cap Range(all) = {}
    BY DEF FreeOptions, Engines, OtherNames, PathKeys, Range
  <2> HIDE DEF all
  <2>3. QED
    BY <2>1, <2>2, SmallRanges, DisablingIs DEF WellPlaced, Opt, FreeOptions, Engines, OtherNames, PathKeys
<1>2. WellPlaced(Opt("without_pcre", {}, <<"pcre_jit">>))
  BY ExcludingPlaced, DisablingIs DEF FreeOptions, Engines, OtherNames, PathKeys
<1>3. \A id : id \notin OtherNames \cup FreeOptions => WellPlaced(HttpOpt(id))
  BY HttpPlaced
<1>4. \A i \in DOMAIN DisablingOptions : WellPlaced(DisablingOptions[i])
  BY <1>1, <1>2, <1>3 DEF DisablingOptions, FreeOptions, Engines, OtherNames, PathKeys
<1>5. QED
  BY <1>4

(* The whole catalog. *)

LEMMA GroupsWellPlaced ==
    ASSUME NEW group \in {TlsOptions, HttpFilterOptions, HttpAccessOptions, ProxyOptions,
                          SystemOptions, DisablingOptions}
    PROVE  group \in Seq({o \in Range(group) : WellPlaced(o)})
<1>1. \A i \in DOMAIN group : WellPlaced(group[i])
  BY TlsPlaced, HttpFilterPlaced, HttpAccessPlaced, ProxyPlaced, SystemPlaced, DisablingPlaced
<1>2. \A i \in DOMAIN group : group[i] \in {o \in Range(group) : WellPlaced(o)}
  BY <1>1 DEF Range
<1>3. group = [i \in 1 .. Len(group) |-> group[i]] /\ Len(group) \in Nat
  <2>1. CASE group = TlsOptions
    BY <2>1 DEF TlsOptions
  <2>2. CASE group = HttpFilterOptions
    BY <2>2 DEF HttpFilterOptions
  <2>3. CASE group = HttpAccessOptions
    BY <2>3 DEF HttpAccessOptions
  <2>4. CASE group = ProxyOptions
    BY <2>4 DEF ProxyOptions
  <2>5. CASE group = SystemOptions
    BY <2>5 DEF SystemOptions
  <2>6. CASE group = DisablingOptions
    BY <2>6 DEF DisablingOptions
  <2>7. QED
    BY <2>1, <2>2, <2>3, <2>4, <2>5, <2>6
<1>4. QED
  <2> DEFINE S == {o \in Range(group) : WellPlaced(o)}
  <2>1. \A i \in 1 .. Len(group) : group[i] \in S
    BY <1>2, <1>3
  <2> HIDE DEF S
  <2>2. [i \in 1 .. Len(group) |-> group[i]] \in Seq(S)
    BY <1>3, <2>1
  <2>3. QED
    BY <1>3, <2>2, Zenon DEF S

LEMMA ConcatRange ==
    ASSUME NEW S, NEW a \in Seq(S), NEW b \in Seq(S)
    PROVE  a \o b \in Seq(S) /\ Range(a \o b) = Range(a) \cup Range(b)
<1>1. /\ a \o b \in Seq(S)
      /\ DOMAIN (a \o b) = 1 .. Len(a) + Len(b)
      /\ Len(a) \in Nat /\ Len(b) \in Nat
      /\ DOMAIN a = 1 .. Len(a) /\ DOMAIN b = 1 .. Len(b)
  BY ConcatProperties, LenProperties
<1>2. \A i \in 1 .. Len(a) + Len(b) :
         (a \o b)[i] = IF i <= Len(a) THEN a[i] ELSE b[i - Len(a)]
  BY ConcatProperties
<1>3. ASSUME NEW x \in Range(a) PROVE x \in Range(a \o b)
  <2>1. PICK i \in 1 .. Len(a) : x = a[i]
    BY <1>1 DEF Range
  <2>2. i \in 1 .. Len(a) + Len(b) /\ (a \o b)[i] = x
    BY <1>1, <1>2, <2>1
  <2>3. QED
    BY <1>1, <2>2 DEF Range
<1>4. ASSUME NEW x \in Range(b) PROVE x \in Range(a \o b)
  <2>1. PICK i \in 1 .. Len(b) : x = b[i]
    BY <1>1 DEF Range
  <2>2. i + Len(a) \in 1 .. Len(a) + Len(b) /\ (a \o b)[i + Len(a)] = x
    BY <1>1, <1>2, <2>1
  <2>3. QED
    BY <1>1, <2>2 DEF Range
<1>5. ASSUME NEW x \in Range(a \o b) PROVE x \in Range(a) \cup Range(b)
  <2>1. PICK i \in 1 .. Len(a) + Len(b) : x = (a \o b)[i]
    BY <1>1 DEF Range
  <2>2. CASE i <= Len(a)
    BY <1>1, <1>2, <2>1, <2>2 DEF Range
  <2>3. CASE ~(i <= Len(a))
    <3>1. i - Len(a) \in 1 .. Len(b)
      BY <1>1, <2>1, <2>3
    <3>2. QED
      BY <1>1, <1>2, <2>1, <2>3, <3>1 DEF Range
  <2>4. QED
    BY <2>2, <2>3
<1>6. QED
  BY <1>1, <1>3, <1>4, <1>5

LEMMA CatalogWellPlaced ==
    /\ Len(OfficialOptions) \in Nat
    /\ DOMAIN OfficialOptions = 1 .. Len(OfficialOptions)
    /\ \A o \in Catalog : WellPlaced(o)
    /\ {"stream", "mail", "http_ssl", "stream_ssl", "mail_ssl", "without_http_rewrite"}
          \subseteq OptionIds
<1> DEFINE all == Range(TlsOptions) \cup Range(HttpFilterOptions) \cup Range(HttpAccessOptions)
                    \cup Range(ProxyOptions) \cup Range(SystemOptions)
                    \cup Range(DisablingOptions)
           S == {o \in all : WellPlaced(o)}
<1>1. ASSUME NEW group \in {TlsOptions, HttpFilterOptions, HttpAccessOptions, ProxyOptions,
                            SystemOptions, DisablingOptions}
      PROVE  group \in Seq(S)
  <2>1. group \in Seq({o \in Range(group) : WellPlaced(o)})
    BY GroupsWellPlaced
  <2>2. {o \in Range(group) : WellPlaced(o)} \subseteq S
    OBVIOUS
  <2> HIDE DEF S
  <2>3. QED
    BY <2>1, <2>2, SeqMonotonic
<1> HIDE DEF S
<1>2. OfficialOptions \in Seq(S) /\ Range(OfficialOptions) = all
  <2> DEFINE g2 == TlsOptions \o HttpFilterOptions
             g3 == g2 \o HttpAccessOptions
             g4 == g3 \o ProxyOptions
             g5 == g4 \o SystemOptions
             g6 == g5 \o DisablingOptions
  <2>1. OfficialOptions = g6
    BY DEF OfficialOptions
  <2>2. g2 \in Seq(S) /\ Range(g2) = Range(TlsOptions) \cup Range(HttpFilterOptions)
    BY <1>1, ConcatRange
  <2> HIDE DEF g2
  <2>3. g3 \in Seq(S) /\ Range(g3) = Range(g2) \cup Range(HttpAccessOptions)
    BY <1>1, <2>2, ConcatRange
  <2> HIDE DEF g3
  <2>4. g4 \in Seq(S) /\ Range(g4) = Range(g3) \cup Range(ProxyOptions)
    BY <1>1, <2>3, ConcatRange
  <2> HIDE DEF g4
  <2>5. g5 \in Seq(S) /\ Range(g5) = Range(g4) \cup Range(SystemOptions)
    BY <1>1, <2>4, ConcatRange
  <2> HIDE DEF g5
  <2>6. g6 \in Seq(S) /\ Range(g6) = Range(g5) \cup Range(DisablingOptions)
    BY <1>1, <2>5, ConcatRange
  <2> HIDE DEF g6
  <2>7. QED
    BY <2>1, <2>2, <2>3, <2>4, <2>5, <2>6
<1>3. Len(OfficialOptions) \in Nat /\ DOMAIN OfficialOptions = 1 .. Len(OfficialOptions)
  BY <1>2, LenProperties
<1>4. \A o \in Catalog : WellPlaced(o)
  <2>1. \A i \in 1 .. Len(OfficialOptions) : OfficialOptions[i] \in S
    BY <1>2, ElementOfSeq
  <2>2. QED
    BY <1>3, <2>1 DEF Catalog, Range, S
<1>5. /\ Ids(OfficialOptions) = Ids(TlsOptions) \cup Ids(HttpFilterOptions)
              \cup Ids(HttpAccessOptions) \cup Ids(ProxyOptions) \cup Ids(SystemOptions)
              \cup Ids(DisablingOptions)
  BY <1>2 DEF Ids
<1>6. /\ {"http_ssl", "stream_ssl", "mail_ssl"} \subseteq Ids(TlsOptions)
      /\ {"stream", "mail"} \subseteq Ids(ProxyOptions)
      /\ "without_http_rewrite" \in Ids(DisablingOptions)
  <2>1. {"http_ssl", "stream_ssl", "mail_ssl"} \subseteq Ids(TlsOptions)
    BY DEF Ids, TlsOptions, HttpOpt, Opt, Range
  <2>2. {"stream", "mail"} \subseteq Ids(ProxyOptions)
    BY DEF Ids, ProxyOptions, Opt, Range
  <2>3. QED
    BY <2>1, <2>2, DisablingIs
<1>7. QED
  BY <1>3, <1>4, <1>5, <1>6 DEF OptionIds

-----------------------------------------------------------------------------
(* The steps on a state of the algorithm, a record with these fields. *)

Fields == {"selected", "warnings", "conflicts"}

LEMMA StepsAre ==
    ASSUME NEW s, Fields \subseteq DOMAIN s, NEW id, NEW why
    PROVE  /\ DOMAIN Select(s, id, why) = DOMAIN s
           /\ Select(s, id, why).selected = s.selected \cup {id}
           /\ Select(s, id, why).conflicts = s.conflicts
           /\ DOMAIN Drop(s, id, why) = DOMAIN s
           /\ Drop(s, id, why).selected = s.selected \ {id}
           /\ Drop(s, id, why).conflicts = s.conflicts
           /\ Drop(s, id, why).seen = s.seen
BY DEF Fields, Select, Drop

LEMMA ReportIs ==
    ASSUME NEW s, Fields \subseteq DOMAIN s, NEW conflict
    PROVE  /\ DOMAIN Report(s, conflict) = DOMAIN s
           /\ Report(s, conflict).selected = s.selected
           /\ Report(s, conflict).conflicts = s.conflicts \cup {conflict}
           /\ Report(s, conflict).seen = s.seen
BY DEF Fields, Report

(* A request before its conflicts are resolved.  Nothing but the engine, a  *)
(* TLS module, the rewrite flag and dependencies are added.                 *)
TlsModules == {"http_ssl", "stream_ssl", "mail_ssl"}

(* What the steps up to the dependencies establish with resolution. *)
Serves(s) == "without_http" \in s.selected => Engines \cap s.selected # {}

KeepsFeatures(s, req) == req.options \ Disabling \subseteq s.selected

UsesTls(s, req) ==
    Wants(req, "openssl") =>
        \/ {"stream_ssl", "mail_ssl"} \cap s.selected # {}
        \/ /\ "http_ssl" \in s.selected
           /\ "http_ssl" \in req.options \/ "without_http" \notin s.selected

Sound(s, req) ==
    /\ DOMAIN s = Fields
    /\ s.conflicts = {}
    /\ s.selected \subseteq OptionIds
    /\ Serves(s)
    /\ KeepsFeatures(s, req)
    /\ UsesTls(s, req)

LEMMA EngineSound ==
    ASSUME NEW req, req.options \subseteq OptionIds
    PROVE  LET s == EnsureEngine(Start(req), TRUE)
           IN  /\ DOMAIN s = Fields /\ s.conflicts = {}
               /\ s.selected \subseteq OptionIds
               /\ Serves(s) /\ KeepsFeatures(s, req)
               /\ s.selected \subseteq req.options \cup {"stream"}
<1> DEFINE s0 == Start(req)
           s == EnsureEngine(s0, TRUE)
<1>1. DOMAIN s0 = Fields /\ s0.selected = req.options /\ s0.conflicts = {}
  BY DEF Start, Fields
<1> HIDE DEF s0, s
<1>2. CASE NeedsEngine(s0)
  <2>1. s = Select(s0, "stream", "engine")
    BY <1>2 DEF EnsureEngine, s
  <2>2. DOMAIN s = Fields /\ s.selected = req.options \cup {"stream"} /\ s.conflicts = {}
    BY <1>1, <2>1, StepsAre
  <2>3. QED
    BY <2>2, CatalogWellPlaced DEF s0, Serves, Engines, KeepsFeatures, s
<1>3. CASE ~NeedsEngine(s0)
  <2>1. s = s0
    BY <1>3 DEF EnsureEngine, s
  <2>2. Serves(s)
    BY <1>3, <2>1 DEF NeedsEngine, Serves, Engines
  <2>3. QED
    BY <1>1, <2>1, <2>2 DEF KeepsFeatures, s0, s
<1>4. QED
  BY <1>2, <1>3

LEMMA TlsSound ==
    ASSUME NEW req, req.options \subseteq OptionIds
    PROVE  Sound(EnableTls(EnsureEngine(Start(req), TRUE), req), req)
<1> DEFINE s == EnsureEngine(Start(req), TRUE)
           t == EnableTls(s, req)
<1>1. /\ DOMAIN s = Fields /\ s.conflicts = {}
      /\ s.selected \subseteq OptionIds
      /\ Serves(s) /\ KeepsFeatures(s, req)
      /\ s.selected \subseteq req.options \cup {"stream"}
  BY EngineSound
<1> HIDE DEF s
<1>2. CASE Wants(req, "openssl") /\ TlsModules \cap s.selected = {}
  <2>1. t = Select(s, TlsModule(s), "tls")
    BY <1>2 DEF EnableTls, TlsModules
  <2>2. DOMAIN t = Fields /\ t.selected = s.selected \cup {TlsModule(s)} /\ t.conflicts = {}
    BY <1>1, <2>1, StepsAre
  <2>3. TlsModule(s) \in TlsModules
    BY DEF TlsModule, TlsModules
  <2>4. TlsModule(s) = "http_ssl" => "without_http" \notin s.selected
    BY <1>1 DEF TlsModule, Serves, Engines
  <2> HIDE DEF t
  <2>5. UsesTls(t, req)
    BY <2>2, <2>3, <2>4 DEF UsesTls, TlsModules
  <2>6. t.selected \subseteq OptionIds
    BY <1>1, <2>2, <2>3, CatalogWellPlaced DEF TlsModules
  <2>7. Serves(t) /\ KeepsFeatures(t, req)
    BY <1>1, <2>2, <2>3 DEF Serves, KeepsFeatures, TlsModules
  <2>8. QED
    BY <2>2, <2>5, <2>6, <2>7 DEF Sound, s, t
<1>3. CASE ~(Wants(req, "openssl") /\ TlsModules \cap s.selected = {})
  <2>1. t = s
    BY <1>3 DEF EnableTls, TlsModules
  <2>2. UsesTls(t, req)
    BY <1>1, <1>3, <2>1 DEF UsesTls, TlsModules
  <2> HIDE DEF t
  <2>3. QED
    BY <1>1, <2>1, <2>2 DEF Sound, s, t
<1>4. QED
  BY <1>2, <1>3

(* A step that gives up disabling options only, and does not disable http,  *)
(* keeps all of this.                                                       *)
LEMMA SoundKept ==
    ASSUME NEW req, NEW s, NEW t, Sound(s, req),
           DOMAIN t = Fields, t.conflicts = {}, t.selected \subseteq OptionIds,
           s.selected \ t.selected \subseteq Disabling,
           "without_http" \in t.selected => "without_http" \in s.selected
    PROVE  Sound(t, req)
<1>1. {"stream", "mail", "http_ssl", "stream_ssl", "mail_ssl"} \cap Disabling = {}
  BY DisablingIs
<1>2. Serves(t)
  BY <1>1 DEF Sound, Serves, Engines
<1>3. KeepsFeatures(t, req)
  BY DEF Sound, KeepsFeatures
<1>4. UsesTls(t, req)
  BY <1>1 DEF Sound, UsesTls
<1>5. QED
  BY <1>2, <1>3, <1>4 DEF Sound

LEMMA HintPcreSound ==
    ASSUME NEW req, NEW s, Sound(s, req)
    PROVE  Sound(KeepPcreSource(HintQuic(s, req), req, TRUE), req)
<1> DEFINE t == HintQuic(s, req)
           u == KeepPcreSource(t, req, TRUE)
<1>1. DOMAIN t = Fields /\ t.selected = s.selected /\ t.conflicts = {}
  BY DEF Sound, Fields, HintQuic
<1>2. Sound(t, req)
  BY <1>1, SoundKept DEF Sound
<1> HIDE DEF t, u
<1>3. u = t \/ u = Drop(t, "without_pcre", "source")
  BY DEF u, KeepPcreSource
<1>4. DOMAIN u = Fields /\ u.conflicts = {} /\ u.selected \in {t.selected, t.selected \ {"without_pcre"}}
  BY <1>1, <1>3, StepsAre
<1>5. Sound(u, req)
  <2>1. "without_pcre" \in Disabling
    BY DisablingIs
  <2>2. u.selected \subseteq OptionIds /\ t.selected \ u.selected \subseteq Disabling
    BY <1>2, <1>4, <2>1 DEF Sound
  <2>3. QED
    BY <1>2, <1>4, <2>2, SoundKept
<1>6. QED
  BY <1>5 DEF t, u

(* Without PCRE the rewrite module is disabled, unless all of http is. *)
RewriteFollows(selected) ==
    "without_pcre" \in selected => {"without_http", "without_http_rewrite"} \cap selected # {}

LEMMA HttpPartsDisable ==
    /\ HttpParts \subseteq Disabling
    /\ {"without_http", "without_pcre"} \cap HttpParts = {}
BY DisablingIs DEF HttpParts

LEMMA RewriteSound ==
    ASSUME NEW req, NEW s, Sound(s, req)
    PROVE  LET t == DropRedundant(DisableRewrite(s), req)
           IN  Sound(t, req) /\ RewriteFollows(t.selected)
<1> DEFINE t == DisableRewrite(s)
           u == DropRedundant(t, req)
<1>1. t = s \/ t = Select(s, "without_http_rewrite", "mandated")
  BY DEF DisableRewrite
<1>2. RewriteFollows(t.selected)
  <2>1. CASE t = s
    <3>1. "without_pcre" \in s.selected =>
             {"without_http", "without_http_rewrite"} \cap s.selected # {}
      <4>1. SUFFICES ASSUME "without_pcre" \in s.selected,
                            {"without_http", "without_http_rewrite"} \cap s.selected = {}
                     PROVE  FALSE
        OBVIOUS
      <4>2. t = Select(s, "without_http_rewrite", "mandated")
        BY <4>1 DEF DisableRewrite
      <4>3. t.selected = s.selected \cup {"without_http_rewrite"}
        BY <4>2, StepsAre DEF Sound
      <4>4. QED
        BY <2>1, <4>1, <4>3
    <3>2. QED
      BY <2>1, <3>1 DEF RewriteFollows
  <2>2. CASE t = Select(s, "without_http_rewrite", "mandated")
    <3>1. t.selected = s.selected \cup {"without_http_rewrite"}
      BY <2>2, StepsAre DEF Sound
    <3>2. QED
      BY <3>1 DEF RewriteFollows
  <2>3. QED
    BY <1>1, <2>1, <2>2
<1>3. /\ DOMAIN t = Fields /\ t.conflicts = {}
      /\ t.selected \in {s.selected, s.selected \cup {"without_http_rewrite"}}
  BY <1>1, StepsAre DEF Sound
<1> HIDE DEF t
<1>4. Sound(t, req)
  <2>1. t.selected \subseteq OptionIds
    BY <1>3, CatalogWellPlaced DEF Sound
  <2>2. QED
    BY <1>3, <2>1, SoundKept
<1>5. /\ DOMAIN u = Fields /\ u.conflicts = {}
      /\ u.selected = IF "without_http" \in t.selected THEN t.selected \ HttpParts ELSE t.selected
  BY <1>3 DEF DropRedundant, Fields
<1> HIDE DEF u
<1>6. Sound(u, req)
  <2>1. u.selected \subseteq OptionIds /\ t.selected \ u.selected \subseteq Disabling
    BY <1>4, <1>5, HttpPartsDisable DEF Sound
  <2>2. QED
    BY <1>4, <1>5, <2>1, SoundKept
<1>7. RewriteFollows(u.selected)
  BY <1>2, <1>5, HttpPartsDisable DEF RewriteFollows
<1>8. QED
  BY <1>6, <1>7 DEF t, u

(* Dependencies are engines and http_ssl, which depend on nothing: one pass *)
(* adds all of them.                                                        *)
LEMMA DependenciesAreRoots ==
    ASSUME NEW selected
    PROVE  /\ Dependencies(selected) \subseteq Engines \cup {"http_ssl"}
           /\ \A more \in SUBSET (Engines \cup {"http_ssl", "without_http_rewrite"}) :
                 Dependencies(selected \cup more) = Dependencies(selected)
<1>1. Dependencies(selected) \subseteq Engines \cup {"http_ssl"}
  BY CatalogWellPlaced DEF Dependencies, WellPlaced
<1>2. ASSUME NEW more \in SUBSET (Engines \cup {"http_ssl", "without_http_rewrite"})
      PROVE  Dependencies(selected \cup more) = Dependencies(selected)
  <2>1. \A o \in Catalog : o.id \in more => o.deps = {}
    BY CatalogWellPlaced DEF WellPlaced
  <2>2. QED
    BY <2>1 DEF Dependencies
<1>3. QED
  BY <1>1, <1>2

LEMMA AddDependenciesSound ==
    ASSUME NEW req, NEW s, Sound(s, req), RewriteFollows(s.selected)
    PROVE  LET t == AddDependencies(s)
           IN  /\ Sound(t, req)
               /\ RewriteFollows(t.selected)
               /\ Dependencies(t.selected) \subseteq t.selected
<1> DEFINE t == AddDependencies(s)
           new == Dependencies(s.selected) \ s.selected
<1>1. DOMAIN t = Fields /\ t.conflicts = {} /\ t.selected = s.selected \cup new
  BY DEF AddDependencies, Sound, Fields
<1>2. new \subseteq Engines \cup {"http_ssl"}
  BY DependenciesAreRoots
<1> HIDE DEF t
<1>3. Dependencies(t.selected) \subseteq t.selected
  <2>1. Dependencies(t.selected) = Dependencies(s.selected)
    BY <1>1, <1>2, DependenciesAreRoots
  <2>2. QED
    BY <1>1, <2>1
<1>4. Sound(t, req)
  <2>1. t.selected \subseteq OptionIds
    BY <1>1, <1>2, CatalogWellPlaced DEF Sound, Engines
  <2>2. "without_http" \in t.selected => "without_http" \in s.selected
    BY <1>1, <1>2 DEF Engines
  <2>3. QED
    BY <1>1, <2>1, <2>2, SoundKept
<1>5. RewriteFollows(t.selected)
  BY <1>1, <1>2 DEF RewriteFollows, Engines
<1>6. QED
  BY <1>3, <1>4, <1>5 DEF t

(* The completed request. *)
LEMMA CompletedSound ==
    ASSUME NEW req, req.options \subseteq OptionIds
    PROVE  LET s == Completed(req, TRUE)
           IN  /\ Sound(s, req)
               /\ RewriteFollows(s.selected)
               /\ Dependencies(s.selected) \subseteq s.selected
<1> DEFINE s1 == EnableTls(EnsureEngine(Start(req), TRUE), req)
           s2 == KeepPcreSource(HintQuic(s1, req), req, TRUE)
           s3 == DropRedundant(DisableRewrite(s2), req)
<1>1. Completed(req, TRUE) = AddDependencies(s3)
  BY DEF Completed
<1>2. Sound(s1, req)
  BY TlsSound
<1> HIDE DEF s1
<1>3. Sound(s2, req)
  BY <1>2, HintPcreSound
<1> HIDE DEF s2
<1>4. Sound(s3, req) /\ RewriteFollows(s3.selected)
  BY <1>3, RewriteSound
<1> HIDE DEF s3
<1>5. QED
  BY <1>1, <1>4, AddDependenciesSound

(* Without conflicts the request is completed the same way with and without *)
(* resolution.                                                              *)
LEMMA CompletedAgree ==
    ASSUME NEW req, Completed(req, FALSE).conflicts = {}
    PROVE  Completed(req, FALSE) = Completed(req, TRUE)
<1> DEFINE s0 == Start(req)
           e(mode) == EnsureEngine(s0, mode)
           t(s) == HintQuic(EnableTls(s, req), req)
           p(s, mode) == KeepPcreSource(s, req, mode)
           d(s) == AddDependencies(DropRedundant(DisableRewrite(s), req))
<1>1. \A s : Fields \subseteq DOMAIN s =>
         /\ Fields \subseteq DOMAIN t(s) /\ t(s).conflicts = s.conflicts
         /\ Fields \subseteq DOMAIN d(s) /\ d(s).conflicts = s.conflicts
  BY DEF EnableTls, HintQuic, AddDependencies, DropRedundant, DisableRewrite, Select, Fields
<1>2. Fields \subseteq DOMAIN s0
  BY DEF Start, Fields
<1>3. \A mode \in BOOLEAN : Completed(req, mode) = d(p(t(e(mode)), mode))
  BY DEF Completed
<1>4. \A u : Fields \subseteq DOMAIN u =>
         /\ Fields \subseteq DOMAIN e(FALSE) /\ Fields \subseteq DOMAIN p(u, FALSE)
         /\ e(FALSE).conflicts = {} => ~NeedsEngine(s0)
         /\ p(u, FALSE).conflicts = {} =>
               u.conflicts = {} /\ ~(Wants(req, "pcre") /\ "without_pcre" \in u.selected)
  <2>1. TAKE u
  <2>2. HAVE Fields \subseteq DOMAIN u
  <2>3. e(FALSE) = s0 \/ e(FALSE) = Report(s0, {"without_http"})
    BY DEF EnsureEngine
  <2>4. NeedsEngine(s0) => e(FALSE) = Report(s0, {"without_http"})
    BY DEF EnsureEngine
  <2>5. p(u, FALSE) = u \/ p(u, FALSE) = Report(u, {"without_pcre"})
    BY DEF KeepPcreSource
  <2>6. Wants(req, "pcre") /\ "without_pcre" \in u.selected
           => p(u, FALSE) = Report(u, {"without_pcre"})
    BY DEF KeepPcreSource
  <2> HIDE DEF s0, e, p
  <2> DEFINE r0 == Report(s0, {"without_http"})
             r == Report(u, {"without_pcre"})
  <2>7. /\ DOMAIN r0 = DOMAIN s0 /\ r0.conflicts # {}
        /\ DOMAIN r = DOMAIN u /\ r.conflicts # {}
    <3>1. /\ DOMAIN r0 = DOMAIN s0
          /\ r0.conflicts = s0.conflicts \cup {{"without_http"}}
      BY <1>2, ReportIs
    <3>2. /\ DOMAIN r = DOMAIN u
          /\ r.conflicts = u.conflicts \cup {{"without_pcre"}}
      BY <2>2, ReportIs
    <3>3. r0.conflicts # {}
      BY <3>1
    <3> HIDE DEF r0, r
    <3> QED
      BY <3>1, <3>2
  <2> HIDE DEF r0, r
  <2>8. QED
    BY <1>2, <2>2, <2>3, <2>4, <2>5, <2>6, <2>7 DEF r0, r
<1> HIDE DEF t, d
<1>5. e(FALSE).conflicts = {} /\ p(t(e(FALSE)), FALSE).conflicts = {}
  <2> HIDE DEF s0, e, p
  <2>1. Fields \subseteq DOMAIN t(e(FALSE)) /\ t(e(FALSE)).conflicts = e(FALSE).conflicts
    BY <1>1, <1>2, <1>4
  <2>2. d(p(t(e(FALSE)), FALSE)).conflicts = {}
    BY <1>3
  <2>3. p(t(e(FALSE)), FALSE).conflicts = {}
    BY <1>1, <1>4, <2>1, <2>2
  <2>4. QED
    BY <1>4, <2>1, <2>3
<1>6. ~NeedsEngine(s0) /\ e(FALSE) = e(TRUE)
  <2>1. ~NeedsEngine(s0)
    BY <1>2, <1>4, <1>5
  <2>2. QED
    BY <2>1 DEF EnsureEngine
<1>7. p(t(e(FALSE)), FALSE) = p(t(e(FALSE)), TRUE)
  <2>1. Fields \subseteq DOMAIN t(e(FALSE))
    BY <1>1, <1>2, <1>4
  <2>2. ~(Wants(req, "pcre") /\ "without_pcre" \in t(e(FALSE)).selected)
    BY <1>4, <1>5, <2>1
  <2>3. QED
    BY <2>2 DEF KeepPcreSource
<1> HIDE DEF s0, e, p
<1>8. QED
  BY <1>3, <1>6, <1>7

-----------------------------------------------------------------------------
(* The loop over the conflicts, with resolution. *)

(* The choice that conflicts are resolved. *)
Resolving(mode) == mode = TRUE

LoopFields == Fields \cup {"seen"}

LEMMA LoserIs ==
    ASSUME NEW o \in Catalog, NEW other \in Range(o.conflicts), NEW explicit
    PROVE  /\ Loser(o.id, other, explicit) \in {o.id, other}
           /\ Loser(o.id, other, explicit) \notin FreeOptions
           /\ Loser(o.id, other, explicit) \notin explicit \ Disabling
<1> DEFINE l == Loser(o.id, other, explicit)
<1>1. l \in {o.id, other}
  BY DEF Loser
<1>2. WellPlaced(o)
  BY CatalogWellPlaced
<1>3. {o.id, other} \cap FreeOptions = {}
  BY <1>2 DEF WellPlaced
<1>4. o.id \in Disabling \/ other \in Disabling
  BY <1>2 DEF WellPlaced
<1>5. l \notin explicit \ Disabling
  <2>1. CASE o.id \in explicit <=> other \in explicit
    <3>1. l = IF Yields(o.id, other) THEN o.id ELSE other
      BY <2>1 DEF Loser
    <3>2. Yields(o.id, other) => o.id \in Disabling
      BY HttpPartsDisable DEF Yields
    <3>3. ~Yields(o.id, other) => other \in Disabling
      BY <1>4 DEF Yields
    <3>4. QED
      BY <3>1, <3>2, <3>3
  <2>2. CASE ~(o.id \in explicit <=> other \in explicit)
    BY <2>2 DEF Loser
  <2>3. QED
    BY <2>1, <2>2
<1>6. QED
  BY <1>1, <1>3, <1>5

(* What holds in the loop between the state it started from and any later   *)
(* one: options only go, one of each pair that was seen is gone, nothing    *)
(* goes that excludes no other option, that the user asked for and is a     *)
(* feature, or that http needs when http is built.                          *)
Resolved(s0, s, req) ==
    /\ DOMAIN s = LoopFields
    /\ s.selected \subseteq s0.selected
    /\ s.conflicts = s0.conflicts
    /\ \A a, b : {a, b} \in s.seen => ~({a, b} \subseteq s.selected)
    /\ ConflictFree(s0.selected) => s.selected = s0.selected
    /\ s0.selected \cap (FreeOptions \cup (req.options \ Disabling)) \subseteq s.selected
    /\ "without_http" \notin s0.selected /\ "http_ssl" \in s0.selected
          => "http_ssl" \in s.selected

LEMMA PairResolved ==
    ASSUME NEW s0, NEW s, NEW req, NEW o \in Catalog, NEW other \in Range(o.conflicts),
           o.id \in s0.selected, Resolved(s0, s, req), NEW mode, Resolving(mode),
           NEW t, t = ResolvePair(s, o.id, other, req.options, mode)
    PROVE  /\ Resolved(s0, t, req)
           /\ t.selected \subseteq s.selected
           /\ ~({o.id, other} \subseteq t.selected)
<1> DEFINE l == Loser(o.id, other, req.options)
           u == [s EXCEPT !.seen = @ \cup {{o.id, other}}]
<1>1. CASE other \notin s.selected \/ {o.id, other} \in s.seen
  <2>1. t = s
    BY <1>1 DEF ResolvePair
  <2>2. ~({o.id, other} \subseteq s.selected)
    BY <1>1 DEF Resolved
  <2>3. QED
    BY <2>1, <2>2
<1>2. CASE ~(other \notin s.selected \/ {o.id, other} \in s.seen)
  <2>1. t = Drop(u, l, "conflict")
    BY <1>2 DEF ResolvePair, Resolving
  <2>2. /\ DOMAIN u = LoopFields /\ u.selected = s.selected /\ u.conflicts = s.conflicts
        /\ u.seen = s.seen \cup {{o.id, other}}
    BY DEF Resolved, LoopFields, Fields
  <2> HIDE DEF u
  <2>3. /\ DOMAIN t = LoopFields /\ t.selected = s.selected \ {l} /\ t.conflicts = s.conflicts
        /\ t.seen = s.seen \cup {{o.id, other}}
    BY <2>1, <2>2, StepsAre DEF LoopFields
  <2>4. l \in {o.id, other} /\ l \notin FreeOptions /\ l \notin req.options \ Disabling
    BY LoserIs
  <2>5. other \in s0.selected
    BY <1>2 DEF Resolved
  <2>6. ~ConflictFree(s0.selected)
    BY <2>5 DEF ConflictFree
  <2>7. "without_http" \notin s0.selected => l # "http_ssl"
    BY <2>4, <2>5, CatalogWellPlaced DEF WellPlaced
  <2> HIDE DEF l
  <2>8. \A a, b : {a, b} \in t.seen => ~({a, b} \subseteq t.selected)
    BY <2>3, <2>4 DEF Resolved
  <2>9. Resolved(s0, t, req)
    BY <2>3, <2>4, <2>6, <2>7, <2>8 DEF Resolved
  <2>10. QED
    BY <2>3, <2>4, <2>9
<1>3. QED
  BY <1>1, <1>2

(* After an option's turn nothing it excludes is left beside it. *)
LEMMA OptionResolved ==
    ASSUME NEW s0, NEW s, NEW req, NEW o \in Catalog, Resolved(s0, s, req), NEW mode, Resolving(mode),
           NEW t, t = ResolveOption(s, o, req.options, mode)
    PROVE  /\ Resolved(s0, t, req)
           /\ t.selected \subseteq s.selected
           /\ o.id \in t.selected => Range(o.conflicts) \cap t.selected = {}
<1> DEFINE T == Turn(s, o, req.options, mode)
           N == Len(o.conflicts)
           P == {k \in 0 .. N :
                   /\ Resolved(s0, T[k], req)
                   /\ T[k].selected \subseteq s.selected
                   /\ \A j \in 1 .. k : ~({o.id, o.conflicts[j]} \subseteq T[k].selected)}
<1>1. CASE o.id \notin s.selected
  <2>1. t = s
    BY <1>1 DEF ResolveOption
  <2>2. QED
    BY <1>1, <2>1
<1>2. CASE o.id \in s.selected
  <2>1. N \in Nat /\ DOMAIN o.conflicts = 1 .. N
    <3>1. o.conflicts \in Seq(Range(o.conflicts))
      BY CatalogWellPlaced DEF WellPlaced
    <3>2. QED
      BY <3>1, LenProperties
  <2> HIDE DEF P
  <2>2. t = T[N]
    BY <1>2 DEF ResolveOption
  <2>3. N \in Nat
    BY <2>1
  <2>4. /\ T[0] = s
        /\ \A k \in 1 .. N : T[k] = AfterPair(T[k - 1], o, k, req.options, mode)
    BY <2>3, TurnStates
  <2>5. o.id \in s0.selected
    BY <1>2 DEF Resolved
  <2> HIDE DEF T, N
  <2> USE DEF P
  <2>6. 0 \in P
    BY <2>1, <2>4
  <2>7. ASSUME NEW k \in 1 .. N, k - 1 \in P PROVE k \in P
    <3> DEFINE u == T[k - 1]
               v == T[k]
               other == o.conflicts[k]
    <3>1. other \in Range(o.conflicts)
      BY <2>1 DEF Range
    <3>2. v = ResolvePair(u, o.id, other, req.options, mode)
      BY <2>1, <2>4 DEF AfterPair
    <3>3. /\ Resolved(s0, u, req) /\ u.selected \subseteq s.selected
          /\ \A j \in 1 .. k - 1 : ~({o.id, o.conflicts[j]} \subseteq u.selected)
      BY <2>7
    <3>4. /\ Resolved(s0, v, req)
          /\ v.selected \subseteq u.selected
          /\ ~({o.id, other} \subseteq v.selected)
      <4> HIDE DEF u, v, other
      <4>1. QED
        BY <2>5, <3>1, <3>2, <3>3, PairResolved
    <3>5. \A j \in 1 .. k : ~({o.id, o.conflicts[j]} \subseteq v.selected)
      BY <2>1, <3>3, <3>4
    <3>6. QED
      BY <2>1, <3>3, <3>4, <3>5
  <2>8. N \in P
    <3> HIDE DEF P
    <3>1. \A k \in 0 .. N : k \in P
      BY <2>1, <2>6, <2>7, LoopInduction
    <3>2. QED
      BY <2>1, <3>1
  <2>9. o.id \in T[N].selected => Range(o.conflicts) \cap T[N].selected = {}
    BY <2>1, <2>8 DEF Range
  <2>10. QED
    BY <2>2, <2>8, <2>9
<1>3. QED
  BY <1>1, <1>2

LEMMA LoopResolved ==
    ASSUME NEW s, NEW req, NEW mode, Resolving(mode)
    PROVE  /\ Resolved(s, ResolveConflicts(s, req, mode), req)
           /\ ConflictFree(ResolveConflicts(s, req, mode).selected)
<1> DEFINE T == Turns(s, req, mode)
           N == Len(OfficialOptions)
           t == ResolveConflicts(s, req, mode)
           O(n) == OfficialOptions[n]
           P == {n \in 0 .. N :
                   /\ Resolved(s, T[n], req)
                   /\ \A m \in 1 .. n : O(m).id \in T[n].selected
                        => Range(O(m).conflicts) \cap T[n].selected = {}}
<1>1. N \in Nat /\ DOMAIN OfficialOptions = 1 .. N
  BY CatalogWellPlaced
<1>2. /\ T[0] = Unresolved(s)
      /\ \A n \in 1 .. N : T[n] = AfterOption(T[n - 1], n, req, mode)
  BY <1>1, TurnsStates
<1>3. t = T[N]
  BY DEF ResolveConflicts
<1> HIDE DEF T, N, t
<1>4. 0 \in P
  <2>1. T[0] = Unresolved(s)
    BY <1>1, <1>2
  <2>2. Resolved(s, T[0], req)
    BY <2>1 DEF Resolved, LoopFields, Fields, Unresolved
  <2>3. QED
    BY <1>1, <2>2
<1>5. ASSUME NEW n \in 1 .. N, n - 1 \in P PROVE n \in P
  <2> DEFINE u == T[n - 1]
             v == T[n]
             o == O(n)
  <2>1. o \in Catalog
    BY <1>1 DEF Catalog, Range
  <2>2. v = ResolveOption(u, o, req.options, mode)
    BY <1>1, <1>2 DEF AfterOption
  <2>3. /\ Resolved(s, u, req)
        /\ \A m \in 1 .. n - 1 : O(m).id \in u.selected
             => Range(O(m).conflicts) \cap u.selected = {}
    BY <1>5
  <2>4. /\ Resolved(s, v, req)
        /\ v.selected \subseteq u.selected
        /\ o.id \in v.selected => Range(o.conflicts) \cap v.selected = {}
    <3> HIDE DEF u, v, o
    <3>1. QED
      BY <2>1, <2>2, <2>3, OptionResolved
  <2> HIDE DEF O
  <2>5. \A m \in 1 .. n : O(m).id \in v.selected
          => Range(O(m).conflicts) \cap v.selected = {}
    BY <1>1, <2>3, <2>4
  <2>6. QED
    BY <1>1, <2>4, <2>5
<1>6. N \in P
  <2> HIDE DEF P
  <2>1. \A n \in 0 .. N : n \in P
    BY <1>1, <1>4, <1>5, LoopInduction
  <2>2. QED
    BY <1>1, <2>1
<1>7. ConflictFree(t.selected)
  BY <1>1, <1>3, <1>6 DEF ConflictFree, Catalog, Range
<1>8. QED
  BY <1>3, <1>6, <1>7 DEF t

-----------------------------------------------------------------------------
(* The loop over the conflicts, without resolution: it reports them and     *)
(* changes nothing that is selected.                                        *)

Reporting(mode) == mode = FALSE

Reported(s0, s) ==
    /\ DOMAIN s = LoopFields
    /\ s.selected = s0.selected
    /\ s0.conflicts \subseteq s.conflicts
    /\ s.seen \subseteq s.conflicts

LEMMA PairReported ==
    ASSUME NEW s0, NEW s, NEW id, NEW other, NEW explicit, NEW mode, Reporting(mode),
           Reported(s0, s), NEW t, t = ResolvePair(s, id, other, explicit, mode)
    PROVE  /\ Reported(s0, t)
           /\ s.conflicts \subseteq t.conflicts
           /\ other \in s0.selected => t.conflicts # {}
<1> DEFINE u == [s EXCEPT !.seen = @ \cup {{id, other}}]
<1>1. CASE other \notin s.selected \/ {id, other} \in s.seen
  <2>1. t = s
    BY <1>1 DEF ResolvePair
  <2>2. QED
    BY <1>1, <2>1 DEF Reported
<1>2. CASE ~(other \notin s.selected \/ {id, other} \in s.seen)
  <2>1. t = Report(u, {id, other})
    BY <1>2 DEF ResolvePair, Reporting
  <2>2. /\ DOMAIN u = LoopFields /\ u.selected = s.selected /\ u.conflicts = s.conflicts
        /\ u.seen = s.seen \cup {{id, other}}
    BY DEF Reported, LoopFields, Fields
  <2> HIDE DEF u
  <2>3. /\ DOMAIN t = LoopFields /\ t.selected = s.selected
        /\ t.conflicts = s.conflicts \cup {{id, other}}
        /\ t.seen = s.seen \cup {{id, other}}
    <3> DEFINE pair == {id, other}
    <3>1. Fields \subseteq DOMAIN u
      BY <2>2 DEF LoopFields
    <3> HIDE DEF pair
    <3>2. /\ DOMAIN Report(u, pair) = DOMAIN u
          /\ Report(u, pair).selected = u.selected
          /\ Report(u, pair).conflicts = u.conflicts \cup {pair}
          /\ Report(u, pair).seen = u.seen
      BY <3>1, ReportIs
    <3>3. QED
      BY <2>1, <2>2, <3>2 DEF pair
  <2>4. QED
    BY <2>3 DEF Reported
<1>3. QED
  BY <1>1, <1>2

LEMMA OptionReported ==
    ASSUME NEW s0, NEW s, NEW o \in Catalog, NEW explicit, NEW mode, Reporting(mode),
           Reported(s0, s), NEW t, t = ResolveOption(s, o, explicit, mode)
    PROVE  /\ Reported(s0, t)
           /\ s.conflicts \subseteq t.conflicts
           /\ o.id \in s0.selected /\ Range(o.conflicts) \cap s0.selected # {}
                 => t.conflicts # {}
<1> DEFINE T == Turn(s, o, explicit, mode)
           N == Len(o.conflicts)
           P == {k \in 0 .. N :
                   /\ Reported(s0, T[k])
                   /\ s.conflicts \subseteq T[k].conflicts
                   /\ \A j \in 1 .. k :
                         o.conflicts[j] \in s0.selected => T[k].conflicts # {}}
<1>1. CASE o.id \notin s.selected
  <2>1. t = s
    BY <1>1 DEF ResolveOption
  <2>2. QED
    BY <1>1, <2>1 DEF Reported
<1>2. CASE o.id \in s.selected
  <2>1. N \in Nat /\ DOMAIN o.conflicts = 1 .. N
    <3>1. o.conflicts \in Seq(Range(o.conflicts))
      BY CatalogWellPlaced DEF WellPlaced
    <3>2. QED
      BY <3>1, LenProperties
  <2> HIDE DEF P
  <2>2. t = T[N]
    BY <1>2 DEF ResolveOption
  <2>3. N \in Nat
    BY <2>1
  <2>4. /\ T[0] = s
        /\ \A k \in 1 .. N : T[k] = AfterPair(T[k - 1], o, k, explicit, mode)
    BY <2>3, TurnStates
  <2> HIDE DEF T, N
  <2> USE DEF P
  <2>5. 0 \in P
    BY <2>1, <2>4
  <2>6. ASSUME NEW k \in 1 .. N, k - 1 \in P PROVE k \in P
    <3> DEFINE u == T[k - 1]
               v == T[k]
               other == o.conflicts[k]
    <3>1. v = ResolvePair(u, o.id, other, explicit, mode)
      BY <2>1, <2>4 DEF AfterPair
    <3>2. /\ Reported(s0, u) /\ s.conflicts \subseteq u.conflicts
          /\ \A j \in 1 .. k - 1 : o.conflicts[j] \in s0.selected => u.conflicts # {}
      BY <2>6
    <3>3. /\ Reported(s0, v)
          /\ u.conflicts \subseteq v.conflicts
          /\ other \in s0.selected => v.conflicts # {}
      <4> HIDE DEF u, v, other
      <4>1. QED
        BY <3>1, <3>2, PairReported
    <3>4. \A j \in 1 .. k : o.conflicts[j] \in s0.selected => v.conflicts # {}
      BY <2>1, <3>2, <3>3
    <3>5. QED
      BY <2>1, <3>2, <3>3, <3>4
  <2>7. N \in P
    <3> HIDE DEF P
    <3>1. \A k \in 0 .. N : k \in P
      BY <2>1, <2>5, <2>6, LoopInduction
    <3>2. QED
      BY <2>1, <3>1
  <2>8. Range(o.conflicts) \cap s0.selected # {} => T[N].conflicts # {}
    BY <2>1, <2>7 DEF Range
  <2>9. QED
    BY <2>2, <2>7, <2>8
<1>3. QED
  BY <1>1, <1>2

LEMMA LoopReported ==
    ASSUME NEW s, NEW req, NEW mode, Reporting(mode),
           ResolveConflicts(s, req, mode).conflicts = {}
    PROVE  /\ ResolveConflicts(s, req, mode).selected = s.selected
           /\ s.conflicts = {}
           /\ ConflictFree(s.selected)
<1> DEFINE T == Turns(s, req, mode)
           N == Len(OfficialOptions)
           t == ResolveConflicts(s, req, mode)
           O(n) == OfficialOptions[n]
           P == {n \in 0 .. N :
                   /\ Reported(s, T[n])
                   /\ \A m \in 1 .. n :
                         O(m).id \in s.selected /\ Range(O(m).conflicts) \cap s.selected # {}
                            => T[n].conflicts # {}}
<1>1. N \in Nat /\ DOMAIN OfficialOptions = 1 .. N
  BY CatalogWellPlaced
<1>2. /\ T[0] = Unresolved(s)
      /\ \A n \in 1 .. N : T[n] = AfterOption(T[n - 1], n, req, mode)
  BY <1>1, TurnsStates
<1>3. t = T[N]
  BY DEF ResolveConflicts
<1> HIDE DEF T, N, t
<1>4. 0 \in P
  <2>1. T[0] = Unresolved(s)
    BY <1>1, <1>2
  <2>2. Reported(s, T[0])
    BY <2>1 DEF Reported, LoopFields, Fields, Unresolved
  <2>3. QED
    BY <1>1, <2>2
<1>5. ASSUME NEW n \in 1 .. N, n - 1 \in P PROVE n \in P
  <2> DEFINE u == T[n - 1]
             v == T[n]
             o == O(n)
             e == req.options
  <2>1. o \in Catalog
    BY <1>1 DEF Catalog, Range
  <2>2. v = ResolveOption(u, o, e, mode)
    BY <1>1, <1>2 DEF AfterOption
  <2>3. /\ Reported(s, u)
        /\ \A m \in 1 .. n - 1 :
              O(m).id \in s.selected /\ Range(O(m).conflicts) \cap s.selected # {}
                 => u.conflicts # {}
    BY <1>5
  <2>4. /\ Reported(s, v)
        /\ u.conflicts \subseteq v.conflicts
        /\ o.id \in s.selected /\ Range(o.conflicts) \cap s.selected # {}
              => v.conflicts # {}
    <3> HIDE DEF u, v, o, e
    <3>1. QED
      BY <2>1, <2>2, <2>3, OptionReported
  <2> HIDE DEF O
  <2>5. \A m \in 1 .. n :
           O(m).id \in s.selected /\ Range(O(m).conflicts) \cap s.selected # {}
              => v.conflicts # {}
    BY <1>1, <2>3, <2>4
  <2>6. QED
    BY <1>1, <2>4, <2>5
<1>6. N \in P
  <2> HIDE DEF P
  <2>1. \A n \in 0 .. N : n \in P
    BY <1>1, <1>4, <1>5, LoopInduction
  <2>2. QED
    BY <1>1, <2>1
<1>7. T[N].conflicts = {}
  BY <1>3 DEF t
<1>8. ConflictFree(s.selected)
  BY <1>1, <1>6, <1>7 DEF ConflictFree, Catalog, Range
<1>9. s.conflicts = {} /\ T[N].selected = s.selected
  BY <1>6, <1>7 DEF Reported
<1>10. QED
  BY <1>3, <1>8, <1>9 DEF t

-----------------------------------------------------------------------------
(* After the loop: the closure, and the arguments. *)

(* What the closure adds is excluded by nothing that is selected. *)
LEMMA ClosureSound ==
    ASSUME NEW selected, ConflictFree(selected), NEW all, all = RestoreClosure(selected)
    PROVE  /\ ConflictFree(all)
           /\ Dependencies(all) \subseteq all
           /\ RewriteFollows(all)
           /\ selected \subseteq all
           /\ all \subseteq selected \cup Engines \cup {"http_ssl", "without_http_rewrite"}
<1> DEFINE closed == selected \cup Dependencies(selected)
           rewrite == "without_pcre" \in closed /\ "without_http" \notin closed
<1>1. all = IF rewrite THEN closed \cup {"without_http_rewrite"} ELSE closed
  BY DEF RestoreClosure, Closure
<1>2. Dependencies(selected) \subseteq Engines \cup {"http_ssl"}
  BY DependenciesAreRoots
<1>3. "http_ssl" \in Dependencies(selected) => "without_http" \notin selected
  <2>1. SUFFICES ASSUME "http_ssl" \in Dependencies(selected) PROVE "without_http" \notin selected
    OBVIOUS
  <2>2. PICK o \in Catalog : o.id \in selected /\ "http_ssl" \in o.deps
    BY <2>1 DEF Dependencies
  <2>3. "without_http" \in Range(o.conflicts)
    BY <2>2, CatalogWellPlaced DEF WellPlaced
  <2>4. QED
    BY <2>2, <2>3 DEF ConflictFree
<1>4. ASSUME NEW o \in Catalog, o.id \in all, NEW other \in Range(o.conflicts), other \in all
      PROVE  FALSE
  <2>1. WellPlaced(o)
    BY CatalogWellPlaced
  <2>2. {o.id, other} \cap FreeOptions = {}
    BY <2>1 DEF WellPlaced
  <2>3. /\ o.id \in selected \cup {"http_ssl", "without_http_rewrite"}
        /\ other \in selected \cup {"http_ssl", "without_http_rewrite"}
    BY <1>1, <1>2, <1>4, <2>2 DEF FreeOptions
  <2>4. o.id \in selected /\ other \in selected => FALSE
    BY DEF ConflictFree
  <2>5. CASE o.id \in {"http_ssl", "without_http_rewrite"} /\ o.id \notin selected
    <3>1. other = "without_http"
      BY <2>1, <2>5 DEF WellPlaced
    <3>2. other \in selected
      BY <2>3, <3>1
    <3>3. o.id = "http_ssl" => "http_ssl" \in Dependencies(selected)
      BY <1>1, <1>4, <2>5
    <3>4. o.id = "without_http_rewrite" => rewrite
      BY <1>1, <1>2, <1>4, <2>5 DEF Engines
    <3>5. QED
      BY <1>3, <2>5, <3>1, <3>2, <3>3, <3>4
  <2>6. CASE other \in {"http_ssl", "without_http_rewrite"} /\ other \notin selected
    <3>1. o.id = "without_http"
      BY <2>1, <2>6 DEF WellPlaced
    <3>2. o.id \in selected
      BY <2>3, <3>1
    <3>3. other = "http_ssl" => "http_ssl" \in Dependencies(selected)
      BY <1>1, <1>4, <2>6
    <3>4. other = "without_http_rewrite" => rewrite
      BY <1>1, <1>2, <1>4, <2>6 DEF Engines
    <3>5. QED
      BY <1>3, <2>6, <3>1, <3>2, <3>3, <3>4
  <2>7. QED
    BY <2>3, <2>4, <2>5, <2>6
<1>5. ConflictFree(all)
  BY <1>4 DEF ConflictFree
<1> DEFINE new == Dependencies(selected)
                    \cup (IF rewrite THEN {"without_http_rewrite"} ELSE {})
<1>6. all = selected \cup new
  BY <1>1
<1>7. new \subseteq Engines \cup {"http_ssl", "without_http_rewrite"}
  BY <1>2
<1>8. Dependencies(all) \subseteq all
  <2> HIDE DEF new
  <2>1. Dependencies(all) = Dependencies(selected)
    BY <1>6, <1>7, DependenciesAreRoots
  <2>2. QED
    BY <1>1, <2>1
<1>9. RewriteFollows(all)
  BY <1>1, <1>2 DEF RewriteFollows, Engines
<1>10. QED
  BY <1>5, <1>6, <1>7, <1>8, <1>9

LEMMA ClosureKept ==
    ASSUME NEW selected, Dependencies(selected) \subseteq selected, RewriteFollows(selected)
    PROVE  RestoreClosure(selected) = selected
<1>1. Closure(selected) = selected
  BY DEF Closure
<1>2. QED
  BY <1>1 DEF RestoreClosure, RewriteFollows

(* The options of the arguments are those selected. *)
LEMMA ArgsAre ==
    ASSUME NEW req, NEW selected \in SUBSET OptionIds, NEW args, args = BuildArgs(req, selected)
    PROVE  /\ selected \subseteq args
           /\ args \subseteq selected \cup OtherNames
           /\ OtherNames \cap OptionIds = {}
           /\ "openssl" \in args => Wants(req, "openssl")
           /\ "pcre" \in args => "without_pcre" \notin selected
<1>1. OtherNames \cap OptionIds = {}
  BY CatalogWellPlaced DEF WellPlaced, OptionIds, Ids, Catalog
<1>2. Libraries = {"openssl", "pcre", "zlib"}
  BY DEF Libraries, DefaultDepLibraries
<1>3. GivenSources(req, selected) \subseteq Libraries
  BY DEF GivenSources
<1>4. {CompilerOptions[lib] : lib \in GivenSources(req, selected) \cap req.opts}
         \subseteq {"openssl-opt", "pcre-opt", "zlib-opt"}
  BY <1>2, <1>3 DEF CompilerOptions
<1>5. selected \subseteq args
  BY DEF BuildArgs
<1>6. args \subseteq selected \cup OtherNames
  BY <1>2, <1>3, <1>4 DEF BuildArgs, OtherNames, PathKeys
<1>7. {"openssl", "pcre"} \cap (OptionIds \cup PathKeys) = {}
  BY <1>1 DEF OtherNames, PathKeys
<1>8. {"openssl", "pcre"} \cap args \subseteq GivenSources(req, selected)
  BY <1>4, <1>7 DEF BuildArgs
<1>9. QED
  BY <1>1, <1>5, <1>6, <1>8 DEF GivenSources

LEMMA ArgsConsistent ==
    ASSUME NEW req, NEW selected \in SUBSET OptionIds, NEW args, args = BuildArgs(req, selected),
           ConflictFree(selected), Dependencies(selected) \subseteq selected
    PROVE  ArgsAreConsistent(args)
<1>1. selected \subseteq args /\ args \subseteq selected \cup OtherNames
  BY ArgsAre
<1>2. \A o \in Catalog : OtherNames \cap ({o.id} \cup Range(o.conflicts)) = {}
  BY CatalogWellPlaced DEF WellPlaced
<1>3. ConflictFree(args)
  BY <1>1, <1>2 DEF ConflictFree
<1>4. ASSUME NEW o \in Catalog, o.id \in args PROVE o.deps \subseteq args
  <2>1. o.id \in selected
    BY <1>1, <1>2, <1>4
  <2>2. o.deps \subseteq Dependencies(selected)
    BY <2>1 DEF Dependencies
  <2>3. QED
    BY <1>1, <2>2
<1>5. QED
  BY <1>3, <1>4 DEF ArgsAreConsistent

-----------------------------------------------------------------------------
(* The answer of ValidateAndBuildArgs. *)

(* What is promised of the arguments a binary is built with. *)
BuildsRequest(answer, req) ==
    /\ Accepts(answer)
    /\ ArgsAreConsistent(answer.args)
    /\ ArgsAreUsable(answer.args)
    /\ req.options \ Disabling \subseteq answer.args

(* With resolution every request of known options is accepted: what is      *)
(* left after the loop is free of conflicts, stays so when it is closed,    *)
(* and what the engine, TLS and PCRE stages established is still there.     *)
LEMMA ResolvedIsBuildable ==
    ASSUME NEW req, WellFormed(req), NEW mode, Resolving(mode),
           NEW answer, answer = ValidateAndBuildArgs(req, mode)
    PROVE  BuildsRequest(answer, req)
<1> DEFINE c == Completed(req, TRUE)
           r == ResolveConflicts(c, req, mode)
           all == RestoreClosure(r.selected)
           args == BuildArgs(req, all)
<1>1. /\ Sound(c, req)
      /\ RewriteFollows(c.selected)
      /\ Dependencies(c.selected) \subseteq c.selected
  BY CompletedSound DEF WellFormed
<1>2. r = Adjusted(req, mode)
  BY DEF Adjusted, Resolving
<1> HIDE DEF c
<1>3. Resolved(c, r, req) /\ ConflictFree(r.selected)
  BY LoopResolved
<1> HIDE DEF r
<1>4. /\ ConflictFree(all)
      /\ Dependencies(all) \subseteq all
      /\ RewriteFollows(all)
      /\ r.selected \subseteq all
      /\ all \subseteq r.selected \cup Engines \cup {"http_ssl", "without_http_rewrite"}
  BY <1>3, ClosureSound
<1>5. answer = [ok |-> TRUE, args |-> args, warnings |-> r.warnings, conflicts |-> r.conflicts]
  BY <1>2, <1>4 DEF ValidateAndBuildArgs, Resolving
<1> HIDE DEF all, args
<1>6. answer.ok /\ answer.args = args /\ answer.conflicts = {}
  BY <1>1, <1>3, <1>5 DEF Resolved, Sound
<1>7. all \in SUBSET OptionIds
  <2>1. r.selected \subseteq OptionIds
    BY <1>1, <1>3 DEF Resolved, Sound
  <2>2. QED
    BY <1>4, <2>1, CatalogWellPlaced DEF Engines
<1>8. ArgsAreConsistent(args)
  BY <1>4, <1>7, ArgsConsistent DEF args
<1>9. /\ all \subseteq args
      /\ args \subseteq all \cup OtherNames
      /\ OtherNames \cap OptionIds = {}
      /\ "openssl" \in args => Wants(req, "openssl")
      /\ "pcre" \in args => "without_pcre" \notin all
  BY <1>7, ArgsAre DEF args
<1>10. {"without_http", "without_pcre", "without_http_rewrite", "stream", "mail"} \cap OtherNames = {}
  BY DEF OtherNames, PathKeys
<1>11. "without_http" \in all => Engines \cap all # {}
  <2>1. SUFFICES ASSUME "without_http" \in all PROVE Engines \cap all # {}
    OBVIOUS
  <2>2. "without_http" \in c.selected
    BY <1>3, <1>4, <2>1 DEF Resolved, Engines
  <2>3. PICK e \in Engines : e \in c.selected
    BY <1>1, <2>2 DEF Sound, Serves
  <2>4. e \in r.selected
    BY <1>3, <2>3 DEF Resolved, FreeOptions
  <2>5. QED
    BY <1>4, <2>3, <2>4
<1>12. Wants(req, "openssl") => TlsModules \cap all # {}
  <2>1. SUFFICES ASSUME Wants(req, "openssl") PROVE TlsModules \cap r.selected # {}
    BY <1>4
  <2>2. CASE {"stream_ssl", "mail_ssl"} \cap c.selected # {}
    <3>1. {"stream_ssl", "mail_ssl"} \subseteq FreeOptions \cap TlsModules
      BY DEF FreeOptions, TlsModules
    <3>2. FreeOptions \cap c.selected \subseteq r.selected
      BY <1>3 DEF Resolved
    <3>3. QED
      BY <2>2, <3>1, <3>2
  <2>3. CASE "http_ssl" \in c.selected /\ "http_ssl" \in req.options
    <3>1. "http_ssl" \notin Disabling
      BY DisablingIs
    <3>2. "http_ssl" \in r.selected
      BY <1>3, <2>3, <3>1 DEF Resolved
    <3>3. QED
      BY <3>2 DEF TlsModules
  <2>4. CASE "http_ssl" \in c.selected /\ "without_http" \notin c.selected
    BY <1>3, <2>4 DEF Resolved, TlsModules
  <2>5. QED
    BY <1>1, <2>1, <2>2, <2>3, <2>4 DEF Sound, UsesTls
<1>13. ArgsAreUsable(args)
  <2>1. "without_http" \in args => {"stream", "mail"} \cap args # {}
    BY <1>9, <1>10, <1>11 DEF Engines
  <2>2. "without_pcre" \in args => /\ {"without_http", "without_http_rewrite"} \cap args # {}
                                   /\ "pcre" \notin args
    BY <1>4, <1>9, <1>10 DEF RewriteFollows
  <2>3. "openssl" \in args => {"http_ssl", "stream_ssl", "mail_ssl"} \cap args # {}
    BY <1>9, <1>12 DEF TlsModules
  <2>4. QED
    BY <2>1, <2>2, <2>3 DEF ArgsAreUsable
<1>14. req.options \ Disabling \subseteq args
  BY <1>1, <1>3, <1>4, <1>9 DEF Sound, KeepsFeatures, Resolved
<1>15. QED
  BY <1>6, <1>8, <1>13, <1>14 DEF BuildsRequest, Accepts

(* What was previewed without conflicts is what is built. *)
LEMMA PreviewAgrees ==
    ASSUME NEW req, NEW off, Reporting(off), NEW on, Resolving(on),
           NEW preview, preview = ValidateAndBuildArgs(req, off), Accepts(preview),
           NEW built, built = ValidateAndBuildArgs(req, on)
    PROVE  WellFormed(req) /\ built.args = preview.args
<1> DEFINE c == Completed(req, FALSE)
           r == ResolveConflicts(c, req, off)
           b == ResolveConflicts(c, req, on)
<1>1. r = Adjusted(req, off)
  BY DEF Adjusted, Reporting
<1>2. WellFormed(req)
  BY DEF Accepts, ValidateAndBuildArgs, Failed
<1>3. preview = [ok |-> TRUE, args |-> BuildArgs(req, r.selected),
                warnings |-> r.warnings, conflicts |-> r.conflicts]
  BY <1>1, <1>2 DEF ValidateAndBuildArgs, Reporting
<1>4. r.conflicts = {} /\ preview.args = BuildArgs(req, r.selected)
  <2> HIDE DEF r
  <2>1. preview.conflicts = r.conflicts /\ preview.args = BuildArgs(req, r.selected)
    BY <1>3
  <2>2. preview.conflicts = {}
    BY DEF Accepts
  <2>3. QED
    BY <2>1, <2>2
<1> HIDE DEF c
<1>5. r.selected = c.selected /\ c.conflicts = {} /\ ConflictFree(c.selected)
  BY <1>4, LoopReported
<1>6. c = Completed(req, TRUE)
  BY <1>5, CompletedAgree DEF c
<1>7. /\ RewriteFollows(c.selected)
      /\ Dependencies(c.selected) \subseteq c.selected
  BY <1>2, <1>6, CompletedSound DEF WellFormed
<1>8. b = Adjusted(req, on)
  BY <1>6 DEF Adjusted, Resolving
<1>9. b.selected = c.selected
  <2> HIDE DEF b
  <2>1. Resolved(c, b, req)
    BY LoopResolved DEF b
  <2>2. QED
    BY <1>5, <2>1 DEF Resolved
<1>10. RestoreClosure(b.selected) = c.selected
  BY <1>7, <1>9, ClosureKept
<1> HIDE DEF b, r
<1>11. built.args = BuildArgs(req, c.selected)
  <2> DEFINE all == RestoreClosure(b.selected)
  <2>1. ConflictFree(all)
    BY <1>5, <1>10
  <2>2. built = [ok |-> TRUE, args |-> BuildArgs(req, all),
                 warnings |-> b.warnings, conflicts |-> b.conflicts]
    BY <1>2, <1>8, <2>1 DEF ValidateAndBuildArgs, Resolving
  <2>3. QED
    BY <1>10, <2>2
<1>12. QED
  BY <1>2, <1>4, <1>5, <1>11

-----------------------------------------------------------------------------
(* The life of a request. *)

Unasked == ValidateAndBuildArgs(request, FALSE)
Asked == ValidateAndBuildArgs(request, TRUE)

(* The inductive invariant: the preview is the answer without resolution;    *)
(* what is shown, queued and fetched is the version the request names, if it *)
(* names one, and no look-up after the first changes it; an admitted request *)
(* is of known options, and the job carries the answer it was admitted with  *)
(* until the worker replaced it by the resolved one; a rejected request or a *)
(* job that the worker gives up has a reason of its own.                     *)
VersionInv ==
    /\ shown # Failed => offered # NoVersion
    /\ request.version \notin Symbolic => {offered, version} \subseteq {NoVersion, request.version}
    /\ version \notin Symbolic
    /\ stage \in {"edited", "rejected", "refused"} => version = NoVersion
    /\ fetched \in {NoVersion, version}
    /\ stage \in {"fetching", "configured", "tested"} => fetched = version /\ version \in Releases
    /\ stage = "misconfigured" => version \notin Releases

AnswerInv ==
    /\ auto \in BOOLEAN
    /\ stage \in Stages
    /\ shown \in {Failed, Unasked}
    /\ stage \in {"edited", "rejected", "refused"} => job = Failed
    /\ stage = "rejected" => \/ request.target # Host
                             \/ request.version \notin Releases
                             \/ ~Accepts(IF auto THEN Asked ELSE Unasked)
    /\ stage \notin {"edited", "rejected", "refused"} =>
          /\ WellFormed(request)
          /\ job = Asked \/ (job = Unasked /\ Accepts(Unasked))
    /\ stage \in {"configured", "tested"} => job = Asked

RequestInv == VersionInv /\ AnswerInv

(* Whatever list is met, a release is found as itself, a version that is    *)
(* named is found as itself or not at all, and what is found is no name of  *)
(* the default (version.go:80).                                             *)
LEMMA VersionFound ==
    ASSUME NEW list \in Lists, NEW v
    PROVE  /\ v \in Releases => GetVersion(list, v) = v
           /\ v \notin Symbolic => GetVersion(list, v) \in {v, NoVersion}
           /\ GetVersion(list, v) \notin Symbolic
BY RequestAssumption DEF GetVersion

LEMMA AnswersAre ==
    ASSUME NEW req
    PROVE  /\ ~Accepts(Failed)
           /\ Accepts(ValidateAndBuildArgs(req, TRUE)) => WellFormed(req)
           /\ WellFormed(req) => BuildsRequest(ValidateAndBuildArgs(req, TRUE), req)
           /\ Accepts(ValidateAndBuildArgs(req, FALSE)) =>
                 /\ WellFormed(req)
                 /\ ValidateAndBuildArgs(req, TRUE).args = ValidateAndBuildArgs(req, FALSE).args
<1>1. ~Accepts(Failed)
  BY DEF Accepts, Failed
<1>2. \A mode : ~WellFormed(req) => ValidateAndBuildArgs(req, mode) = Failed
  BY DEF ValidateAndBuildArgs
<1> DEFINE on == ValidateAndBuildArgs(req, TRUE)
           off == ValidateAndBuildArgs(req, FALSE)
<1>3. Accepts(on) => WellFormed(req)
  BY <1>1, <1>2
<1>4. Resolving(TRUE) /\ Reporting(FALSE)
  BY DEF Resolving, Reporting
<1>5. WellFormed(req) => BuildsRequest(on, req)
  BY <1>4, ResolvedIsBuildable
<1>6. Accepts(off) => WellFormed(req) /\ on.args = off.args
  <2>1. ASSUME NEW a, Reporting(a), NEW b, Resolving(b), Accepts(ValidateAndBuildArgs(req, a))
        PROVE  /\ WellFormed(req)
               /\ ValidateAndBuildArgs(req, b).args = ValidateAndBuildArgs(req, a).args
    BY <2>1, PreviewAgrees
  <2>2. QED
    BY <1>4, <2>1
<1>7. QED
  BY <1>1, <1>3, <1>5, <1>6

LEMMA InitRequestInv == Init => RequestInv
BY RequestAssumption DEF Init, RequestInv, VersionInv, AnswerInv, Stages

LEMMA NextLibraryIs ==
    ASSUME ToPrepare # {}
    PROVE  NextLibrary \in Libraries /\ Wants(request, NextLibrary)
<1>1. ToPrepare \subseteq {"openssl", "pcre", "zlib"}
  BY DEF ToPrepare, Libraries, DefaultDepLibraries
<1>2. \E lib \in ToPrepare : \/ lib = "openssl"
                             \/ lib = "pcre" /\ "openssl" \notin ToPrepare
                             \/ lib = "zlib" /\ ToPrepare = {"zlib"}
  BY <1>1
<1>3. NextLibrary \in ToPrepare
  BY <1>2 DEF NextLibrary
<1>4. QED
  BY <1>3 DEF ToPrepare

(* After the source nothing the worker decides makes it give up: the        *)
(* libraries are known, the answer is no failure, and the smoke test uses    *)
(* what was built.                                                           *)
LEMMA WorkerAgrees ==
    ASSUME RequestInv, PrepareDep \/ Configure \/ BuildAndTest
    PROVE  /\ stage \in {"fetching", "configured"}
           /\ stage' \in {"fetching", "configured", "tested", "failed"}
           /\ UNCHANGED <<request, shown, offered, auto, version, fetched>>
           /\ job' = IF stage = "fetching" /\ stage' = "configured" THEN Asked ELSE job
           /\ stage = "configured" => stage' \in {"tested", "failed"}
           /\ stage = "fetching" => stage' # "tested"
<1>1. AnswerInv
  BY DEF RequestInv
<1>2. CASE PrepareDep
  <2>1. stage = "fetching" /\ UNCHANGED <<request, shown, offered, auto, version, fetched, job>>
    BY <1>2 DEF PrepareDep
  <2>2. ResolveDepSource(NextLibrary, request.source[NextLibrary])
    <3>1. NextLibrary \in Libraries /\ Wants(request, NextLibrary)
      BY <1>2, NextLibraryIs DEF PrepareDep
    <3>2. WellFormed(request)
      BY <1>1, <2>1 DEF AnswerInv
    <3>3. QED
      BY <3>1, <3>2 DEF WellFormed
  <2>3. stage' \in {"fetching", "failed"}
    BY <1>2, <2>1, <2>2 DEF PrepareDep, Goto
  <2>4. QED
    BY <2>1, <2>3
<1>3. CASE Configure
  <2>1. /\ stage = "fetching" /\ UNCHANGED <<request, shown, offered, auto, version, fetched>>
        /\ IF Asked.ok THEN stage' = "configured" /\ job' = Asked
                       ELSE stage' = "misconfigured" /\ job' = job
    BY <1>3 DEF Configure, Goto, Asked
  <2>2. Asked.ok
    BY <1>1, <2>1, AnswersAre DEF AnswerInv, Asked, BuildsRequest, Accepts
  <2>3. QED
    BY <2>1, <2>2
<1>4. CASE BuildAndTest
  <2>1. SmokeTestConfig \subseteq Understands
    BY DEF SmokeTestConfig, Understands
  <2>2. /\ stage = "configured" /\ stage' \in {"failed", "tested"}
        /\ UNCHANGED <<request, shown, offered, auto, version, fetched, job>>
    BY <1>4, <2>1 DEF BuildAndTest, Goto
  <2>3. QED
    BY <2>2
<1>5. QED
  BY <1>2, <1>3, <1>4

LEMMA NextVersionInv == RequestInv /\ [Next]_vars => VersionInv'
<1> SUFFICES ASSUME RequestInv, [Next]_vars PROVE VersionInv'
  OBVIOUS
<1>1. VersionInv
  BY DEF RequestInv
<1>2. CASE Preview
  <2>1. PICK list \in Lists : offered' = GetVersion(list, request.version)
    BY <1>2 DEF Preview
  <2>2. offered' # NoVersion /\ UNCHANGED <<request, stage, version, fetched>>
    BY <1>2 DEF Preview
  <2>3. QED
    BY <1>1, <2>1, <2>2, VersionFound DEF VersionInv
<1>3. CASE CreateJob
  <2>1. /\ stage = "edited"
        /\ UNCHANGED <<request, shown, offered, fetched>>
        /\ \/ stage' \in {"rejected", "refused"} /\ version' = version
           \/ /\ stage' = "queued"
              /\ \E list \in Lists : version' = GetVersion(list, request.version)
    BY <1>3 DEF CreateJob, Reject, Refuse, Enqueue, Goto
  <2>2. version = NoVersion /\ fetched = NoVersion
    BY <1>1, <2>1 DEF VersionInv
  <2>3. CASE stage' \in {"rejected", "refused"} /\ version' = version
    BY <1>1, <2>1, <2>2, <2>3 DEF VersionInv
  <2>4. CASE stage' = "queued" /\ \E list \in Lists : version' = GetVersion(list, request.version)
    BY <1>1, <2>1, <2>2, <2>4, VersionFound DEF VersionInv
  <2>5. QED
    BY <2>1, <2>3, <2>4
<1>4. CASE FetchSource
  <2>1. stage = "queued" /\ UNCHANGED <<request, shown, offered, version>>
    BY <1>4 DEF FetchSource
  <2>2. CASE stage' = "failed" /\ fetched' = fetched
    BY <1>1, <2>1, <2>2 DEF VersionInv
  <2>3. ASSUME NEW list \in Lists, NEW v, v = GetVersion(list, version),
               v \in Releases, stage' = "fetching", fetched' = v
        PROVE  VersionInv'
    <3>1. v = version
      BY <1>1, <2>3, VersionFound, RequestAssumption DEF VersionInv
    <3>2. QED
      BY <1>1, <2>1, <2>3, <3>1 DEF VersionInv
  <2>4. ASSUME NEW list \in Lists, NEW v, v = GetVersion(list, version),
               v \notin Releases, stage' = "misconfigured", fetched' = fetched
        PROVE  VersionInv'
    <3>1. version \notin Releases
      BY <2>4, VersionFound
    <3>2. QED
      BY <1>1, <2>1, <2>4, <3>1 DEF VersionInv
  <2>5. QED
    BY <1>4, <2>2, <2>3, <2>4 DEF FetchSource, Downloadable, Goto
<1>5. CASE PrepareDep \/ Configure \/ BuildAndTest
  BY <1>1, <1>5, WorkerAgrees DEF VersionInv
<1>6. CASE UNCHANGED vars
  BY <1>1, <1>6 DEF vars, VersionInv
<1>7. QED
  BY <1>2, <1>3, <1>4, <1>5, <1>6 DEF Next, Done

LEMMA NextAnswerInv == RequestInv /\ [Next]_vars => AnswerInv'
<1> SUFFICES ASSUME RequestInv, [Next]_vars PROVE AnswerInv'
  OBVIOUS
<1>1. AnswerInv
  BY DEF RequestInv
<1>2. CASE Preview
  <2>1. shown' = Unasked /\ UNCHANGED <<request, auto, stage, job>>
    BY <1>2 DEF Preview, Unasked
  <2>2. QED
    BY <1>1, <2>1 DEF AnswerInv, Asked, Unasked
<1>3. CASE CreateJob
  <2> DEFINE answer == ValidateAndBuildArgs(request, auto)
  <2>1. stage = "edited" /\ UNCHANGED <<request, shown, auto>>
    BY <1>3 DEF CreateJob
  <2>2. \/ /\ stage' = "rejected" /\ job' = job
           /\ \/ request.target # Host \/ ~Accepts(answer)
              \/ \E list \in Lists : GetVersion(list, request.version) = NoVersion
        \/ stage' = "refused" /\ job' = job
        \/ stage' = "queued" /\ job' = answer /\ Accepts(answer)
    BY <1>3 DEF CreateJob, Reject, Refuse, Enqueue, Goto
  <2>3. answer = IF auto THEN Asked ELSE Unasked
    <3>1. CASE auto = TRUE
      BY <3>1 DEF Asked
    <3>2. CASE auto = FALSE
      BY <3>2 DEF Unasked
    <3>3. QED
      BY <1>1, <3>1, <3>2 DEF AnswerInv
  <2> HIDE DEF answer
  <2>4. Asked' = Asked /\ Unasked' = Unasked
    BY <2>1 DEF Asked, Unasked
  <2>5. CASE stage' = "queued" /\ job' = answer /\ Accepts(answer)
    <3>1. WellFormed(request)
      BY <2>3, <2>5, AnswersAre DEF Asked, Unasked
    <3>2. job' = Asked \/ (job' = Unasked /\ Accepts(Unasked))
      BY <2>3, <2>5
    <3>3. QED
      BY <1>1, <2>1, <2>4, <2>5, <3>1, <3>2 DEF AnswerInv, Stages
  <2>6. CASE stage' = "refused" /\ job' = job
    BY <1>1, <2>1, <2>4, <2>6 DEF AnswerInv, Stages
  <2>7. ASSUME stage' = "rejected", job' = job,
               \/ request.target # Host \/ ~Accepts(answer)
               \/ \E list \in Lists : GetVersion(list, request.version) = NoVersion
        PROVE  AnswerInv'
    <3>1. request.target # Host \/ ~Accepts(answer) \/ request.version \notin Releases
      BY <2>7, VersionFound, RequestAssumption
    <3>2. QED
      BY <1>1, <2>1, <2>3, <2>4, <2>7, <3>1 DEF AnswerInv, Stages
  <2>8. QED
    BY <2>2, <2>5, <2>6, <2>7
<1>4. CASE FetchSource
  <2>1. /\ stage = "queued" /\ stage' \in {"fetching", "failed", "misconfigured"}
        /\ UNCHANGED <<request, shown, auto, job>>
    BY <1>4 DEF FetchSource, Goto
  <2>2. QED
    BY <1>1, <2>1 DEF AnswerInv, Stages, Asked, Unasked
<1>5. CASE PrepareDep \/ Configure \/ BuildAndTest
  <2>1. Asked' = Asked /\ Unasked' = Unasked
    BY <1>5, WorkerAgrees DEF Asked, Unasked
  <2>2. QED
    BY <1>1, <1>5, <2>1, WorkerAgrees DEF AnswerInv, Stages
<1>6. CASE UNCHANGED vars
  BY <1>1, <1>6 DEF vars, AnswerInv, Asked, Unasked
<1>7. QED
  BY <1>2, <1>3, <1>4, <1>5, <1>6 DEF Next, Done

(* The preview, the admission and the worker keep to the invariant          *)
(* (handler.go:119, manager.go:118, executor.go:76, 187): the version of a   *)
(* job is settled once, its answer is replaced by the resolved one only, and *)
(* the worker gives it up for a version that is no release only.             *)
THEOREM RequestInvHolds == Spec => []RequestInv
<1>1. RequestInv /\ [Next]_vars => RequestInv'
  BY NextVersionInv, NextAnswerInv DEF RequestInv
<1>2. QED
  BY <1>1, InitRequestInv, PTL DEF Spec

(* For every request and whatever lists are met: what the preview showed    *)
(* without conflicts is rejected only for its platform or a version that is  *)
(* no release, and given up by the worker only for such a version; its       *)
(* arguments are those that the worker configures nginx with, although both  *)
(* validate again, and a version that the request named is the one that is   *)
(* built (handler.go:119, manager.go:118, executor.go:76, 187).              *)
THEOREM PreviewBuilt == Spec => []PreviewIsBuilt
<1>1. RequestInv => PreviewIsBuilt
  <2> SUFFICES ASSUME RequestInv, Accepts(shown) PROVE PreviewIsBuilt
    BY DEF PreviewIsBuilt
  <2>1. VersionInv /\ AnswerInv
    BY DEF RequestInv
  <2>2. shown = Unasked /\ Accepts(Unasked) /\ shown # Failed
    BY <2>1, AnswersAre DEF AnswerInv
  <2>3. WellFormed(request) /\ Asked.args = Unasked.args
    BY <2>2, AnswersAre DEF Asked, Unasked
  <2>4. Accepts(Asked)
    BY <2>3, AnswersAre DEF Asked, BuildsRequest
  <2>5. stage = "rejected" => request.target # Host \/ request.version \notin Releases
    BY <2>1, <2>2, <2>4 DEF AnswerInv
  <2>6. ASSUME job.ok PROVE job.args = shown.args
    <3>1. job # Failed
      BY <2>6 DEF Failed
    <3>2. job = Asked \/ job = Unasked
      BY <2>1, <3>1 DEF AnswerInv
    <3>3. QED
      BY <2>2, <2>3, <3>2
  <2>7. /\ stage = "misconfigured" => version \notin Releases
        /\ request.version \notin Symbolic => {version, fetched} \subseteq {NoVersion, offered}
    BY <2>1, <2>2 DEF VersionInv
  <2>8. QED
    BY <2>5, <2>6, <2>7 DEF PreviewIsBuilt
<1>2. QED
  BY <1>1, RequestInvHolds, PTL

(* For every request and whatever lists are met: an admitted request of a   *)
(* release is never given up for what the service made of it, its version is *)
(* the one that was admitted, its arguments are consistent and usable and    *)
(* keep every feature that was asked for; with resolution only requests of   *)
(* unknown options (options.go:577), for other platforms (manager.go:118) or *)
(* of versions that are no releases (128) are rejected.                      *)
THEOREM ArgsBuildable == Spec => []BuildableArgs
<1>1. RequestInv => BuildableArgs
  <2> SUFFICES ASSUME RequestInv PROVE BuildableArgs
    OBVIOUS
  <2>1. VersionInv /\ AnswerInv
    BY DEF RequestInv
  <2>2. stage = "misconfigured" => version \notin Releases
    BY <2>1 DEF VersionInv
  <2>3. stage = "rejected" /\ auto =>
           ~WellFormed(request) \/ request.target # Host \/ request.version \notin Releases
    BY <2>1, AnswersAre DEF AnswerInv, Asked, BuildsRequest
  <2>4. ASSUME stage \in {"configured", "tested"}
        PROVE  /\ fetched = version
               /\ ArgsAreConsistent(job.args)
               /\ ArgsAreUsable(job.args)
               /\ request.options \ Disabling \subseteq job.args
    <3>1. fetched = version
      BY <2>1, <2>4 DEF VersionInv
    <3>2. job = Asked /\ WellFormed(request)
      BY <2>1, <2>4 DEF AnswerInv
    <3>3. QED
      BY <3>1, <3>2, AnswersAre DEF Asked, BuildsRequest
  <2>5. QED
    BY <2>2, <2>3, <2>4 DEF BuildableArgs
<1>2. QED
  BY <1>1, RequestInvHolds, PTL
=============================================================================
