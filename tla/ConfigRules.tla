----------------------------- MODULE ConfigRules -----------------------------
(***************************************************************************)
(* GatewayConfig and its `resolve` (config/mod.rs): the settings a document *)
(* carries, and which of them a gateway refuses to start with.             *)
(*                                                                         *)
(* An optional setting is a set with at most one element, a list whose     *)
(* order matters is a sequence.  Durations are numbers of ticks, `Second`  *)
(* of them a second; sizes are numbers of blocks.  Names are strings, and  *)
(* a header name carries the spelling the document gave it.                *)
(***************************************************************************)
EXTENDS Naturals, Sequences

Second == 2
MaxMembersLimit == 4
MinClientKeyLen == 3
MaxPermits == 8

Option(S) == {T \in SUBSET S : \A x, y \in T : x = y}

-----------------------------------------------------------------------------
(* The sections of a document, as far as `resolve` looks at them.          *)

\* A header name as written: as it will be compared, in upper case, or padded.
Spelling == [name: {"x-client-key", "x-client-id", "x-user", "x-inject", "cookie", "not a name"},
             spelt: {"lower", "upper", "padded"}]

SharedCountersConfig ==
    [url: {"redis://host", "redis://", "http://host"}, sync: Nat, timeout: Nat,
     max_keys_per_sync: Nat]

Timeouts ==
    [request_total: Option(Nat), extension: Nat, extension_chain: Nat,
     connect: Nat, downstream_read: Nat]

DiscoveryConfig == [interval: Nat, max_members: Nat]
CircuitBreakerConfig == [failures: Nat, successes_to_close: Nat, max_trials: Nat]

\* An upstream's entry: a URL, or a mapping with `url`, `targets`, or both.
UpstreamEntry ==
    [url: Option({"http://host", "", "http://"}),
     targets: Seq([url: {"http://host", "", "http://"}, weight: Nat]),
     health_path: {"none", "valid", "invalid"},
     discovery: Option(DiscoveryConfig), circuit_breaker: Option(CircuitBreakerConfig)]

JwtConfig ==
    [issuer: {"", "a", "b"}, audience: SUBSET {"api"},
     algorithms: SUBSET {"RS256", "ES256", "HS256", "none"}]

ClientKeysConfig ==
    [header: Spelling, forward_as: Option(Spelling),
     keys: Seq([id: {"mobile", "web", "bad id"}, secret: {"k1", "k2"}, length: Nat,
                padded: BOOLEAN]),
     exempt: SUBSET {"path", "", "not canonical"},
     exempt_groups: SUBSET {"public", "optional", "authenticated", "machine", "other"}]

AuthConfig ==
    [jwt: Seq(JwtConfig), firebase: Option(Seq({"", "a", "p"})),
     client_keys: Option(ClientKeysConfig), token_cookies: Seq({"session", "id", "bad;name"}),
     cookie_protection: Option(SUBSET {"https://app", "https://*.app", "*"})]

CorsConfig == [origins: SUBSET {"*", "https://app", "https://*.app", "app"}, credentials: BOOLEAN]
CacheConfig == [max_object_size: Nat, max_inflight_fill: Nat]
ForwardConfig == [trusted_proxies: Nat, trusted_proxy_ips: SUBSET {"10.0.0.0/8", "ingress"}]

\* Who writes which header to the upstream.
HeaderWriters == {"identity", "claims", "token", "inject", "inject_machine", "machine"}

\* The routes in the document, by what a start-up asks of them.
RoutesConfig ==
    [inline: BOOLEAN, valid: BOOLEAN, extensions: SUBSET {"audit", "typo"},
     shared_limit: {"none", "approximate", "exact"}]

GatewayConfig ==
    [default_rate: Option(Nat), shared_counters: Option(SharedCountersConfig),
     timeouts: Timeouts, extension_inflight: Option(Nat), forward: ForwardConfig,
     upstream: UpstreamEntry, auth: AuthConfig, writes: [HeaderWriters -> SUBSET Spelling],
     rejects: SUBSET Spelling, mounts: SUBSET {"/", "/api"}, routes: RoutesConfig,
     cache: Option(CacheConfig), cors: Option(CorsConfig), sample_ratio: Option(Nat),
     internal_listen: BOOLEAN]

-----------------------------------------------------------------------------
(* Reading an entry.                                                       *)

\* UpstreamConfig::deserialize: one of `url` and `targets`.
UpstreamParses(u) == (u.url = {}) # (u.targets = <<>>)

Targets(u) ==
    IF u.url = {} THEN u.targets
    ELSE <<[url |-> CHOOSE url \in u.url : TRUE, weight |-> 1]>>

\* UpstreamConfig::is_pool.
IsPool(u) == Len(Targets(u)) > 1 \/ u.health_path # "none" \/ u.discovery # {}

\* parse_algorithm: public-key algorithms only.
ParseAlgorithm(name) == name \in {"RS256", "ES256"}

\* The projects that remain once blank ones are dropped, by their place in the list.
FirebaseProjects(auth) ==
    UNION {{[by |-> "firebase", at |-> i, issuer |-> ids[i]] :
               i \in {j \in DOMAIN ids : ids[j] # ""}} : ids \in auth.firebase}

-----------------------------------------------------------------------------
(* resolve, a group of checks at a time.                                   *)

DefaultsUsable(c) == \A requests \in c.default_rate : requests > 0

\* Including normalize_url.
SharedCountersUsable(c) ==
    \A s \in c.shared_counters :
        /\ s.url = "redis://host"
        /\ s.sync > 0 /\ s.timeout > 0 /\ s.max_keys_per_sync > 0

TimeoutsUsable(c) ==
    /\ \A d \in c.timeouts.request_total : d > 0
    /\ c.timeouts.extension > 0
    /\ c.timeouts.extension <= c.timeouts.extension_chain
    /\ \A n \in c.extension_inflight : n \in 1..MaxPermits
    /\ c.timeouts.connect > 0 /\ c.timeouts.downstream_read > 0

\* Hops are believed only from listed peers.
ForwardUsable(c) ==
    /\ "ingress" \notin c.forward.trusted_proxy_ips
    /\ c.forward.trusted_proxies > 0 => c.forward.trusted_proxy_ips # {}

UpstreamUsable(c) ==
    /\ \A i \in DOMAIN Targets(c.upstream) :
          /\ Targets(c.upstream)[i].url = "http://host"
          /\ Targets(c.upstream)[i].weight > 0
    /\ \A d \in c.upstream.discovery :
          /\ d.interval >= Second
          /\ d.max_members \in 1..MaxMembersLimit

BreakerUsable(c) ==
    \A b \in c.upstream.circuit_breaker :
        b.failures > 0 /\ b.successes_to_close > 0 /\ b.max_trials > 0

\* validate_token_cookies and the checks of auth.jwt and auth.firebase.
VerifiersUsable(c) ==
    /\ c.auth.firebase # {} => FirebaseProjects(c.auth) # {}
    /\ \A i \in DOMAIN c.auth.jwt :
          /\ c.auth.jwt[i].issuer # ""
          /\ c.auth.jwt[i].audience # {}
          /\ \A name \in c.auth.jwt[i].algorithms : ParseAlgorithm(name)

TokenCookiesUsable(auth) ==
    auth.token_cookies # <<>> =>
        /\ auth.jwt # <<>> \/ auth.firebase # {}
        /\ \A i \in DOMAIN auth.token_cookies : auth.token_cookies[i] # "bad;name"
        /\ \A i, j \in DOMAIN auth.token_cookies :
              auth.token_cookies[i] = auth.token_cookies[j] => i = j

\* Including CookieProtection::compile.
CookieProtectionUsable(auth) ==
    \A origins \in auth.cookie_protection :
        /\ auth.token_cookies # <<>>
        /\ origins # {} /\ origins \subseteq {"https://app"}

\* Cors::compile.
CorsUsable(c) ==
    \A cors \in c.cors :
        /\ cors.origins # {} /\ "app" \notin cors.origins
        /\ ~ ("*" \in cors.origins /\ cors.credentials)

CacheUsable(c) == \A cache \in c.cache : cache.max_object_size <= cache.max_inflight_fill

ReservedClientKeyHeaders == {"cookie"}

\* Faulty variant: the names as the document spells them.
GatewayOwnedHeadersAsWritten(c) ==
    {IF h.spelt = "lower" THEN h.name ELSE "another name" :
        h \in UNION {c.writes[w] : w \in HeaderWriters}}

\* gateway_owned_headers, trimmed and in lower case.
GatewayOwnedHeaders(c) == {h.name : h \in UNION {c.writes[w] : w \in HeaderWriters}}

\* The header_name closure of resolve_client_keys.
HeaderNameUsable(c, h) ==
    /\ h.name # "not a name"
    /\ h.name \notin ReservedClientKeyHeaders
    /\ h.name \notin GatewayOwnedHeaders(c)

\* One turn of its loop over the keys.
ClientKeyUsable(keys, i) ==
    /\ keys[i].id # "bad id"
    /\ ~keys[i].padded
    /\ keys[i].length >= MinClientKeyLen
    /\ \A j \in 1..(i - 1) : keys[j].secret # keys[i].secret

\* resolve_client_keys.
ClientKeysUsable(c) ==
    \A ck \in c.auth.client_keys :
        /\ HeaderNameUsable(c, ck.header)
        /\ ~ \E h \in c.rejects : h.name = ck.header.name /\ h.spelt # "padded"
        /\ \A h \in ck.forward_as : HeaderNameUsable(c, h) /\ h.name # ck.header.name
        /\ ck.keys # <<>>
        /\ \A i \in DOMAIN ck.keys : ClientKeyUsable(ck.keys, i)
        /\ ck.exempt \subseteq {"path"}
        /\ ck.exempt_groups \subseteq {"public", "optional", "authenticated"}

\* One place for the routes.
RoutesPlaced(c, file) == c.routes.inline # file

\* GatewayConfig::resolve; `file` says whether routes.file is set.
Resolves(c, file) ==
    /\ DefaultsUsable(c) /\ SharedCountersUsable(c) /\ TimeoutsUsable(c)
    /\ ForwardUsable(c) /\ UpstreamUsable(c) /\ BreakerUsable(c)
    /\ VerifiersUsable(c) /\ TokenCookiesUsable(c.auth) /\ CookieProtectionUsable(c.auth)
    /\ ClientKeysUsable(c) /\ CorsUsable(c) /\ CacheUsable(c)
    /\ c.mounts # {}
    /\ RoutesPlaced(c, file)
    /\ \A percent \in c.sample_ratio : percent <= 100

-----------------------------------------------------------------------------
(* Runtime::run and IssuerRouter::register.                                *)

\* Who claims an issuer: Firebase once for each project, and every auth.jwt entry.
Claims(auth) ==
    FirebaseProjects(auth)
        \cup {[by |-> "jwt", at |-> i, issuer |-> auth.jwt[i].issuer] : i \in DOMAIN auth.jwt}

\* register refuses an issuer that already has a verifier.
IssuersApart(auth) == \A a, b \in Claims(auth) : a.issuer = b.issuer => a = b

=============================================================================
