------------------------------ MODULE Pipeline ------------------------------
(***************************************************************************)
(* One request through the gateway, src/crates/lagos-core/src/proxy.rs:    *)
(* request_filter (deny list, preflight, route, machine secret, rate       *)
(* limit, client key, token, rate limit by identity, bindings, header      *)
(* plan, extensions, cap key), the response cache, proxy_upstream_filter,  *)
(* the exchange and fail_to_proxy; with a route reload publishing new      *)
(* tables to the two listeners at any time and other requests filling and  *)
(* reading the same cache.                                                 *)
(*                                                                         *)
(* A step ends where the code awaits or reads something shared.  What the  *)
(* limiter, the caps and the breaker decide is modelled in RateWindow,     *)
(* SharedCounters and Admission, how a key is found in CertCache, and the  *)
(* rounds of the exchange in UpstreamAttempts: here each may decide        *)
(* either way.                                                             *)
(***************************************************************************)
EXTENDS Naturals, Sequences

CONSTANTS
    Requests,       \* requests in progress
    Arrivals,       \* what a client may send (see Request)
    TableIds, Content,  \* the route files a reload may find, and what they say
    Boot,           \* the one the gateway starts with
    MaxReloads,     \* bound: how many reloads are explored
    Paths, Methods, RouteIds,
    Upstreams,      \* the configured upstreams
    Identities,     \* subjects a valid token may name
    CorsOrigins, CorsMethods,  \* cors.origins, cors.methods
    CookieOrigins,  \* auth.cookie_protection.origins
    KeyExempt,      \* paths under auth.client_keys.exempt
    MachineSecret,  \* whether auth.machine is configured
    Verifier,       \* whether any token issuer is configured
    None            \* the absent Option

Listeners == {"public", "internal"}
Tiers == {"public", "optional", "required", "machine"}

\* A limit or cap: what it is keyed on and what a missing key means.
Quota == [key: {"none", "caller", "header", "identity"},
          missing: {"reject", "count", "skip"}]

\* RouteConfig.  `paths` are the canonical paths under its prefix and host.
Route == [id: RouteIds, paths: SUBSET Paths, methods: SUBSET Methods, auth: Tiers,
          upstream: STRING, limit: Quota, cap: Quota, client_key: BOOLEAN,
          bound: BOOLEAN, cache: BOOLEAN]

\* What a token turns out to be.
Tokens == Identities \cup {"forged", "foreign", "oversized"}

\* A request.  `kind` tells the ones refused before their path is looked up;
\* `tag` is the header a quota may be keyed on, `owner` the value a binding reads,
\* `claims` the identity header the client itself sent.
Request == [listener: Listeners,
            kind: {"plain", "health", "too_large", "reserved", "outside", "unsafe"},
            path: Paths, method: Methods, asks: Methods \cup {None},
            origin: {"app", "other", None}, secret: BOOLEAN,
            client_key: {"absent", "good", "bad"}, tag: {"good", "bad", None},
            authorization: {"absent", "basic", "repeated"} \cup Tokens,
            cookie: Tokens \cup {None},
            owner: Identities \cup {None}, claims: Identities \cup {None}]

\* A published table under its cache namespace, a header plan, a response of an
\* upstream as the cache may keep it, and a response a client gets.
Published == [table: TableIds, ns: Nat]
Plan == [removes: BOOLEAN, adds: Identities \cup {None}]
Shares == {"private", "personal", "shared", "by_identity"}
Entry == [key: Nat \X RouteIds \X Upstreams \X Paths \X Methods, share: Shares,
          sees: Identities \cup {None},
          credential: ({"absent", "basic", "repeated"} \cup Tokens) \X (Tokens \cup {None}),
          under: Listeners \X Published]
Response == [status: Nat, cors: CorsOrigins \cup {None}, content: Entry \cup {None}]

ASSUME PipelineConfig ==
    /\ Arrivals \subseteq Request
    /\ Content \in [TableIds -> [deny: SUBSET Paths, routes: Seq(Route)]]
    /\ Boot \in TableIds
    /\ MaxReloads \in Nat
    /\ None \notin Route \cup Request \cup Tokens \cup Methods \cup TableIds
    /\ None \notin Nat \cup Published \cup Entry \cup Response
    \* validate_table: a binding needs a tier that can prove an identity, and ids
    \* are unique across both listeners.
    /\ \A t \in TableIds : \A i, j \in DOMAIN Content[t].routes :
          /\ Content[t].routes[i].bound => Content[t].routes[i].auth \in {"optional", "required"}
          /\ Content[t].routes[i].id = Content[t].routes[j].id => i = j

VARIABLES
    served,    \* per listener: the published table and its cache namespace
    pending,   \* a table stored for the public listener, not yet the internal one
    stores,    \* how often a table was stored; names the namespaces
    cache,     \* the stored responses
    pc,
    req,
    snap,      \* the table a request loaded, and its namespace
    ident,     \* the verified identity
    plan,      \* the header plan, as far as it is about identity
    body,      \* the upstream's response being passed on
    answer,    \* the response the client got: status, CORS headers, content
    \* History variables.
    charged,   \* how often a limiter was asked
    seen       \* the tables published to its listener while it was in progress

vars == <<served, pending, stores, cache, pc, req, snap, ident, plan, body, answer,
          charged, seen>>

Init ==
    /\ served = [l \in Listeners |-> [table |-> Boot, ns |-> 0]]
    /\ pending = None
    /\ stores = 0
    /\ cache = {}
    /\ pc = [r \in Requests |-> "idle"]
    /\ req = [r \in Requests |-> None]
    /\ snap = [r \in Requests |-> None]
    /\ ident = [r \in Requests |-> None]
    /\ plan = [r \in Requests |-> None]
    /\ body = [r \in Requests |-> None]
    /\ answer = [r \in Requests |-> None]
    /\ charged = [r \in Requests |-> 0]
    /\ seen = [r \in Requests |-> {}]

-----------------------------------------------------------------------------
(***************************************************************************)
(* Policies                                                                *)
(***************************************************************************)

\* The earliest refusal of a list of checks <<condition, status>>, or None.
FirstOf(checks) ==
    LET hits == {i \in DOMAIN checks : checks[i][1]}
    IN  IF hits = {} THEN None ELSE checks[CHOOSE i \in hits : \A j \in hits : i <= j][2]

\* partition_by_listener: machine routes are served on the internal listener,
\* the others and the deny list on the public one.
OnListener(route, l) == route.auth = "machine" <=> l = "internal"

\* RouteTable::is_denied.
IsDenied(t, l, path) == l = "public" /\ path \in Content[t].deny

\* RouteTable::match_request: routes are tried in their order.
MatchRequest(t, l, path, method) ==
    LET routes == Content[t].routes
        hits == {i \in DOMAIN routes : /\ OnListener(routes[i], l)
                                       /\ path \in routes[i].paths
                                       /\ method \in routes[i].methods}
    IN  IF hits = {} THEN None ELSE routes[CHOOSE i \in hits : \A j \in hits : i <= j]

\* Cors::response: the origin's headers, decided before any refusal.
CorsResponse(q) == IF q.origin \in CorsOrigins THEN q.origin ELSE None

\* preflight_headers: the method asked for must be served and allowed.
IsPreflight(t, q) ==
    /\ q.method = "OPTIONS"
    /\ q.origin \in CorsOrigins
    /\ q.asks # None
    /\ MatchRequest(t, q.listener, q.path, q.asks) # None
    /\ q.asks \in CorsMethods

Verifies(route) == route.auth \in {"optional", "required"}

\* client_key_rule: on the public listener, unless the route or its path is exempt.
NeedsClientKey(route, q) ==
    /\ q.listener = "public"
    /\ route.auth # "machine"
    /\ route.client_key
    /\ q.path \notin KeyExempt

\* The bearer header, else the token cookie.
Bearer(q) == IF q.authorization \in Tokens THEN q.authorization ELSE q.cookie

ByCookie(q) == q.authorization \notin Tokens /\ q.cookie # None

\* CookieProtection::check.
CookieOriginAllowed(q) ==
    q.method \in {"GET", "HEAD", "OPTIONS", "TRACE"} \/ q.origin \in CookieOrigins

\* limit_key and admission_key: the request is counted, passes uncounted, or is
\* refused for its key.
LimitKey(q, subject, quota) ==
    CASE quota.key = "header" /\ q.tag = "bad" -> "refused"
      [] \/ quota.key = "caller"
         \/ quota.key = "header" /\ q.tag = "good"
         \/ quota.key = "identity" /\ subject # None -> "counted"
      [] OTHER -> CASE quota.missing = "reject" -> "refused"
                    [] quota.missing = "count" -> "counted"
                    [] OTHER -> "skipped"

\* ctx.client_authorized: any Authorization header, or a token cookie.
ClientAuthorized(q) == q.authorization # "absent" \/ q.cookie # None

\* policy::eligible, for a response that is private (or no-store, sets a cookie,
\* varies on everything), says nothing, or allows sharing.
Eligible(share, authorized) ==
    share # "private" /\ (authorized => share \in {"shared", "by_identity"})

\* request_cache_filter.
CacheEnabled(route, q) ==
    route.cache /\ q.method \in {"GET", "HEAD"} /\ q.cookie = None

-----------------------------------------------------------------------------
\* Faulty variant: the table is loaded again where it is used.
TableNow(r) == served[req[r].listener].table

\* The table of a request is the one it loaded.
TableOf(r) == snap[r].table

RouteOf(r) == MatchRequest(TableOf(r), req[r].listener, req[r].path, req[r].method)

\* Faulty variant: the namespace is that of the table published by now.
NamespaceNow(r) == served[req[r].listener].ns

Namespace(r) == snap[r].ns

\* cache_key_callback.
CacheKey(r) ==
    <<Namespace(r), RouteOf(r).id, RouteOf(r).upstream, req[r].path, req[r].method>>

\* upstream_request_filter: the identity header the upstream gets.
Sees(r) == IF plan[r].adds # None THEN plan[r].adds
           ELSE IF plan[r].removes THEN None ELSE req[r].claims

Goto(r, l) == pc' = [pc EXCEPT ![r] = l]

\* Write a response header; the body follows.
Respond(r, status, cors, content) ==
    /\ answer' = [answer EXCEPT ![r] = [status |-> status, cors |-> cors, content |-> content]]
    /\ Goto(r, "sent")

\* reject: the refusal carries the CORS headers resolved at the start.
Reject(r, status) == Respond(r, status, CorsResponse(req[r]), None)

shared == <<served, pending, stores, cache>>

-----------------------------------------------------------------------------
(***************************************************************************)
(* Reloads: publish_reload stores the public table, then the internal one, *)
(* each under a namespace of its own.                                      *)
(***************************************************************************)
Store(l, t) ==
    /\ served' = [served EXCEPT ![l] = [table |-> t, ns |-> stores + 1]]
    /\ stores' = stores + 1
    /\ seen' = [r \in Requests |->
                   IF pc[r] \notin {"idle", "done"} /\ req[r].listener = l
                   THEN seen[r] \cup {t} ELSE seen[r]]
    /\ UNCHANGED <<cache, pc, req, snap, ident, plan, body, answer, charged>>

PublishPublic ==
    /\ pending = None
    /\ stores < 2 * MaxReloads
    /\ \E t \in TableIds : Store("public", t) /\ pending' = t

PublishInternal ==
    /\ pending # None
    /\ Store("internal", pending)
    /\ pending' = None

-----------------------------------------------------------------------------
(***************************************************************************)
(* request_filter                                                          *)
(***************************************************************************)

\* What is refused before a path is looked up.
ReceiveRefusal(q) == FirstOf(<<
    <<q.kind = "too_large", 413>>,
    <<q.kind = "reserved" /\ q.listener = "public", 403>>,
    <<q.kind \in {"outside", "unsafe"}, 404>> >>)

\* Up to the table snapshot.  The health answer is sent without CORS headers.
Receive(r) ==
    /\ pc[r] = "idle"
    /\ \E q \in Arrivals :
          /\ req' = [req EXCEPT ![r] = q]
          /\ seen' = [seen EXCEPT ![r] = {served[q.listener].table}]
          /\ \/ /\ q.kind = "health"
                /\ Respond(r, 200, None, None)
                /\ UNCHANGED snap
             \/ /\ q.kind # "health" /\ ReceiveRefusal(q) # None
                /\ Respond(r, ReceiveRefusal(q), CorsResponse(q), None)
                /\ UNCHANGED snap
             \/ /\ q.kind # "health" /\ ReceiveRefusal(q) = None
                /\ snap' = [snap EXCEPT ![r] = served[q.listener]]
                /\ Goto(r, "deny")
                /\ UNCHANGED answer
    /\ UNCHANGED <<shared, ident, plan, body, charged>>

\* Faulty variant: the preflight is answered first.
PreflightFirst(r) ==
    /\ pc[r] = "deny"
    /\ \/ IsPreflight(TableOf(r), req[r]) /\ Reject(r, 204)
       \/ /\ ~IsPreflight(TableOf(r), req[r])
          /\ IsDenied(TableOf(r), req[r].listener, req[r].path)
          /\ Reject(r, 404)
       \/ /\ ~IsPreflight(TableOf(r), req[r])
          /\ ~IsDenied(TableOf(r), req[r].listener, req[r].path)
          /\ Goto(r, "match")
          /\ UNCHANGED answer
    /\ UNCHANGED <<shared, req, snap, ident, plan, body, charged, seen>>

\* The deny list answers like an unknown path.
DenyList(r) ==
    /\ pc[r] = "deny"
    /\ \/ IsDenied(TableOf(r), req[r].listener, req[r].path) /\ Reject(r, 404)
       \/ /\ ~IsDenied(TableOf(r), req[r].listener, req[r].path)
          /\ Goto(r, "match")
          /\ UNCHANGED answer
    /\ UNCHANGED <<shared, req, snap, ident, plan, body, charged, seen>>

\* Preflight, route, upstream, machine secret.
MatchRefusal(t, route, q) ==
    LET machine == route # None /\ route.auth = "machine"
    IN  FirstOf(<<
            <<IsPreflight(t, q), 204>>,
            <<route = None, 404>>,
            <<route # None /\ route.upstream \notin Upstreams, 503>>,
            <<machine /\ ~MachineSecret, 503>>,
            <<machine /\ ~q.secret, 404>> >>)

Match(r) ==
    /\ pc[r] = "match"
    /\ LET refusal == MatchRefusal(TableOf(r), RouteOf(r), req[r])
       IN  \/ refusal # None /\ Reject(r, refusal)
           \/ refusal = None /\ Goto(r, "limit") /\ UNCHANGED answer
    /\ UNCHANGED <<shared, req, snap, ident, plan, body, charged, seen>>

\* check_rate_limit, at most one of its two calls for a route.
CheckRateLimit(r, subject, next) ==
    LET key == LimitKey(req[r], subject, RouteOf(r).limit)
    IN  /\ charged' = [charged EXCEPT ![r] = IF key = "counted" THEN @ + 1 ELSE @]
        /\ \/ key = "refused" /\ Reject(r, 400)
           \/ key = "counted" /\ Reject(r, 429)
           \/ key # "refused" /\ Goto(r, next) /\ UNCHANGED answer

\* Faulty variant: the caller's limit is left to the second pass.
LimitAfterToken(r) ==
    /\ pc[r] = "limit"
    /\ Goto(r, "credential")
    /\ UNCHANGED <<shared, req, snap, ident, plan, body, answer, charged, seen>>

\* Rate limiting, part one: every key that needs no identity.
LimitCaller(r) ==
    /\ pc[r] = "limit"
    /\ \/ RouteOf(r).limit.key \in {"caller", "header"} /\ CheckRateLimit(r, None, "credential")
       \/ /\ RouteOf(r).limit.key \in {"none", "identity"}
          /\ Goto(r, "credential")
          /\ UNCHANGED <<answer, charged>>
    /\ UNCHANGED <<shared, req, snap, ident, plan, body, seen>>

\* Client key, then which credential is meant.
CredentialRefusal(route, q) ==
    LET token == Bearer(q)
    IN  FirstOf(<<
            <<NeedsClientKey(route, q) /\ q.client_key # "good", 401>>,
            <<Verifies(route) /\ q.authorization = "repeated", 401>>,
            <<Verifies(route) /\ ByCookie(q) /\ ~CookieOriginAllowed(q), 403>>,
            <<Verifies(route) /\ token = "oversized", 401>>,
            <<route.auth = "required" /\ token = None, 401>>,
            <<Verifies(route) /\ token # None /\ ~Verifier, 503>> >>)

Credential(r) ==
    /\ pc[r] = "credential"
    /\ LET route == RouteOf(r)
           refusal == CredentialRefusal(route, req[r])
       IN  \/ refusal # None /\ Reject(r, refusal)
           \/ /\ refusal = None
              /\ Goto(r, IF Verifies(route) /\ Bearer(req[r]) # None THEN "verify" ELSE "identity")
              /\ UNCHANGED answer
    /\ UNCHANGED <<shared, req, snap, ident, plan, body, charged, seen>>

\* verifier.verify: the keys may be unavailable for any token.
Verify(r) ==
    /\ pc[r] = "verify"
    /\ LET token == Bearer(req[r])
       IN  \/ /\ token \in Identities
              /\ ident' = [ident EXCEPT ![r] = token]
              /\ Goto(r, "identity")
              /\ UNCHANGED answer
           \/ token = "forged" /\ Reject(r, 401) /\ UNCHANGED ident
           \/ Reject(r, 503) /\ UNCHANGED ident
    /\ UNCHANGED <<shared, req, snap, plan, body, charged, seen>>

\* Rate limiting, part two: identity keys.
LimitIdentity(r) ==
    /\ pc[r] = "identity"
    /\ \/ RouteOf(r).limit.key = "identity" /\ CheckRateLimit(r, ident[r], "plan")
       \/ /\ RouteOf(r).limit.key # "identity"
          /\ Goto(r, "plan")
          /\ UNCHANGED <<answer, charged>>
    /\ UNCHANGED <<shared, req, snap, ident, plan, body, seen>>

\* Binding::permits: a value missing on either side refuses.
BindingPermits(r) == ident[r] # None /\ req[r].owner = ident[r]

\* Faulty variant: without an identity nothing is stripped.
IdentityPlanNoStrip(r) == [removes |-> ident[r] # None, adds |-> ident[r]]

\* identity::apply sets the header, which also removes the client's copy;
\* identity::strip_all removes it.
IdentityPlan(r) == [removes |-> TRUE, adds |-> ident[r]]

\* Ownership bindings and the header plan; a claim that is no header value is a
\* 401, a signature that fails a 503.
Describe(r) ==
    /\ pc[r] = "plan"
    /\ \/ RouteOf(r).bound /\ ~BindingPermits(r) /\ Reject(r, 403) /\ UNCHANGED plan
       \/ /\ RouteOf(r).bound => BindingPermits(r)
          /\ \/ /\ ident[r] # None
                /\ \E status \in {401, 503} : Reject(r, status)
                /\ UNCHANGED plan
             \/ /\ plan' = [plan EXCEPT ![r] = IdentityPlan(r)]
                /\ Goto(r, "extend")
                /\ UNCHANGED answer
    /\ UNCHANGED <<shared, req, snap, ident, body, charged, seen>>

\* run_chain passes, refuses or runs out of time; then the key of the cap.
Extend(r) ==
    /\ pc[r] = "extend"
    /\ LET cap == RouteOf(r).cap
           refused == cap.key # "none" /\ LimitKey(req[r], ident[r], cap) = "refused"
       IN  \/ \E status \in {403, 503} : Reject(r, status)
           \/ refused /\ Reject(r, 400)
           \/ ~refused /\ Goto(r, "lookup") /\ UNCHANGED answer
    /\ UNCHANGED <<shared, req, snap, ident, plan, body, charged, seen>>

-----------------------------------------------------------------------------
(***************************************************************************)
(* The cache, the exchange and the end of a request                        *)
(***************************************************************************)

\* cache_vary_filter: a response that varies on the identity header is found
\* by the value the upstream would see.
VarianceMatches(e, r) == e.share = "by_identity" => e.sees = Sees(r)

\* cache_hit_filter may force a miss; an entry may be gone.  A hit passes
\* response_filter, which adds this request's CORS headers.
Lookup(r) ==
    /\ pc[r] = "lookup"
    /\ \/ /\ CacheEnabled(RouteOf(r), req[r])
          /\ \E e \in cache :
                /\ e.key = CacheKey(r)
                /\ VarianceMatches(e, r)
                /\ Eligible(e.share, ClientAuthorized(req[r]))
                /\ Respond(r, 200, CorsResponse(req[r]), e)
       \/ Goto(r, "admit") /\ UNCHANGED answer
    /\ UNCHANGED <<shared, req, snap, ident, plan, body, charged, seen>>

\* proxy_upstream_filter: the cap or the breaker may shed the request.
Admit(r) ==
    /\ pc[r] = "admit"
    /\ \/ \E status \in {429, 503} : Reject(r, status)
       \/ Goto(r, "upstream") /\ UNCHANGED answer
    /\ UNCHANGED <<shared, req, snap, ident, plan, body, charged, seen>>

\* A response header arrives and passes response_filter.  The content records
\* for whom and under which table it was made.
UpstreamResponds(r) ==
    /\ pc[r] = "upstream"
    /\ \E share \in Shares :
          LET e == [key |-> CacheKey(r), share |-> share, sees |-> Sees(r),
                    credential |-> <<req[r].authorization, req[r].cookie>>,
                    under |-> <<req[r].listener, snap[r]>>]
          IN  /\ body' = [body EXCEPT ![r] = e]
              /\ Respond(r, 200, CorsResponse(req[r]), e)
    /\ UNCHANGED <<shared, req, snap, ident, plan, charged, seen>>

\* An entry keeps its place beside a new one only as another variant.
Beside(e, new) ==
    \/ e.key # new.key
    \/ e.share = "by_identity" /\ new.share = "by_identity" /\ e.sees # new.sees

\* The body is through.  response_cache_filter had decided about storing it.
Finish(r) ==
    /\ pc[r] = "sent"
    /\ Goto(r, "done")
    /\ cache' = IF /\ body[r] # None
                   /\ CacheEnabled(RouteOf(r), req[r])
                   /\ Eligible(body[r].share, ClientAuthorized(req[r]))
                THEN {e \in cache : Beside(e, body[r])} \cup {body[r]}
                ELSE cache
    /\ UNCHANGED <<served, pending, stores, req, snap, ident, plan, body, answer,
                   charged, seen>>

\* session.response_written().is_none()
NothingWritten(r) == answer[r] = None

\* fail_to_proxy, after a failed exchange or a response broken off.  It uses
\* `send`, which adds no CORS headers.
FailToProxy(r) ==
    /\ pc[r] \in {"upstream", "sent"}
    /\ \/ /\ NothingWritten(r)
          /\ \E status \in {413, 502, 504} :
                answer' = [answer EXCEPT ![r] =
                              [status |-> status, cors |-> None, content |-> None]]
       \/ ~NothingWritten(r) /\ UNCHANGED answer
    /\ Goto(r, "done")
    /\ UNCHANGED <<shared, req, snap, ident, plan, body, charged, seen>>

Step(r) ==
    \/ Receive(r) \/ DenyList(r) \/ Match(r) \/ LimitCaller(r) \/ Credential(r)
    \/ Verify(r) \/ LimitIdentity(r) \/ Describe(r) \/ Extend(r)
    \/ Lookup(r) \/ Admit(r) \/ UpstreamResponds(r) \/ Finish(r) \/ FailToProxy(r)

Next == PublishPublic \/ PublishInternal \/ \E r \in Requests : Step(r)

Spec == Init /\ [][Next]_vars

-----------------------------------------------------------------------------
(***************************************************************************)
(* Properties                                                              *)
(***************************************************************************)

Pc == {"idle", "deny", "match", "limit", "credential", "verify", "identity", "plan",
       "extend", "lookup", "admit", "upstream", "sent", "done"}

\* The shape of the state.
TypeOK ==
    /\ served \in [Listeners -> Published]
    /\ pending \in TableIds \cup {None}
    /\ stores \in Nat
    /\ cache \subseteq Entry
    /\ pc \in [Requests -> Pc]
    /\ req \in [Requests -> Request \cup {None}]
    /\ snap \in [Requests -> Published \cup {None}]
    /\ ident \in [Requests -> Identities \cup {None}]
    /\ plan \in [Requests -> Plan \cup {None}]
    /\ body \in [Requests -> Entry \cup {None}]
    /\ answer \in [Requests -> Response \cup {None}]
    /\ charged \in [Requests -> Nat]
    /\ seen \in [Requests -> SUBSET TableIds]

\* The request got through to the upstream, or to a stored response of it.
Reached(r) ==
    \/ pc[r] = "upstream"
    \/ answer[r] # None /\ answer[r].content # None

\* What table t says of request q, read off the routes and not off the pipeline.
Permits(t, q) ==
    LET route == MatchRequest(t, q.listener, q.path, q.method)
        proven == IF Verifies(route) THEN Bearer(q) ELSE None
    IN  /\ ~IsDenied(t, q.listener, q.path)
        /\ route # None
        /\ route.auth = "machine" => q.listener = "internal" /\ q.secret
        /\ route.auth = "required" => proven # None
        /\ proven # None => proven \in Identities
        /\ route.bound => proven # None /\ proven = q.owner
        /\ NeedsClientKey(route, q) => q.client_key = "good"
        /\ Verifies(route) /\ ByCookie(q) => CookieOriginAllowed(q)

(***************************************************************************)
(* "Snapshot the table once: a concurrent reload must not change the       *)
(* answer between the deny check and the allowlist match."  Whatever       *)
(* reloads happen meanwhile, a request reaches the upstream or a stored    *)
(* response only if one single table, published while it was in progress,  *)
(* permits all of it: path, tier, token, owner, client key and origin.     *)
(***************************************************************************)
OneTablePermits ==
    \A r \in Requests : Reached(r) => \E t \in seen[r] : Permits(t, req[r])

(***************************************************************************)
(* base_header_plan, apply, strip_all: "an unauthenticated request can     *)
(* never carry identity".  The upstream sees exactly the identity that the *)
(* route's tier verified from the credential the client meant, and nothing *)
(* the client claimed itself; a bad token is never taken for no token.     *)
(***************************************************************************)
IdentityHonest ==
    \A r \in Requests : Reached(r) =>
        Sees(r) = (IF ~Verifies(RouteOf(r)) THEN None
                   ELSE IF req[r].authorization \in Tokens THEN req[r].authorization
                   ELSE req[r].cookie)

(***************************************************************************)
(* The two passes of check_rate_limit charge a request exactly once when   *)
(* the route's limit has a key for it, and "an unauthenticated flood of    *)
(* well-formed, badly-signed tokens" is charged before any signature is    *)
(* checked.                                                                *)
(***************************************************************************)
ChargedOnce ==
    \A r \in Requests :
        /\ charged[r] <= 1
        /\ pc[r] = "verify" =>
              (RouteOf(r).limit.key = "caller" => charged[r] = 1)
        /\ Reached(r) /\ RouteOf(r).limit.key # "none" =>
              (LimitKey(req[r], ident[r], RouteOf(r).limit) = "counted" => charged[r] = 1)

(***************************************************************************)
(* "A deny-listed path and an unknown one both answer 404 precisely so the *)
(* deny-list cannot be enumerated": two requests that differ only in their *)
(* path, one denied and one that no route serves for any method, get the   *)
(* same answer, CORS headers included, though the denied path may lie      *)
(* under a route.                                                          *)
(***************************************************************************)
Hidden(r) ==
    /\ pc[r] = "done"
    /\ snap[r] # None
    /\ IsDenied(snap[r].table, req[r].listener, req[r].path)

Unknown(r) ==
    /\ pc[r] = "done"
    /\ snap[r] # None
    /\ \A m \in Methods :
          MatchRequest(snap[r].table, req[r].listener, req[r].path, m) = None

DenyListHidden ==
    \A r, u \in Requests :
        Hidden(r) /\ Unknown(u) /\ [req[u] EXCEPT !.path = req[r].path] = req[r] =>
            answer[r] = answer[u]

(* What a client gets was made under the very table, and on the listener,  *)
(* that admitted it, although it may be stored long after a reload.        *)
CacheKeepsTable(r) ==
    answer[r].content.under = <<req[r].listener, snap[r]>>

(* It was made for the same credential unless the upstream allowed sharing *)
(* and for the same identity when it varies on it.                         *)
CacheKeepsCredential(r) ==
    LET e == answer[r].content
    IN  /\ e.share \in {"private", "personal"} =>
              e.credential = <<req[r].authorization, req[r].cookie>>
        /\ e.share = "by_identity" => e.sees = Sees(r)

(***************************************************************************)
(* request_cache_filter: "a cached response is never served to a request   *)
(* that would otherwise have been refused", and policy::eligible on both   *)
(* sides of the cache: a response is never one customer's data served to   *)
(* another.                                                                *)
(***************************************************************************)
CacheStaysHome ==
    \A r \in Requests : answer[r] # None /\ answer[r].content # None =>
        CacheKeepsTable(r) /\ CacheKeepsCredential(r)

=============================================================================
