----------------------------- MODULE RouteRules -----------------------------
(***************************************************************************)
(* What the gateway does with a request up to the choice of its route and  *)
(* of the path sent upstream (proxy.rs), and what the command line says it *)
(* does: lagos test and lagos diff (cli/policy.rs), lagos explain (cli.rs).*)
(* The gateway and the tools share RouteTable and differ in the code       *)
(* around it.  Preflights, credentials, limits and everything later is in  *)
(* Pipeline.                                                               *)
(***************************************************************************)
EXTENDS RouteTable

CONSTANTS
    Files,       \* route files: the internal prefixes and the routes in order
    Revisions,   \* the files lagos diff compares with
    Queries,     \* requests: listener, raw path, Host header, method
    Mounts,      \* server.mounts
    HealthPath,  \* server.health_path
    BasePath     \* the path in the URL of each upstream

Listeners == {"public", "internal"}

ASSUME RulesConfig ==
    /\ IndexAbove \in Nat
    /\ Mounts \in Seq(Seq(STRING)) /\ Mounts # <<>>
    /\ Upstreams = DOMAIN BasePath
    /\ \A u \in Upstreams :
          LET base == BasePath[u]
          IN  /\ base \in Seq(STRING) /\ Trim(base) = base
              /\ \A i \in DOMAIN base : base[i] # "?"
    /\ Revisions \subseteq Files
    /\ None \notin Files /\ None \notin Seq(Raw)
    /\ \A f \in Files :
          /\ f.routes \in Seq(RouteInput)
          /\ \A i \in DOMAIN f.routes : Named(Inherit(f.routes[i])) # None
    /\ \A q \in Queries :
          /\ q.listener \in Listeners
          /\ q.path \in Seq(Raw) /\ BeforeQuery(q.path) = q.path
          /\ q.host \in {None} \cup [name: Seq(STRING), port: BOOLEAN]

VARIABLES
    file,    \* the file in use, None until the gateway is up
    tables,  \* the table of each listener
    asked,   \* the request
    served,  \* what the gateway did with it
    told     \* what a tool says

rulesVars == <<file, tables, asked, served, told>>

RulesInit ==
    /\ file = None
    /\ tables = None
    /\ asked = None
    /\ served = None
    /\ told = None

-----------------------------------------------------------------------------

(* GatewayConfig::resolve: the mounts, longest first. *)
BasePaths ==
    LET trimmed == [i \in DOMAIN Mounts |-> Trim(Mounts[i])]
        Before(i, j) == \/ Len(trimmed[i]) > Len(trimmed[j])
                        \/ Len(trimmed[i]) = Len(trimmed[j]) /\ i < j
        order == InOrder(DOMAIN Mounts, Before)
    IN  [k \in DOMAIN order |-> trimmed[order[k]]]

Slash == [char |-> "/", layers |-> 0]

TrimStart(raw) ==
    LET kept == {i \in DOMAIN raw : raw[i] # Slash}
    IN  IF kept = {} THEN <<>> ELSE SubSeq(raw, Min(kept), Len(raw))

(* Proxy::strip_base, on the path as the client wrote it. *)
StripBase(raw) ==
    LET path == TrimStart(raw)
        Rest(base) == SubSeq(path, Len(base) + 1, Len(path))
        fits == {i \in DOMAIN BasePaths :
                    \/ BasePaths[i] = <<>>
                    \/ /\ IsPrefix(Plain(BasePaths[i]), path)
                       /\ \/ Rest(BasePaths[i]) = <<>>
                          \/ Head(Rest(BasePaths[i])) = Slash}
        base == BasePaths[Min(fits)]
    IN  IF fits = {} THEN None
        ELSE IF base = <<>> THEN path
        ELSE IF Rest(base) = <<>> THEN <<>> ELSE Tail(Rest(base))

(* strip_mount of cli.rs: the first mount for which removing it and the    *)
(* slash after it succeeds.                                                *)
StripMount(raw) ==
    LET path == TrimStart(raw)
        Removed(base) ==
            IF base = <<>> THEN path
            ELSE IF ~ IsPrefix(Plain(base), path) THEN None
            ELSE IF Len(path) = Len(base) THEN <<>>
            ELSE IF path[Len(base) + 1] = Slash
            THEN SubSeq(path, Len(base) + 2, Len(path)) ELSE None
        i == SelectInSeq(BasePaths, LAMBDA base : Removed(base) # None)
    IN  IF i = 0 THEN None ELSE Removed(BasePaths[i])

(* upstream_uri, without the query. *)
UpstreamUri(base, path) ==
    (IF base = <<>> THEN <<>> ELSE <<Slash>> \o Plain(base)) \o
    (IF path = <<>> /\ base # <<>> THEN <<>>
     ELSE <<Slash>> \o EncodePathSegments(path))

Refused(result) == [result |-> result, route |-> None, path |-> None,
                    key |-> None]

(* The client key check is made on the public listener only. *)
KeyOn(listener, r, path) ==
    IF listener = "internal" THEN "off" ELSE ClientKeyRule(r, path)

(* request_filter, once the route is known. *)
Forward(q, path, r) ==
    IF r = None THEN Refused("no_route")
    ELSE IF r.upstream \notin Upstreams THEN Refused("no_upstream")
    ELSE IF r.auth = "machine" /\ ~ MachineSecret
    THEN Refused("no_machine_secret")
    ELSE [result |-> "route", route |-> r,
          path |-> UpstreamUri(BasePath[r.upstream], UpstreamPath(r, path)),
          key |-> KeyOn(q.listener, r, path)]

(* request_filter, from the canonical path to the route. *)
Allow(table, q, path) ==
    IF path = None THEN Refused("unsafe_path")
    ELSE IF IsDenied(table, path) THEN Refused("denied")
    ELSE Forward(q, path, MatchRequest(table, q.host, path, q.method))

(* request_filter, from the health check to the upstream of the route. *)
Gateway(ts, q) ==
    IF q.path = Plain(HealthPath) THEN Refused("health")
    ELSE IF StripBase(q.path) = None THEN Refused("outside_mount")
    ELSE Allow(ts[q.listener], q, Canonicalize(StripBase(q.path)))

(* load_with_fallback of cli.rs: the file is read and built again. *)
Loaded(f) ==
    LET table == BuildWith(f)
    IN  [l \in Listeners |-> OnListener(table, l)]

(* What both commands say of a route they chose.  The path is shown        *)
(* without the upstream's own base and unencoded.                          *)
Report(q, path, r) ==
    IF r = None THEN Refused("no_route")
    ELSE [result |-> "route", route |-> r,
          path |-> <<"/">> \o UpstreamPath(r, path),
          key |-> KeyOn(q.listener, r, path)]

(* decide of cli/policy.rs. *)
Decide(ts, q) ==
    LET Choose(table, path) ==
            IF path = None THEN Refused("unsafe_path")
            ELSE IF IsDenied(table, path) THEN Refused("denied")
            ELSE Report(q, path, MatchRequest(table, q.host, path, q.method))
    IN  IF StripMount(q.path) = None THEN Refused("outside_mount")
        ELSE Choose(ts[q.listener], Canonicalize(StripMount(q.path)))

(* explain of cli.rs. *)
Explain(ts, q) ==
    LET target == BeforeQuery(q.path)
        Choose(table, path) ==
            IF path = None THEN Refused("unsafe_path")
            ELSE IF IsDenied(table, path) THEN Refused("denied")
            ELSE Report(q, path, MatchRequest(table, q.host, path, q.method))
    IN  IF q.listener = "internal" /\ ~ InternalListen
        THEN Refused("unavailable")
        ELSE IF target = Plain(HealthPath) THEN Refused("health")
        ELSE IF StripMount(target) = None THEN Refused("outside_mount")
        ELSE Choose(ts[q.listener], Canonicalize(StripMount(target)))

(* Faulty variant: the report leaves out how a prefix is forwarded. *)
FieldsWithoutStrip(r) ==
    [client_key |-> ClientKeyRule(r, r.prefix), tier |-> r.auth,
     prefix |-> r.prefix, hosts |-> r.hosts, methods |-> r.methods,
     upstream |-> r.upstream, bind |-> r.bind, rate_limit |-> r.rate_limit,
     cap |-> r.cap, cache |-> r.cache,
     cache_authenticated |-> r.cache_authenticated]

(* route_fields of cli/policy.rs. *)
RouteFields(r) ==
    [client_key |-> ClientKeyRule(r, r.prefix), tier |-> r.auth,
     prefix |-> r.prefix, hosts |-> r.hosts, methods |-> r.methods,
     upstream |-> r.upstream, bind |-> r.bind, rate_limit |-> r.rate_limit,
     cap |-> r.cap, cache |-> r.cache,
     cache_authenticated |-> r.cache_authenticated,
     strip_prefix |-> r.strip_prefix]

(* diff of cli/policy.rs: routes are paired by id, in no order. *)
Unchanged(old, new) ==
    LET Surface(table) == {<<table.routes[i].id, RouteFields(table.routes[i])>> :
                             i \in DOMAIN table.routes}
    IN  Surface(old) = Surface(new) /\ old.deny = new.deny

-----------------------------------------------------------------------------

(* A file is validated before anything serves it. *)
Boot(f) ==
    /\ file = None
    /\ ValidTable(BuildWith(f))
    /\ file' = f
    /\ tables' = Loaded(f)
    /\ UNCHANGED <<asked, served, told>>

(* Both listeners exist only when they are configured. *)
Serve(q) ==
    /\ file # None
    /\ asked = None
    /\ told = None
    /\ q.listener = "internal" => InternalListen
    /\ asked' = q
    /\ served' = Gateway(tables, q)
    /\ UNCHANGED <<file, tables, told>>

(* lagos test and lagos explain, asked about the same request. *)
RunTest ==
    /\ asked # None
    /\ told = None
    /\ told' = [tool |-> "test", says |-> Decide(Loaded(file), asked)]
    /\ UNCHANGED <<file, tables, asked, served>>

RunExplain ==
    /\ asked # None
    /\ told = None
    /\ told' = [tool |-> "explain", says |-> Explain(Loaded(file), asked)]
    /\ UNCHANGED <<file, tables, asked, served>>

(* lagos diff between the file in use and another that loads. *)
RunDiff(g) ==
    /\ file \in Revisions
    /\ asked = None
    /\ told = None
    /\ ValidTable(BuildWith(g))
    /\ told' = [tool |-> "diff", with |-> g,
                quiet |-> Unchanged(BuildWith(file), BuildWith(g))]
    /\ UNCHANGED <<file, tables, asked, served>>

Done ==
    /\ told # None
    /\ asked' = None
    /\ served' = None
    /\ told' = None
    /\ UNCHANGED <<file, tables>>

RulesNext ==
    \/ \E f \in Files : Boot(f)
    \/ \E q \in Queries : Serve(q)
    \/ RunTest
    \/ RunExplain
    \/ \E g \in Revisions : RunDiff(g)
    \/ Done

RulesSpec == RulesInit /\ [][RulesNext]_rulesVars

-----------------------------------------------------------------------------

(* The path an upstream sees when it decodes its request target. *)
Seen(uri) == [i \in DOMAIN uri |-> uri[i].char]

(* The canonical path of the request, as the gateway matched it. *)
Matched == Canonicalize(StripBase(asked.path))

(* The routes of the file, in no order, that may serve the request. *)
Candidates ==
    {i \in DOMAIN file.routes :
        LET r == file.routes[i]
            methods == IF r.methods # None THEN r.methods
                       ELSE IF DefaultMethods # None THEN DefaultMethods ELSE {}
            host == IF asked.host = None THEN None ELSE NormalizeHost(asked.host)
        IN  /\ r.enabled
            /\ (r.auth = "machine") = (asked.listener = "internal")
            /\ UnderPrefix(Matched, Trim(r.prefix))
            /\ Serves([hosts |-> r.hosts, methods |-> methods], host, asked.method)}

Outranks(r, other) ==
    \/ r.hosts # {} /\ other.hosts = {}
    \/ /\ (r.hosts = {}) = (other.hosts = {})
       /\ Len(Trim(r.prefix)) > Len(Trim(other.prefix))

(***************************************************************************)
(* "Routes on the same listener must not depend on declaration order for   *)
(* authorization" (validate_routes), and "the longest matching prefix      *)
(* within host specificity" wins (README): whichever way the table looks   *)
(* it up, a request gets the one route of the file that outranks every     *)
(* other candidate, and none only if there is no candidate.                *)
(***************************************************************************)
RightRoute ==
    served # None /\ served.result \notin
                        {"health", "outside_mount", "unsafe_path", "denied"} =>
        IF Candidates = {} THEN served.result = "no_route"
        ELSE /\ served.result = "route"
             /\ \E i \in Candidates :
                   LET r == file.routes[i]
                   IN  /\ \A j \in Candidates \ {i} : Outranks(r, file.routes[j])
                       /\ served.route.auth = r.auth
                       /\ served.route.hosts = r.hosts
                       /\ served.route.prefix = Trim(r.prefix)
                       /\ served.route.upstream = r.upstream

(***************************************************************************)
(* path.rs: what was matched is what the upstream resolves.  The target it *)
(* gets decodes to the matched path, below the upstream's base and without *)
(* the prefix when that is stripped; nothing in it leads elsewhere, unless *)
(* the configured base does, and on the public listener it is in no        *)
(* internal sub-tree, however it is cased.                                 *)
(***************************************************************************)
UpstreamSeesMatched ==
    served # None /\ served.result = "route" =>
        LET seen == Split(Trim(Seen(BeforeQuery(served.path))))
            cut == IF served.route.strip_prefix
                   THEN Len(Split(served.route.prefix)) ELSE 0
            path == SubSeq(Split(Matched), cut + 1, Len(Split(Matched)))
            base == BasePath[served.route.upstream]
        IN  /\ seen = Split(Trim(Join(Split(base) \o path)))
            /\ ToSet(seen) \cap Dots \subseteq ToSet(Split(base))
            /\ asked.listener = "public" =>
                  ~ \E d \in file.internal :
                        UnderPrefixIgnoreCase(Matched, Trim(d))

(* The tool names the outcome, the route, the path beneath the upstream's  *)
(* base and the client key rule of the request that was served.            *)
SaysWhatWasServed ==
    /\ told.says.result = served.result
    /\ told.says.route = served.route
    /\ told.says.key = served.key
    /\ served.result = "route" =>
          IsSuffix(Trim(told.says.path), Trim(Seen(served.path)))

(* Health is answered before any route; lagos test asks about routes only. *)
TestAgrees ==
    told # None /\ told.tool = "test" /\ served.result # "health" =>
        SaysWhatWasServed

ExplainAgrees == told # None /\ told.tool = "explain" => SaysWhatWasServed

DiffAgrees ==
    told # None /\ told.tool = "diff" /\ told.quiet =>
        LET Same(before, after) == /\ before.result = after.result
                                   /\ before.path = after.path
                                   /\ before.key = after.key
            Alike(ts) == \A q \in Queries : Same(Gateway(tables, q), Gateway(ts, q))
        IN  Alike(Loaded(told.with))

(***************************************************************************)
(* "They cannot disagree" (client_key_rule), "just as it is at runtime"    *)
(* (docs/route-explanations.md): lagos test and lagos explain name the     *)
(* outcome, the route and the client key rule the gateway applies, and a   *)
(* change of the file on which lagos diff is silent changes nothing.       *)
(***************************************************************************)
OfflineToolsAgree == TestAgrees /\ ExplainAgrees /\ DiffAgrees

=============================================================================
