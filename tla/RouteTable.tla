----------------------------- MODULE RouteTable -----------------------------
(***************************************************************************)
(* The route table: how a request's path is made canonical (path.rs), how  *)
(* a route file becomes a table (routes/mod.rs), which tables are accepted *)
(* (config/mod.rs) and which route of a table a request gets, by a scan or *)
(* by the trie of routes/index.rs.                                         *)
(*                                                                         *)
(* Text is a sequence of characters, because everything here turns on the  *)
(* difference between a prefix and a prefix that ends at a segment.  In a  *)
(* request's raw path each character carries the number of percent         *)
(* encodings around it.  Host names are sequences of labels.               *)
(***************************************************************************)
EXTENDS Integers, Sequences, SequencesExt

CONSTANTS
    IndexAbove,        \* tables longer than this get a trie (32 in the code)
    DefaultMethods,    \* defaults.methods, or None
    Upstreams,         \* the configured upstreams
    KeysOn,            \* whether auth.client_keys is configured
    KeyExempt,         \* auth.client_keys.exempt: paths
    KeyExemptGroups,   \* auth.client_keys.exempt_groups: tiers
    MachineSecret,     \* whether auth.machine is configured
    InternalListen,    \* whether server.internal_listen is configured
    CacheOn,           \* whether a cache block is configured
    SyncEvery,         \* shared_counters.sync in ticks, or None
    Second,            \* ticks to the second
    TrustsProxies,     \* whether forward.trusted_proxy_ips is not empty
    None               \* the absent Option

Tiers == {"public", "optional", "required", "machine"}

(* AuthTier::verifies. *)
Verifies(tier) == tier \in {"optional", "required"}

-----------------------------------------------------------------------------
(* Paths.                                                                  *)

MaxDecodePasses == 3

(* The members of a finite set, first to last: SetToSortSeq, in a form the *)
(* provers can follow. *)
InOrder(S, Before(_, _)) ==
    [k \in 1..Cardinality(S) |->
        CHOOSE x \in S : Cardinality({y \in S : Before(y, x)}) = k - 1]

(* Iterator::filter: SelectSeq, likewise. *)
Kept(s, Test(_)) ==
    LET order == InOrder({i \in DOMAIN s : Test(s[i])}, <)
    IN  [k \in DOMAIN order |-> s[order[k]]]

(* normalize_proxy_path. *)
Trim(text) ==
    LET kept == {i \in DOMAIN text : text[i] # "/"}
    IN  IF kept = {} THEN <<>> ELSE SubSeq(text, Min(kept), Max(kept))

(* str::split('/'). *)
Split(text) ==
    LET Between(cuts) == [k \in 1..(Len(cuts) - 1) |->
                             SubSeq(text, cuts[k] + 1, cuts[k + 1] - 1)]
    IN  Between(InOrder({0, Len(text) + 1} \cup
                            {i \in DOMAIN text : text[i] = "/"}, <))

(* [T]::join("/"). *)
Join(segments) ==
    FoldLeft(LAMBDA text, s : IF text = <<>> THEN s ELSE text \o <<"/">> \o s,
             <<>>, segments)

(* A character of a raw path. *)
Raw == [char: STRING, layers: Nat]

Plain(text) == [i \in DOMAIN text |-> [char |-> text[i], layers |-> 0]]

BeforeQuery(raw) ==
    LET marks == {i \in DOMAIN raw : raw[i] = [char |-> "?", layers |-> 0]}
    IN  IF marks = {} THEN raw ELSE SubSeq(raw, 1, Min(marks) - 1)

(* Never legal in a canonical path: a percent sign that does not decode    *)
(* away, a backslash, a control character.                                 *)
Unsafe == {"%", "\\", "control"}

Dots == {<<".">>, <<".", ".">>}

(* Faulty variant: the dot segments are looked for before decoding. *)
CanonicalizeEarly(raw) ==
    LET path == BeforeQuery(raw)
        text == [i \in DOMAIN path |-> path[i].char]
        seen == [i \in DOMAIN path |->
                     IF path[i].layers = 0 THEN path[i].char ELSE "encoded"]
        segments == Kept(Split(text), LAMBDA s : s # <<>>)
    IN  IF \/ \E i \in DOMAIN path : path[i].layers > MaxDecodePasses
           \/ ToSet(text) \cap Unsafe # {}
           \/ ToSet(Split(seen)) \cap Dots # {}
        THEN None ELSE Join(segments)

(* canonicalize_proxy_path. *)
Canonicalize(raw) ==
    LET Segments(text) == Kept(Split(text), LAMBDA s : s # <<>>)
        Checked(path, text, segments) ==
            IF \/ \E i \in DOMAIN path : path[i].layers > MaxDecodePasses
               \/ ToSet(text) \cap Unsafe # {}
               \/ ToSet(segments) \cap Dots # {}
            THEN None ELSE Join(segments)
        Decoded(path) == [i \in DOMAIN path |-> path[i].char]
        path == BeforeQuery(raw)
    IN  Checked(path, Decoded(path), Segments(Decoded(path)))

(* The SEGMENT set of encode_path_segments, as far as a canonical path can *)
(* contain its members.                                                    *)
Encoded == {"?"}

(* encode_path_segments. *)
EncodePathSegments(path) ==
    [i \in DOMAIN path |->
        [char |-> path[i], layers |-> IF path[i] \in Encoded THEN 1 ELSE 0]]

(* under_prefix. *)
UnderPrefix(path, prefix) ==
    /\ IsPrefix(prefix, path)
    /\ Len(path) > Len(prefix) => path[Len(prefix) + 1] = "/"

(* fold_case: the letters that some upstream takes for an i. *)
FoldCase(c) == IF c \in {"I", "dotless_i"} THEN "i" ELSE c

(* under_prefix_ignore_case. *)
UnderPrefixIgnoreCase(path, prefix) ==
    LET Folded(text) == [i \in DOMAIN text |-> FoldCase(text[i])]
    IN  UnderPrefix(Folded(path), Folded(prefix))

-----------------------------------------------------------------------------
(* Hosts.                                                                  *)

(* HostPattern::matches. *)
HostMatches(pattern, host) ==
    IF pattern.kind = "exact" THEN host = pattern.name
    ELSE Len(host) > Len(pattern.name) /\ IsSuffix(pattern.name, host)

(* HostPattern::overlaps. *)
Overlaps(p, q) ==
    CASE p.kind = "exact" /\ q.kind = "exact" -> p.name = q.name
      [] p.kind = "exact" /\ q.kind = "suffix" -> HostMatches(q, p.name)
      [] p.kind = "suffix" /\ q.kind = "exact" -> HostMatches(p, q.name)
      [] OTHER -> IsSuffix(p.name, q.name) \/ IsSuffix(q.name, p.name)

(* normalize_host and the folding in match_request: neither the port nor   *)
(* the case of a Host header counts.                                       *)
NormalizeHost(header) == header.name

-----------------------------------------------------------------------------
(* A route file becomes a table.                                           *)

(* RouteInput, in the group it was written in.  Of the policies only what  *)
(* validation and selection read is kept.                                  *)
RouteInput ==
    [id: STRING \cup {None}, auth: Tiers, prefix: Seq(STRING),
     hosts: SUBSET [kind: {"exact", "suffix", "malformed"}, name: Seq(STRING)],
     methods: SUBSET STRING \cup {None}, upstream: STRING, enabled: BOOLEAN,
     strip_prefix: BOOLEAN, client_key: BOOLEAN \cup {None},
     bind: {"none", "good", "malformed"}, cache: BOOLEAN,
     cache_authenticated: BOOLEAN,
     rate_limit: [requests: Nat, counter: {"local", "shared"},
                  mode: {"approximate", "exact"}, interval: Nat,
                  forwarded: BOOLEAN] \cup {None},
     cap: [max: Nat, forwarded: BOOLEAN] \cup {None}]

(* Methods are inherited when the route does not mention them; written, an *)
(* empty list allows all of them.                                          *)
Inherit(r) ==
    [r EXCEPT !.methods = IF r.methods # None THEN r.methods
                          ELSE IF DefaultMethods = None THEN {}
                          ELSE DefaultMethods]

GroupOrder == [public |-> 1, optional |-> 2, required |-> 3, machine |-> 4]

(* A route without an id is named after its hosts and prefix. *)
Named(r) ==
    LET prefix == Trim(r.prefix)
    IN  [r EXCEPT !.prefix = prefix,
                  !.id = IF @ = None THEN <<r.hosts, prefix>> ELSE <<@>>]

(* The enabled routes, group by group, with their policies inherited, the  *)
(* prefix trimmed and the id filled in.                                    *)
Flatten(routes) ==
    LET Before(i, j) ==
            \/ GroupOrder[routes[i].auth] < GroupOrder[routes[j].auth]
            \/ GroupOrder[routes[i].auth] = GroupOrder[routes[j].auth] /\ i < j
        order == InOrder({i \in DOMAIN routes : routes[i].enabled}, Before)
    IN  [k \in DOMAIN order |-> Named(Inherit(routes[order[k]]))]

(* What building records as an error instead of failing. *)
Malformed(r) ==
    \/ \E p \in r.hosts : p.kind = "malformed"
    \/ r.rate_limit # None /\ r.rate_limit.requests = 0
    \/ r.cap # None /\ r.cap.max = 0
    \/ r.bind = "malformed"

(* The stable sort: routes for certain hosts first, then longer prefixes. *)
Sorted(routes) ==
    LET Rank(r) == <<IF r.hosts = {} THEN 1 ELSE 0, -Len(r.prefix)>>
        Before(i, j) ==
            LET a == Rank(routes[i])
                b == Rank(routes[j])
            IN  \/ a[1] < b[1]
                \/ a[1] = b[1] /\ a[2] < b[2]
                \/ a = b /\ i < j
        order == InOrder(DOMAIN routes, Before)
    IN  [k \in DOMAIN order |-> routes[order[k]]]

(* RouteTable::build_with. *)
BuildWith(file) ==
    LET routes == Flatten(file.routes)
    IN  [deny |-> {Trim(p) : p \in file.internal},
         routes |-> Sorted(routes),
         errors |-> \E i \in DOMAIN routes : Malformed(routes[i])]

(* RouteTable::partition_by_listener. *)
OnListener(table, listener) ==
    IF listener = "public"
    THEN [table EXCEPT !.routes = Kept(@, LAMBDA r : r.auth # "machine")]
    ELSE [table EXCEPT !.routes = Kept(@, LAMBDA r : r.auth = "machine"),
                       !.deny = {}]

-----------------------------------------------------------------------------
(* Which tables are accepted.                                              *)

(* conflicting_routes. *)
ConflictingRoutes(a, b) ==
    /\ a.prefix = b.prefix
    /\ (a.auth = "machine") = (b.auth = "machine")
    /\ ~ (a.auth = b.auth /\ (a.hosts = {}) # (b.hosts = {}))
    /\ a.methods = {} \/ b.methods = {} \/ a.methods \cap b.methods # {}
    /\ \/ a.hosts = {} \/ b.hosts = {}
       \/ \E p \in a.hosts, q \in b.hosts : Overlaps(p, q)

(* ResolvedConfig::validate_shared_limit. *)
ValidSharedLimit(limit) ==
    /\ limit.mode = "exact" => limit.counter = "shared"
    /\ limit.counter = "shared" =>
          /\ SyncEvery # None
          /\ limit.interval >= Second
          /\ limit.mode = "exact" => limit.interval % Second = 0
          /\ limit.mode = "approximate" => SyncEvery < limit.interval

(* The conditions of ResolvedConfig::validate_routes on one route. *)
ValidRoute(r) ==
    /\ r.rate_limit # None => /\ ValidSharedLimit(r.rate_limit)
                              /\ r.rate_limit.forwarded => TrustsProxies
    /\ r.cap # None => (r.cap.forwarded => TrustsProxies)
    /\ r.prefix # <<>>
    /\ r.upstream \in Upstreams
    /\ r.bind # "none" => Verifies(r.auth)
    /\ r.cache => CacheOn /\ (Verifies(r.auth) => r.cache_authenticated)
    /\ r.client_key # None => r.auth # "machine" /\ KeysOn
    /\ r.auth = "machine" => MachineSecret /\ InternalListen

(* ResolvedConfig::validate_table, with the two-route conditions. *)
ValidTable(table) ==
    /\ ~ table.errors
    /\ \A i \in DOMAIN table.routes : ValidRoute(table.routes[i])
    /\ \A i, j \in DOMAIN table.routes : i # j =>
          /\ table.routes[i].id # table.routes[j].id
          /\ ~ ConflictingRoutes(table.routes[i], table.routes[j])

-----------------------------------------------------------------------------
(* Which route a request gets.                                             *)

(* RouteTable::is_denied. *)
IsDenied(table, path) ==
    \E d \in table.deny : UnderPrefixIgnoreCase(Trim(path), d)

(* RouteConfig::matches_host and matches_method. *)
Serves(r, host, method) ==
    /\ r.hosts = {} \/ (host # None /\ \E p \in r.hosts : HostMatches(p, host))
    /\ r.methods = {} \/ method \in r.methods

(* The position of the first route in table order, 0 if there is none. *)
Scan(routes, path, host, method) ==
    SelectInSeq(routes, LAMBDA r :
        UnderPrefix(path, r.prefix) /\ Serves(r, host, method))

(* PrefixIndex::build.  A node is the path of segments that leads to it;   *)
(* it holds the positions of the routes whose prefix ends there.           *)
Trie(routes) ==
    LET NodeOf(prefix) == IF prefix = <<>> THEN <<>> ELSE Split(prefix)
        leaves == {NodeOf(routes[i].prefix) : i \in DOMAIN routes}
    IN  [node \in (UNION {Prefixes(leaf) : leaf \in leaves}) \cup {<<>>} |->
            {i \in DOMAIN routes : NodeOf(routes[i].prefix) = node}]

(* Faulty variant: what a deeper node holds always wins. *)
ConsiderDeepest(routes, positions, best, host, method) ==
    LET hits == {i \in positions : Serves(routes[i], host, method)}
    IN  IF hits = {} THEN best ELSE Min(hits)

(* PrefixIndex::consider. *)
Consider(routes, positions, best, host, method) ==
    LET hits == {i \in positions : /\ best # 0 => i < best
                                   /\ Serves(routes[i], host, method)}
    IN  IF hits = {} THEN best ELSE Min(hits)

(* PrefixIndex::find: down the trie for as long as there is a child; only  *)
(* the empty path looks at the root.                                       *)
Find(routes, path, host, method) ==
    LET Walk(segments) == [k \in DOMAIN segments |-> SubSeq(segments, 1, k)]
        Visited(trie) ==
            IF path = <<>> THEN << <<>> >>
            ELSE Kept(Walk(Split(path)), LAMBDA node : node \in DOMAIN trie)
        Best(trie) ==
            FoldLeft(LAMBDA best, node :
                         Consider(routes, trie[node], best, host, method),
                     0, Visited(trie))
    IN  Best(Trie(routes))

(* RouteTable::match_request. *)
MatchRequest(table, header, path, method) ==
    LET host == IF header = None THEN None ELSE NormalizeHost(header)
        Choice(routes, p) == IF Len(routes) > IndexAbove
                             THEN Find(routes, p, host, method)
                             ELSE Scan(routes, p, host, method)
        At(i) == IF i = 0 THEN None ELSE table.routes[i]
    IN  At(Choice(table.routes, Trim(path)))

(* RouteConfig::upstream_path. *)
UpstreamPath(r, path) ==
    IF r.strip_prefix /\ UnderPrefix(path, r.prefix)
    THEN SubSeq(path, Len(r.prefix) + 2, Len(path))
    ELSE path

(* ResolvedConfig::client_key_rule: off, required, or why it is not. *)
ClientKeyRule(r, path) ==
    IF ~ KeysOn \/ r.auth = "machine" THEN "off"
    ELSE IF r.client_key = FALSE THEN "exempt_route"
    ELSE IF \E e \in KeyExempt : UnderPrefix(Trim(path), e) THEN "exempt_prefix"
    ELSE IF r.auth \in KeyExemptGroups THEN "exempt_group"
    ELSE "required"

=============================================================================
