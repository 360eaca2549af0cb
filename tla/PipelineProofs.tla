--------------------------- MODULE PipelineProofs ---------------------------
(***************************************************************************)
(* Proofs about the request pipeline, for any number of requests, reloads, *)
(* route files and kinds of request.                                       *)
(***************************************************************************)
EXTENDS Pipeline, WellFoundedInduction, TLAPS

-----------------------------------------------------------------------------
(***************************************************************************)
(* The operators                                                           *)
(***************************************************************************)

\* A non-empty set of numbers has a least element.
LEMMA LeastExists ==
    ASSUME NEW S \in SUBSET Nat, S # {}
    PROVE  \E i \in S : \A j \in S : i <= j
<1>1. PICK x \in S : \A y \in S : ~(<<y, x>> \in OpToRel(<, Nat))
  BY NatLessThanWellFounded, WFMin
<1>2. \A y \in S : ~(y < x)
  BY <1>1 DEF OpToRel
<1> QED BY <1>2

\* Checks with their statuses.
Checks(checks) ==
    DOMAIN checks \subseteq Nat /\ \A i \in DOMAIN checks : checks[i][2] \in Nat

\* A list of checks that refuses nothing has no check that applies.
LEMMA FirstOfNone ==
    ASSUME NEW checks, Checks(checks), FirstOf(checks) = None
    PROVE  \A i \in DOMAIN checks : ~checks[i][1]
<1> DEFINE hits == {i \in DOMAIN checks : checks[i][1]}
<1> SUFFICES ASSUME hits # {} PROVE FALSE
  OBVIOUS
<1>1. hits \in SUBSET Nat
  BY DEF Checks
<1> DEFINE k == CHOOSE i \in hits : \A j \in hits : i <= j
<1>2. k \in hits
  BY <1>1, LeastExists
<1>3. FirstOf(checks) = checks[k][2]
  BY DEF FirstOf
<1>4. checks[k][2] \in Nat
  BY <1>2 DEF Checks
<1> QED BY <1>3, <1>4, PipelineConfig

\* What a list of checks refuses with is one of its statuses.
LEMMA FirstOfTyped ==
    ASSUME NEW checks, Checks(checks), FirstOf(checks) # None
    PROVE  FirstOf(checks) \in Nat
<1> DEFINE hits == {i \in DOMAIN checks : checks[i][1]}
           k == CHOOSE i \in hits : \A j \in hits : i <= j
<1>1. hits # {}
  BY DEF FirstOf
<1>0. hits \in SUBSET Nat
  BY DEF Checks
<1>2. k \in hits
  BY <1>0, <1>1, LeastExists
<1>3. FirstOf(checks) = checks[k][2]
  BY <1>1 DEF FirstOf
<1>4. checks[k][2] \in Nat
  BY <1>2 DEF Checks
<1> QED BY <1>3, <1>4

\* The first check that applies gives the answer.
LEMMA FirstOfIs ==
    ASSUME NEW checks, Checks(checks), NEW i \in DOMAIN checks, checks[i][1],
           \A j \in DOMAIN checks : checks[j][1] => i <= j
    PROVE  FirstOf(checks) = checks[i][2]
<1> DEFINE hits == {j \in DOMAIN checks : checks[j][1]}
           k == CHOOSE j \in hits : \A m \in hits : j <= m
<1>1. i \in hits /\ \A m \in hits : i <= m
  OBVIOUS
<1>2. k \in hits /\ \A m \in hits : k <= m
  BY <1>1
<1>3. k = i
  BY <1>1, <1>2 DEF Checks
<1>4. FirstOf(checks) = checks[k][2]
  BY <1>1 DEF FirstOf
<1> QED BY <1>3, <1>4

\* The three lists of checks.
LEMMA RefusalsTyped ==
    ASSUME NEW q, NEW t, NEW route
    PROVE  /\ ReceiveRefusal(q) # None => ReceiveRefusal(q) \in Nat
           /\ MatchRefusal(t, route, q) # None => MatchRefusal(t, route, q) \in Nat
           /\ CredentialRefusal(route, q) # None => CredentialRefusal(route, q) \in Nat
<1>1. ReceiveRefusal(q) # None => ReceiveRefusal(q) \in Nat
  <2> DEFINE checks == <<
                  <<q.kind = "too_large", 413>>,
                  <<q.kind = "reserved" /\ q.listener = "public", 403>>,
                  <<q.kind \in {"outside", "unsafe"}, 404>> >>
  <2>1. Checks(checks)
    BY DEF Checks
  <2>2. ReceiveRefusal(q) = FirstOf(checks)
    BY DEF ReceiveRefusal
  <2> HIDE DEF checks
  <2> QED BY <2>1, <2>2, FirstOfTyped
<1>2. MatchRefusal(t, route, q) # None => MatchRefusal(t, route, q) \in Nat
  <2> DEFINE machine == route # None /\ route.auth = "machine"
             checks == <<
            <<IsPreflight(t, q), 204>>,
            <<route = None, 404>>,
            <<route # None /\ route.upstream \notin Upstreams, 503>>,
            <<machine /\ ~MachineSecret, 503>>,
            <<machine /\ ~q.secret, 404>> >>
  <2>1. Checks(checks)
    BY DEF Checks
  <2>2. MatchRefusal(t, route, q) = FirstOf(checks)
    BY DEF MatchRefusal
  <2> HIDE DEF checks
  <2> QED BY <2>1, <2>2, FirstOfTyped
<1>3. CredentialRefusal(route, q) # None => CredentialRefusal(route, q) \in Nat
  <2> DEFINE token == Bearer(q)
             checks == <<
            <<NeedsClientKey(route, q) /\ q.client_key # "good", 401>>,
            <<Verifies(route) /\ q.authorization = "repeated", 401>>,
            <<Verifies(route) /\ ByCookie(q) /\ ~CookieOriginAllowed(q), 403>>,
            <<Verifies(route) /\ token = "oversized", 401>>,
            <<route.auth = "required" /\ token = None, 401>>,
            <<Verifies(route) /\ token # None /\ ~Verifier, 503>> >>
  <2>1. Checks(checks)
    BY DEF Checks
  <2>2. CredentialRefusal(route, q) = FirstOf(checks)
    BY DEF CredentialRefusal
  <2> HIDE DEF checks
  <2> QED BY <2>1, <2>2, FirstOfTyped
<1> QED BY <1>1, <1>2, <1>3

\* What is settled once they refuse nothing, and that a path without a route is
\* not found.
LEMMA MatchSettles ==
    ASSUME NEW q, NEW t, NEW route
    PROVE  /\ MatchRefusal(t, route, q) = None =>
                 /\ route # None /\ route.upstream \in Upstreams
                 /\ route.auth = "machine" => q.secret
           /\ ~IsPreflight(t, q) /\ route = None => MatchRefusal(t, route, q) = 404
<1> DEFINE machine == route # None /\ route.auth = "machine"
           checks == <<
            <<IsPreflight(t, q), 204>>,
            <<route = None, 404>>,
            <<route # None /\ route.upstream \notin Upstreams, 503>>,
            <<machine /\ ~MachineSecret, 503>>,
            <<machine /\ ~q.secret, 404>> >>
<1>1. Checks(checks) /\ DOMAIN checks = 1..5
  BY DEF Checks
<1>2. MatchRefusal(t, route, q) = FirstOf(checks)
  BY DEF MatchRefusal
<1>3. /\ checks[1][1] = IsPreflight(t, q)
      /\ checks[2][1] = (route = None)
      /\ checks[3][1] = (route # None /\ route.upstream \notin Upstreams)
      /\ checks[5][1] = (machine /\ ~q.secret)
      /\ checks[2][2] = 404
  OBVIOUS
<1> HIDE DEF checks
<1>4. ASSUME FirstOf(checks) = None
      PROVE  /\ route # None /\ route.upstream \in Upstreams
             /\ route.auth = "machine" => q.secret
  <2>1. ~checks[2][1] /\ ~checks[3][1] /\ ~checks[5][1]
    BY <1>1, <1>4, FirstOfNone
  <2> QED BY <2>1, <1>3
<1>5. ASSUME ~IsPreflight(t, q), route = None PROVE FirstOf(checks) = 404
  <2>1. checks[2][1] /\ ~checks[1][1]
    BY <1>3, <1>5
  <2>2. \A j \in 1..5 : j = 1 \/ 2 <= j
    OBVIOUS
  <2>3. \A j \in DOMAIN checks : checks[j][1] => 2 <= j
    BY <1>1, <2>1, <2>2
  <2> QED BY <2>1, <2>3, <1>1, <1>3, FirstOfIs
<1> QED BY <1>2, <1>4, <1>5

\* What the credential stage has checked of a request it lets pass.
LEMMA CredentialSettles ==
    ASSUME NEW q, NEW route, CredentialRefusal(route, q) = None
    PROVE  /\ NeedsClientKey(route, q) => q.client_key = "good"
           /\ Verifies(route) /\ ByCookie(q) => CookieOriginAllowed(q)
           /\ route.auth = "required" => Bearer(q) # None
<1> DEFINE token == Bearer(q)
           checks == <<
            <<NeedsClientKey(route, q) /\ q.client_key # "good", 401>>,
            <<Verifies(route) /\ q.authorization = "repeated", 401>>,
            <<Verifies(route) /\ ByCookie(q) /\ ~CookieOriginAllowed(q), 403>>,
            <<Verifies(route) /\ token = "oversized", 401>>,
            <<route.auth = "required" /\ token = None, 401>>,
            <<Verifies(route) /\ token # None /\ ~Verifier, 503>> >>
<1>1. Checks(checks) /\ DOMAIN checks = 1..6
  BY DEF Checks
<1>2. CredentialRefusal(route, q) = FirstOf(checks)
  BY DEF CredentialRefusal
<1>3. /\ checks[1][1] = (NeedsClientKey(route, q) /\ q.client_key # "good")
      /\ checks[3][1] = (Verifies(route) /\ ByCookie(q) /\ ~CookieOriginAllowed(q))
      /\ checks[5][1] = (route.auth = "required" /\ token = None)
  OBVIOUS
<1> HIDE DEF checks
<1>4. ~checks[1][1] /\ ~checks[3][1] /\ ~checks[5][1]
  BY <1>1, <1>2, FirstOfNone
<1> QED BY <1>3, <1>4

\* A match is one of the table's routes, on its listener, that serves the path.
LEMMA MatchIsRoute ==
    ASSUME NEW t \in TableIds, NEW l, NEW path, NEW method,
           MatchRequest(t, l, path, method) # None
    PROVE  \E i \in DOMAIN Content[t].routes :
              /\ MatchRequest(t, l, path, method) = Content[t].routes[i]
              /\ OnListener(Content[t].routes[i], l)
              /\ Content[t].routes[i] \in Route
<1> DEFINE routes == Content[t].routes
           hits == {i \in DOMAIN routes : /\ OnListener(routes[i], l)
                                          /\ path \in routes[i].paths
                                          /\ method \in routes[i].methods}
           k == CHOOSE i \in hits : \A j \in hits : i <= j
<1>1. routes \in Seq(Route)
  BY PipelineConfig
<1>2. hits # {}
  BY DEF MatchRequest
<1>3. hits \in SUBSET Nat
  BY <1>1
<1>4. k \in hits
  BY <1>2, <1>3, LeastExists
<1>5. MatchRequest(t, l, path, method) = routes[k]
  BY <1>2 DEF MatchRequest
<1> HIDE DEF k
<1>6. k \in DOMAIN routes /\ OnListener(routes[k], l)
  BY <1>4
<1>7. routes[k] \in Route
  BY <1>1, <1>6
<1> HIDE DEF hits
<1> QED BY <1>5, <1>6, <1>7

\* Two matches in one table with the same id are on the same listener.
LEMMA IdTellsListener ==
    ASSUME NEW t \in TableIds, NEW l1 \in Listeners, NEW l2 \in Listeners,
           NEW p1, NEW p2, NEW m1, NEW m2,
           MatchRequest(t, l1, p1, m1) # None, MatchRequest(t, l2, p2, m2) # None,
           MatchRequest(t, l1, p1, m1).id = MatchRequest(t, l2, p2, m2).id
    PROVE  l1 = l2
<1>1. PICK i \in DOMAIN Content[t].routes :
         /\ MatchRequest(t, l1, p1, m1) = Content[t].routes[i]
         /\ OnListener(Content[t].routes[i], l1)
  BY MatchIsRoute
<1>2. PICK j \in DOMAIN Content[t].routes :
         /\ MatchRequest(t, l2, p2, m2) = Content[t].routes[j]
         /\ OnListener(Content[t].routes[j], l2)
  BY MatchIsRoute
<1>3. i = j
  BY <1>1, <1>2, PipelineConfig
<1> QED BY <1>1, <1>2, <1>3 DEF OnListener, Listeners

-----------------------------------------------------------------------------
(***************************************************************************)
(* The inductive invariant: what is settled about a request at each stage. *)
(***************************************************************************)

\* The stages of the filter, from the last back to the first.
AfterPlan == {"extend", "lookup", "admit", "upstream"}
AfterIdentity == {"plan"} \cup AfterPlan
AfterVerify == {"identity"} \cup AfterIdentity
AfterCredential == {"verify"} \cup AfterVerify
AfterLimit == {"credential"} \cup AfterCredential
AfterMatch == {"limit"} \cup AfterLimit
AfterDeny == {"match"} \cup AfterMatch
Filtering == {"deny"} \cup AfterDeny

\* The client got an upstream's response, stored or not.
Served(r) == answer[r] # None /\ answer[r].content # None

\* The request is at one of these stages, or has gone through all of them.
Past(r, stages) == pc[r] \in stages \/ Served(r)

\* Nothing is answered before a decision, and nothing decided twice.
Shape(r) ==
    /\ pc[r] = "idle" => snap[r] = None
    /\ pc[r] # "idle" => req[r] # None
    /\ pc[r] \in {"idle"} \cup Filtering => answer[r] = None /\ body[r] = None
    /\ pc[r] \in {"sent", "done"} => answer[r] # None
    /\ Past(r, Filtering) => snap[r] # None
    /\ snap[r] # None => snap[r].table \in seen[r]

\* The table lets the request through, as far as it has been asked.
Allowed(r) ==
    LET q == req[r]
        route == RouteOf(r)
    IN  /\ Past(r, AfterDeny) => ~IsDenied(TableOf(r), q.listener, q.path)
        /\ Past(r, AfterMatch) => /\ route # None
                                  /\ route.upstream \in Upstreams
                                  /\ route.auth = "machine" => q.secret
        /\ Past(r, AfterCredential) =>
              /\ NeedsClientKey(route, q) => q.client_key = "good"
              /\ Verifies(route) /\ ByCookie(q) => CookieOriginAllowed(q)
              /\ route.auth = "required" => Bearer(q) # None
        /\ pc[r] = "verify" => Verifies(route)
        /\ Past(r, AfterPlan) => (route.bound => BindingPermits(r))

\* The identity is the one the meant credential proves, and the plan says so.
Proven(r) ==
    /\ pc[r] \in {"idle"} \cup (Filtering \ AfterVerify) => ident[r] = None
    /\ Past(r, AfterVerify) =>
          ident[r] = IF Verifies(RouteOf(r)) THEN Bearer(req[r]) ELSE None
    /\ Past(r, AfterPlan) => plan[r] = [removes |-> TRUE, adds |-> ident[r]]

\* What the limiter has been asked.
Charges(r) ==
    LET limit == RouteOf(r).limit
    IN  /\ charged[r] <= 1
        /\ pc[r] \in {"idle"} \cup (Filtering \ AfterLimit) => charged[r] = 0
        /\ Past(r, AfterLimit) /\ limit.key \in {"caller", "header"} =>
              (LimitKey(req[r], ident[r], limit) = "counted" => charged[r] = 1)
        /\ pc[r] \in AfterLimit \ AfterIdentity /\ limit.key = "identity" => charged[r] = 0
        /\ Past(r, AfterIdentity) /\ limit.key = "identity" =>
              (LimitKey(req[r], ident[r], limit) = "counted" => charged[r] = 1)

\* The answer to a denied path, and to one no route serves.
NotFound(r) == [status |-> 404, cors |-> CorsResponse(req[r]), content |-> None]

\* No method of the path is served.
NoRoute(r) ==
    \A m \in Methods : MatchRequest(snap[r].table, req[r].listener, req[r].path, m) = None

\* A path denied or unknown gets that answer and no other.
Hides(r) ==
    /\ pc[r] \in {"sent", "done"} /\ snap[r] # None
    /\ IsDenied(snap[r].table, req[r].listener, req[r].path) \/ NoRoute(r)
    => answer[r] = NotFound(r)

\* What is settled about one request.
RequestInv(r) == Shape(r) /\ Allowed(r) /\ Proven(r) /\ Charges(r) /\ Hides(r)

\* What every step preserves.
PipelineInv == \A r \in Requests : RequestInv(r)

\* Which tables are in use, and on which listener.
Uses ==
    {<<l, served[l]>> : l \in Listeners}
    \cup {<<req[r].listener, snap[r]>> : r \in {s \in Requests : snap[s] # None}}
    \cup {e.under : e \in cache}

\* A namespace belongs to one table.
NamespacesApart ==
    /\ \A u \in Uses : u[2].ns <= stores
    /\ \A u, v \in Uses : u[2].ns = v[2].ns => u[2] = v[2]

\* The key of a response says under which table and route it was made.
KeyHonest(e) ==
    LET route == MatchRequest(e.under[2].table, e.under[1], e.key[4], e.key[5])
    IN  e.key[1] = e.under[2].ns /\ route # None /\ e.key[2] = route.id

\* A stored response that is not for sharing was made without a credential.
StoredFairly(e) ==
    KeyHonest(e) /\ (e.share \in {"private", "personal"} => e.credential = <<"absent", None>>)

\* A response being passed on is this request's own.
BodyOwn(r) ==
    body[r] # None =>
        /\ Served(r)
        /\ KeyHonest(body[r])
        /\ body[r].under = <<req[r].listener, snap[r]>>
        /\ body[r].credential = <<req[r].authorization, req[r].cookie>>

\* What a request was served is its own or may be shared with it.
Home(r) == Served(r) => CacheKeepsTable(r) /\ CacheKeepsCredential(r)

\* What every step preserves, of the cache.
CacheInv ==
    /\ NamespacesApart
    /\ \A e \in cache : StoredFairly(e)
    /\ \A r \in Requests : BodyOwn(r) /\ Home(r)

-----------------------------------------------------------------------------
(***************************************************************************)
(* Preservation, request by request                                        *)
(***************************************************************************)

\* What concerns only request r.
Local(r) == <<pc[r], req[r], snap[r], ident[r], plan[r], body[r], answer[r], charged[r]>>

\* What a request's step leaves alone.
LEMMA StepIsLocal ==
    ASSUME TypeOK, NEW r \in Requests, NEW s \in Requests, r # s, Step(s)
    PROVE  Local(r)' = Local(r) /\ seen'[r] = seen[r]
<1> USE DEF TypeOK, Local, Goto, Respond, Reject, shared
<1>1. CASE Receive(s)
  BY <1>1 DEF Receive
<1>2. CASE DenyList(s)
  BY <1>2 DEF DenyList
<1>3. CASE Match(s)
  BY <1>3 DEF Match
<1>4. CASE LimitCaller(s)
  BY <1>4 DEF LimitCaller, CheckRateLimit
<1>5. CASE Credential(s)
  BY <1>5 DEF Credential
<1>6. CASE Verify(s)
  BY <1>6 DEF Verify
<1>7. CASE LimitIdentity(s)
  BY <1>7 DEF LimitIdentity, CheckRateLimit
<1>8. CASE Describe(s)
  BY <1>8 DEF Describe
<1>9. CASE Extend(s)
  BY <1>9 DEF Extend
<1>10. CASE Lookup(s)
  BY <1>10 DEF Lookup
<1>11. CASE Admit(s)
  BY <1>11 DEF Admit
<1>12. CASE UpstreamResponds(s)
  BY <1>12 DEF UpstreamResponds
<1>13. CASE Finish(s)
  BY <1>13 DEF Finish
<1>14. CASE FailToProxy(s)
  BY <1>14 DEF FailToProxy
<1> QED BY <1>1, <1>2, <1>3, <1>4, <1>5, <1>6, <1>7, <1>8, <1>9, <1>10, <1>11, <1>12,
           <1>13, <1>14 DEF Step

\* The invariant of a request survives what others do and what is published.
LEMMA LocalStable ==
    ASSUME NEW r, RequestInv(r), Local(r)' = Local(r), seen[r] \subseteq seen'[r]
    PROVE  RequestInv(r)'
<1>1. /\ pc'[r] = pc[r] /\ req'[r] = req[r] /\ snap'[r] = snap[r] /\ ident'[r] = ident[r]
      /\ plan'[r] = plan[r] /\ body'[r] = body[r] /\ answer'[r] = answer[r]
      /\ charged'[r] = charged[r]
  BY DEF Local
<1>2. Shape(r)'
  BY <1>1 DEF RequestInv, Shape, Past, Served
<1>3. Allowed(r)'
  BY <1>1 DEF RequestInv, Allowed, Past, Served, RouteOf, TableOf, BindingPermits
<1>4. Proven(r)'
  BY <1>1 DEF RequestInv, Proven, Past, Served, RouteOf, TableOf
<1>5. Charges(r)'
  BY <1>1 DEF RequestInv, Charges, Past, Served, RouteOf, TableOf
<1>6. Hides(r)'
  BY <1>1 DEF RequestInv, Hides, NoRoute, NotFound
<1> QED BY <1>2, <1>3, <1>4, <1>5, <1>6 DEF RequestInv

\* A refusal keeps it, if what must look like an unknown path does.
LEMMA RejectKeeps ==
    ASSUME TypeOK, NEW r \in Requests, RequestInv(r), pc[r] \in Filtering,
           NEW status \in Nat, Reject(r, status),
           req' = req, snap' = snap, body' = body, seen' = seen, charged'[r] <= 1,
           IsDenied(snap[r].table, req[r].listener, req[r].path) \/ NoRoute(r) => status = 404
    PROVE  RequestInv(r)'
<1>1. /\ pc'[r] = "sent"
      /\ answer'[r] = [status |-> status, cors |-> CorsResponse(req[r]), content |-> None]
  BY DEF TypeOK, Reject, Respond, Goto
<1>2. answer'[r] # None
  <2>1. answer'[r] \in Response
    BY <1>1 DEF CorsResponse, Response
  <2> QED BY <2>1, PipelineConfig
<1>3. ~Served(r)'
  BY <1>1 DEF Served
<1>4. snap[r] # None /\ snap[r].table \in seen[r] /\ req[r] # None
  BY DEF RequestInv, Shape, Past, Filtering, AfterDeny, AfterMatch, AfterLimit, AfterCredential,
         AfterVerify, AfterIdentity, AfterPlan
<1> USE DEF Filtering, AfterDeny, AfterMatch, AfterLimit, AfterCredential,
            AfterVerify, AfterIdentity, AfterPlan
<1>5. Shape(r)'
  BY <1>1, <1>2, <1>3, <1>4 DEF Shape, Past
<1>6. Allowed(r)' /\ Proven(r)' /\ Charges(r)'
  BY <1>1, <1>3 DEF Allowed, Proven, Charges, Past
<1>7. Hides(r)'
  BY <1>1 DEF Hides, NoRoute, NotFound
<1> QED BY <1>5, <1>6, <1>7 DEF RequestInv

\* Past the match the path is neither denied nor unknown, and the route is known.
LEMMA PastMatch ==
    ASSUME TypeOK, NEW r \in Requests, RequestInv(r), Past(r, AfterMatch)
    PROVE  /\ ~IsDenied(snap[r].table, req[r].listener, req[r].path) /\ ~NoRoute(r)
           /\ req[r] \in Request /\ snap[r] \in Published
           /\ RouteOf(r) \in Route /\ OnListener(RouteOf(r), req[r].listener)
<1> USE DEF Filtering, AfterDeny, AfterMatch, AfterLimit, AfterCredential,
            AfterVerify, AfterIdentity, AfterPlan
<1>1. req[r] \in Request /\ snap[r] \in Published
  BY DEF TypeOK, RequestInv, Shape, Past, Served
<1>2. /\ ~IsDenied(snap[r].table, req[r].listener, req[r].path)
      /\ RouteOf(r) # None
  BY DEF RequestInv, Allowed, Past, TableOf
<1>3. req[r].method \in Methods /\ snap[r].table \in TableIds
  BY <1>1 DEF Request, Published
<1>4. ~NoRoute(r)
  BY <1>2, <1>3 DEF NoRoute, RouteOf, TableOf
<1>5. RouteOf(r) \in Route /\ OnListener(RouteOf(r), req[r].listener)
  BY <1>2, <1>3, MatchIsRoute DEF RouteOf, TableOf
<1> QED BY <1>1, <1>2, <1>4, <1>5

\* A request past matching is neither denied nor without a route.
LEMMA MatchedIsNeither ==
    ASSUME TypeOK, NEW r \in Requests, RequestInv(r), pc[r] \in AfterMatch
    PROVE  /\ ~IsDenied(snap[r].table, req[r].listener, req[r].path) /\ ~NoRoute(r)
           /\ req[r] \in Request /\ snap[r] \in Published
           /\ RouteOf(r) \in Route /\ OnListener(RouteOf(r), req[r].listener)
<1>1. Past(r, AfterMatch)
  BY DEF Past
<1> QED BY <1>1, PastMatch

\* A response is typed.
LEMMA ResponseTyped ==
    ASSUME TypeOK, NEW r \in Requests, RequestInv(r), pc[r] = "upstream", NEW share \in Shares
    PROVE  [key |-> CacheKey(r), share |-> share, sees |-> Sees(r),
            credential |-> <<req[r].authorization, req[r].cookie>>,
            under |-> <<req[r].listener, snap[r]>>] \in Entry
<1> USE DEF Filtering, AfterDeny, AfterMatch, AfterLimit, AfterCredential,
            AfterVerify, AfterIdentity, AfterPlan
<1>1. req[r] \in Request /\ snap[r] \in Published /\ RouteOf(r) \in Route
  BY MatchedIsNeither
<1>2. RouteOf(r).upstream \in Upstreams
  BY DEF RequestInv, Allowed, Past
<1>3. CacheKey(r) \in Nat \X RouteIds \X Upstreams \X Paths \X Methods
  BY <1>1, <1>2 DEF CacheKey, Namespace, Published, Route, Request
<1>4. plan[r] = [removes |-> TRUE, adds |-> ident[r]] /\ ident[r] \in Identities \cup {None}
  BY DEF RequestInv, Proven, Past, TypeOK
<1>5. Sees(r) \in Identities \cup {None}
  BY <1>4 DEF Sees
<1>6. /\ req[r].listener \in Listeners /\ req[r].cookie \in Tokens \cup {None}
      /\ req[r].authorization \in {"absent", "basic", "repeated"} \cup Tokens
  BY <1>1 DEF Request
<1> QED BY <1>1, <1>3, <1>5, <1>6 DEF Entry

\* Every step of a request keeps its invariant.
LEMMA RequestStep ==
    ASSUME TypeOK, NEW r \in Requests, RequestInv(r), Step(r)
    PROVE  RequestInv(r)'
<1> USE DEF Filtering, AfterDeny, AfterMatch, AfterLimit, AfterCredential,
            AfterVerify, AfterIdentity, AfterPlan
<1>n. None \notin Nat /\ None \notin Request /\ None \notin Published /\ None \notin Tokens
  BY PipelineConfig
<1>s. pc[r] \in Filtering => /\ answer[r] = None /\ body[r] = None /\ ~Served(r)
                             /\ req[r] \in Request /\ snap[r] \in Published
                             /\ snap[r].table \in seen[r]
  BY DEF RequestInv, Shape, Past, Served, TypeOK
<1>t. /\ pc \in [Requests -> Pc] /\ charged \in [Requests -> Nat]
      /\ ident \in [Requests -> Identities \cup {None}]
      /\ plan \in [Requests -> Plan \cup {None}]
      /\ req \in [Requests -> Request \cup {None}]
      /\ snap \in [Requests -> Published \cup {None}]
      /\ answer \in [Requests -> Response \cup {None}]
      /\ seen \in [Requests -> SUBSET TableIds]
      /\ body \in [Requests -> Entry \cup {None}]
  BY DEF TypeOK
<1>1. ASSUME Receive(r) PROVE RequestInv(r)'
  <2>1. PICK q \in Arrivals :
           /\ req' = [req EXCEPT ![r] = q]
           /\ seen' = [seen EXCEPT ![r] = {served[q.listener].table}]
           /\ \/ \E status \in Nat, cors \in CorsOrigins \cup {None} :
                    /\ Respond(r, status, cors, None)
                    /\ snap' = snap
              \/ /\ snap' = [snap EXCEPT ![r] = served[q.listener]]
                 /\ Goto(r, "deny")
                 /\ answer' = answer
    <3>1. \A q \in Arrivals : /\ CorsResponse(q) \in CorsOrigins \cup {None}
                              /\ ReceiveRefusal(q) # None => ReceiveRefusal(q) \in Nat
      BY RefusalsTyped DEF CorsResponse
    <3> QED BY <1>1, <3>1 DEF Receive
  <2>2. /\ pc[r] = "idle" /\ ident' = ident /\ plan' = plan /\ body' = body /\ charged' = charged
    BY <1>1 DEF Receive
  <2>3. /\ req'[r] = q /\ q \in Request /\ q # None
        /\ seen'[r] = {served[q.listener].table}
        /\ snap[r] = None /\ answer[r] = None /\ body'[r] = None /\ charged'[r] = 0
        /\ ident'[r] = None
    BY <2>1, <2>2, <1>t, <1>n, PipelineConfig DEF RequestInv, Shape, Proven, Charges
  <2>4. ASSUME NEW status \in Nat, NEW cors \in CorsOrigins \cup {None},
               Respond(r, status, cors, None), snap' = snap
        PROVE  RequestInv(r)'
    <3>1. /\ pc'[r] = "sent" /\ snap'[r] = None
          /\ answer'[r] = [status |-> status, cors |-> cors, content |-> None]
      BY <2>3, <2>4, <1>t DEF Respond, Goto
    <3>2. answer'[r] # None
      <4>1. answer'[r] \in Response
        BY <3>1 DEF Response
      <4> QED BY <4>1, PipelineConfig
    <3>3. ~Served(r)'
      BY <3>1 DEF Served
    <3> QED BY <2>3, <3>1, <3>2, <3>3
            DEF RequestInv, Shape, Allowed, Proven, Charges, Hides, Past
  <2>5. ASSUME snap' = [snap EXCEPT ![r] = served[q.listener]], Goto(r, "deny"), answer' = answer
        PROVE  RequestInv(r)'
    <3>1. /\ pc'[r] = "deny" /\ snap'[r] = served[q.listener] /\ answer'[r] = None
      BY <2>3, <2>5, <1>t DEF Goto
    <3>2. served[q.listener] # None
      BY <2>3, <1>n DEF TypeOK, Request
    <3>3. ~Served(r)'
      BY <3>1 DEF Served
    <3> QED BY <2>3, <3>1, <3>2, <3>3
            DEF RequestInv, Shape, Allowed, Proven, Charges, Hides, Past
  <2> QED BY <2>1, <2>4, <2>5
<1>2. ASSUME DenyList(r) PROVE RequestInv(r)'
  <2>1. /\ pc[r] = "deny" /\ req' = req /\ snap' = snap /\ ident' = ident /\ plan' = plan
        /\ body' = body /\ charged' = charged /\ seen' = seen
    BY <1>2 DEF DenyList
  <2>2. CASE Reject(r, 404)
    BY <2>1, <2>2, RejectKeeps DEF RequestInv, Charges
  <2>3. CASE /\ ~IsDenied(TableOf(r), req[r].listener, req[r].path)
             /\ Goto(r, "match") /\ answer' = answer
    <3>1. pc'[r] = "match" /\ answer'[r] = None /\ ~Served(r)'
      BY <2>1, <2>3, <1>s, <1>t DEF Goto, Served
    <3> QED BY <2>1, <2>3, <3>1
            DEF RequestInv, Shape, Allowed, Proven, Charges, Hides, Past, TableOf
  <2> QED BY <1>2, <2>2, <2>3 DEF DenyList
<1>3. ASSUME Match(r) PROVE RequestInv(r)'
  <2> DEFINE refusal == MatchRefusal(TableOf(r), RouteOf(r), req[r])
  <2>1. /\ pc[r] = "match" /\ req' = req /\ snap' = snap /\ ident' = ident /\ plan' = plan
        /\ body' = body /\ charged' = charged /\ seen' = seen
    BY <1>3 DEF Match
  <2>2. ASSUME refusal # None, Reject(r, refusal) PROVE RequestInv(r)'
    <3>1. refusal \in Nat
      BY <2>2, RefusalsTyped
    <3>2. ~IsDenied(snap[r].table, req[r].listener, req[r].path)
      BY <2>1 DEF RequestInv, Allowed, Past, TableOf
    <3>3. ASSUME NoRoute(r) PROVE refusal = 404
      <4>1. RouteOf(r) = None
        BY <2>1, <3>3, <1>s DEF NoRoute, RouteOf, TableOf, Request
      <4>2. ~IsPreflight(TableOf(r), req[r])
        BY <2>1, <3>3, <1>s DEF NoRoute, TableOf, Request, IsPreflight
      <4> QED BY <4>1, <4>2, MatchSettles
    <3>4. charged'[r] <= 1
      BY <2>1 DEF RequestInv, Charges
    <3> HIDE DEF refusal
    <3> QED BY <2>1, <2>2, <3>1, <3>2, <3>3, <3>4, RejectKeeps
  <2>3. ASSUME refusal = None, Goto(r, "limit"), answer' = answer PROVE RequestInv(r)'
    <3>1. pc'[r] = "limit" /\ answer'[r] = None /\ ~Served(r)'
      BY <2>1, <2>3, <1>s, <1>t DEF Goto, Served
    <3>2. /\ RouteOf(r) # None /\ RouteOf(r).upstream \in Upstreams
          /\ RouteOf(r).auth = "machine" => req[r].secret
      BY <2>3, MatchSettles
    <3>3. RouteOf(r)' = RouteOf(r) /\ TableOf(r)' = TableOf(r)
      BY <2>1 DEF RouteOf, TableOf
    <3>4. Shape(r)' /\ Proven(r)' /\ Charges(r)' /\ Hides(r)'
      BY <2>1, <3>1 DEF RequestInv, Shape, Proven, Charges, Hides, Past
    <3>5. Allowed(r)'
      BY <2>1, <3>1, <3>2, <3>3 DEF RequestInv, Allowed, Past
    <3> QED BY <3>4, <3>5 DEF RequestInv
  <2> QED BY <1>3, <2>2, <2>3 DEF Match
<1>4. ASSUME LimitCaller(r) PROVE RequestInv(r)'
  <2> DEFINE limit == RouteOf(r).limit
             key == LimitKey(req[r], None, limit)
  <2>1. /\ pc[r] = "limit" /\ req' = req /\ snap' = snap /\ ident' = ident /\ plan' = plan
        /\ body' = body /\ seen' = seen
    BY <1>4 DEF LimitCaller
  <2>2. charged[r] = 0 /\ ident[r] = None
    BY <2>1 DEF RequestInv, Charges, Proven
  <2>3. RouteOf(r)' = RouteOf(r) /\ TableOf(r)' = TableOf(r)
    BY <2>1 DEF RouteOf, TableOf
  <2>4. ASSUME NEW status \in Nat, Reject(r, status), charged'[r] <= 1 PROVE RequestInv(r)'
    BY <2>1, <2>4, MatchedIsNeither, RejectKeeps
  <2>5. ASSUME Goto(r, "credential"), answer' = answer, charged'[r] \in {0, 1},
               limit.key \in {"caller", "header"} => (key = "counted" => charged'[r] = 1),
               limit.key = "identity" => charged'[r] = 0
        PROVE  RequestInv(r)'
    <3>1. pc'[r] = "credential" /\ answer'[r] = None /\ ~Served(r)'
      BY <2>1, <2>5, <1>s, <1>t DEF Goto, Served
    <3>2. Shape(r)' /\ Proven(r)' /\ Hides(r)'
      BY <2>1, <3>1 DEF RequestInv, Shape, Proven, Hides, Past
    <3>3. Allowed(r)'
      BY <2>1, <2>3, <3>1 DEF RequestInv, Allowed, Past
    <3>4. Charges(r)'
      BY <2>1, <2>2, <2>3, <2>5, <3>1 DEF RequestInv, Charges, Past
    <3> QED BY <3>2, <3>3, <3>4 DEF RequestInv
  <2>6. CASE limit.key \in {"caller", "header"} /\ CheckRateLimit(r, None, "credential")
    <3>1. charged'[r] = IF key = "counted" THEN 1 ELSE 0
      BY <2>2, <2>6, <1>t DEF CheckRateLimit
    <3> QED BY <2>4, <2>5, <2>6, <3>1 DEF CheckRateLimit
  <2>7. CASE /\ limit.key \in {"none", "identity"} /\ Goto(r, "credential")
             /\ answer' = answer /\ charged' = charged
    BY <2>2, <2>5, <2>7
  <2> QED BY <1>4, <2>6, <2>7 DEF LimitCaller
<1>5. ASSUME Credential(r) PROVE RequestInv(r)'
  <2> DEFINE refusal == CredentialRefusal(RouteOf(r), req[r])
  <2>1. /\ pc[r] = "credential" /\ req' = req /\ snap' = snap /\ ident' = ident /\ plan' = plan
        /\ body' = body /\ charged' = charged /\ seen' = seen
    BY <1>5 DEF Credential
  <2>2. ASSUME refusal # None, Reject(r, refusal) PROVE RequestInv(r)'
    <3>1. refusal \in Nat
      BY <2>2, RefusalsTyped
    <3>2. charged'[r] <= 1
      BY <2>1 DEF RequestInv, Charges
    <3> HIDE DEF refusal
    <3> QED BY <2>1, <2>2, <3>1, <3>2, MatchedIsNeither, RejectKeeps
  <2>3. ASSUME refusal = None, answer' = answer,
               Goto(r, IF Verifies(RouteOf(r)) /\ Bearer(req[r]) # None THEN "verify"
                       ELSE "identity")
        PROVE  RequestInv(r)'
    <3>1. /\ answer'[r] = None /\ ~Served(r)'
          /\ pc'[r] = IF Verifies(RouteOf(r)) /\ Bearer(req[r]) # None THEN "verify"
                      ELSE "identity"
      BY <2>1, <2>3, <1>s, <1>t DEF Goto, Served
    <3>2. /\ NeedsClientKey(RouteOf(r), req[r]) => req[r].client_key = "good"
          /\ Verifies(RouteOf(r)) /\ ByCookie(req[r]) => CookieOriginAllowed(req[r])
          /\ RouteOf(r).auth = "required" => Bearer(req[r]) # None
      BY <2>3, CredentialSettles
    <3>3. RouteOf(r)' = RouteOf(r) /\ TableOf(r)' = TableOf(r)
      BY <2>1 DEF RouteOf, TableOf
    <3>4. Shape(r)' /\ Hides(r)'
      BY <2>1, <3>1 DEF RequestInv, Shape, Hides, Past
    <3>5. Allowed(r)'
      BY <2>1, <3>1, <3>2, <3>3 DEF RequestInv, Allowed, Past
    <3>6. Proven(r)'
      BY <2>1, <3>1, <3>3 DEF RequestInv, Proven, Past
    <3>7. Charges(r)'
      BY <2>1, <3>1, <3>3 DEF RequestInv, Charges, Past
    <3> QED BY <3>4, <3>5, <3>6, <3>7 DEF RequestInv
  <2> QED BY <1>5, <2>2, <2>3 DEF Credential
<1>6. ASSUME Verify(r) PROVE RequestInv(r)'
  <2>1. /\ pc[r] = "verify" /\ req' = req /\ snap' = snap /\ plan' = plan
        /\ body' = body /\ charged' = charged /\ seen' = seen
    BY <1>6 DEF Verify
  <2>2. charged'[r] <= 1
    BY <2>1 DEF RequestInv, Charges
  <2>3. ASSUME NEW status \in Nat, Reject(r, status) PROVE RequestInv(r)'
    BY <2>1, <2>2, <2>3, MatchedIsNeither, RejectKeeps
  <2>4. ASSUME Bearer(req[r]) \in Identities, Goto(r, "identity"), answer' = answer,
               ident' = [ident EXCEPT ![r] = Bearer(req[r])]
        PROVE  RequestInv(r)'
    <3>1. /\ answer'[r] = None /\ ~Served(r)' /\ pc'[r] = "identity"
          /\ ident'[r] = Bearer(req[r])
      BY <2>1, <2>4, <1>s, <1>t DEF Goto, Served
    <3>2. RouteOf(r)' = RouteOf(r) /\ TableOf(r)' = TableOf(r)
      BY <2>1 DEF RouteOf, TableOf
    <3>3. Shape(r)' /\ Hides(r)'
      BY <2>1, <3>1 DEF RequestInv, Shape, Hides, Past
    <3>4. Allowed(r)'
      BY <2>1, <3>1, <3>2 DEF RequestInv, Allowed, Past
    <3>5. Proven(r)'
      BY <2>1, <3>1, <3>2 DEF RequestInv, Allowed, Proven, Past
    <3>6. Charges(r)'
      BY <2>1, <3>1, <3>2 DEF RequestInv, Charges, Past, LimitKey
    <3> QED BY <3>3, <3>4, <3>5, <3>6 DEF RequestInv
  <2> QED BY <1>6, <2>3, <2>4 DEF Verify
<1>7. ASSUME LimitIdentity(r) PROVE RequestInv(r)'
  <2> DEFINE limit == RouteOf(r).limit
             key == LimitKey(req[r], ident[r], limit)
  <2>1. /\ pc[r] = "identity" /\ req' = req /\ snap' = snap /\ ident' = ident /\ plan' = plan
        /\ body' = body /\ seen' = seen
    BY <1>7 DEF LimitIdentity
  <2>2. charged[r] <= 1 /\ charged[r] \in Nat /\ (limit.key = "identity" => charged[r] = 0)
    BY <2>1, <1>t DEF RequestInv, Charges
  <2>3. RouteOf(r)' = RouteOf(r) /\ TableOf(r)' = TableOf(r)
    BY <2>1 DEF RouteOf, TableOf
  <2>4. ASSUME NEW status \in Nat, Reject(r, status), charged'[r] <= 1 PROVE RequestInv(r)'
    BY <2>1, <2>4, MatchedIsNeither, RejectKeeps
  <2>5. ASSUME Goto(r, "plan"), answer' = answer, charged'[r] <= 1,
               limit.key = "identity" => (key = "counted" => charged'[r] = 1),
               limit.key # "identity" => charged'[r] = charged[r]
        PROVE  RequestInv(r)'
    <3>1. pc'[r] = "plan" /\ answer'[r] = None /\ ~Served(r)'
      BY <2>1, <2>5, <1>s, <1>t DEF Goto, Served
    <3>2. Shape(r)' /\ Hides(r)'
      BY <2>1, <3>1 DEF RequestInv, Shape, Hides, Past
    <3>3. Allowed(r)'
      BY <2>1, <2>3, <3>1 DEF RequestInv, Allowed, Past
    <3>4. Proven(r)'
      BY <2>1, <2>3, <3>1 DEF RequestInv, Proven, Past
    <3>5. Charges(r)'
      BY <2>1, <2>2, <2>3, <2>5, <3>1 DEF RequestInv, Charges, Past
    <3> QED BY <3>2, <3>3, <3>4, <3>5 DEF RequestInv
  <2>6. CASE limit.key = "identity" /\ CheckRateLimit(r, ident[r], "plan")
    <3>1. charged'[r] = IF key = "counted" THEN 1 ELSE 0
      BY <2>2, <2>6, <1>t DEF CheckRateLimit
    <3> QED BY <2>4, <2>5, <2>6, <3>1 DEF CheckRateLimit
  <2>7. CASE /\ limit.key # "identity" /\ Goto(r, "plan")
             /\ answer' = answer /\ charged' = charged
    BY <2>2, <2>5, <2>7
  <2> QED BY <1>7, <2>6, <2>7 DEF LimitIdentity
<1>8. ASSUME Describe(r) PROVE RequestInv(r)'
  <2>1. /\ pc[r] = "plan" /\ req' = req /\ snap' = snap /\ ident' = ident
        /\ body' = body /\ charged' = charged /\ seen' = seen
    BY <1>8 DEF Describe
  <2>2. charged'[r] <= 1
    BY <2>1 DEF RequestInv, Charges
  <2>3. ASSUME NEW status \in Nat, Reject(r, status) PROVE RequestInv(r)'
    BY <2>1, <2>2, <2>3, MatchedIsNeither, RejectKeeps
  <2>4. ASSUME RouteOf(r).bound => BindingPermits(r), Goto(r, "extend"), answer' = answer,
               plan' = [plan EXCEPT ![r] = IdentityPlan(r)]
        PROVE  RequestInv(r)'
    <3>1. /\ answer'[r] = None /\ ~Served(r)' /\ pc'[r] = "extend"
          /\ plan'[r] = [removes |-> TRUE, adds |-> ident[r]]
      BY <2>1, <2>4, <1>s, <1>t DEF Goto, Served, IdentityPlan
    <3>2. RouteOf(r)' = RouteOf(r) /\ TableOf(r)' = TableOf(r)
      BY <2>1 DEF RouteOf, TableOf
    <3>3. Shape(r)' /\ Hides(r)'
      BY <2>1, <3>1 DEF RequestInv, Shape, Hides, Past
    <3>4. Allowed(r)'
      BY <2>1, <2>4, <3>1, <3>2 DEF RequestInv, Allowed, Past, BindingPermits
    <3>5. Proven(r)'
      BY <2>1, <3>1, <3>2 DEF RequestInv, Proven, Past
    <3>6. Charges(r)'
      BY <2>1, <3>1, <3>2 DEF RequestInv, Charges, Past
    <3> QED BY <3>3, <3>4, <3>5, <3>6 DEF RequestInv
  <2> QED BY <1>8, <2>3, <2>4 DEF Describe
\* From here on nothing is decided but whether the request goes on.
<1>g. ASSUME pc[r] \in AfterPlan, NEW to \in AfterPlan, Goto(r, to), answer' = answer,
             req' = req, snap' = snap, ident' = ident, plan' = plan, body' = body,
             charged' = charged, seen' = seen
      PROVE  RequestInv(r)'
  <2>1. answer'[r] = None /\ ~Served(r)' /\ pc'[r] = to
    BY <1>g, <1>s, <1>t DEF Goto, Served
  <2>2. RouteOf(r)' = RouteOf(r) /\ TableOf(r)' = TableOf(r)
    BY <1>g DEF RouteOf, TableOf
  <2>3. Shape(r)' /\ Hides(r)'
    BY <1>g, <2>1 DEF RequestInv, Shape, Hides, Past
  <2>4. Allowed(r)'
    BY <1>g, <2>1, <2>2 DEF RequestInv, Allowed, Past, BindingPermits
  <2>5. Proven(r)'
    BY <1>g, <2>1, <2>2 DEF RequestInv, Proven, Past
  <2>6. Charges(r)'
    BY <1>g, <2>1, <2>2 DEF RequestInv, Charges, Past
  <2> QED BY <2>3, <2>4, <2>5, <2>6 DEF RequestInv
<1>9. ASSUME Extend(r) PROVE RequestInv(r)'
  <2>1. /\ pc[r] = "extend" /\ req' = req /\ snap' = snap /\ ident' = ident /\ plan' = plan
        /\ body' = body /\ charged' = charged /\ seen' = seen
    BY <1>9 DEF Extend
  <2>2. charged'[r] <= 1
    BY <2>1 DEF RequestInv, Charges
  <2>3. ASSUME NEW status \in Nat, Reject(r, status) PROVE RequestInv(r)'
    BY <2>1, <2>2, <2>3, MatchedIsNeither, RejectKeeps
  <2> QED BY <1>9, <1>g, <2>1, <2>3 DEF Extend
<1>11. ASSUME Admit(r) PROVE RequestInv(r)'
  <2>1. /\ pc[r] = "admit" /\ req' = req /\ snap' = snap /\ ident' = ident /\ plan' = plan
        /\ body' = body /\ charged' = charged /\ seen' = seen
    BY <1>11 DEF Admit
  <2>2. charged'[r] <= 1
    BY <2>1 DEF RequestInv, Charges
  <2>3. ASSUME NEW status \in Nat, Reject(r, status) PROVE RequestInv(r)'
    BY <2>1, <2>2, <2>3, MatchedIsNeither, RejectKeeps
  <2> QED BY <1>11, <1>g, <2>1, <2>3 DEF Admit
\* A response of the upstream, fresh or stored.
<1>e. ASSUME pc[r] \in AfterPlan, NEW e \in Entry, Respond(r, 200, CorsResponse(req[r]), e),
             req' = req, snap' = snap, ident' = ident, plan' = plan,
             charged' = charged, seen' = seen
      PROVE  RequestInv(r)'
  <2>1. /\ pc'[r] = "sent"
        /\ answer'[r] = [status |-> 200, cors |-> CorsResponse(req[r]), content |-> e]
    BY <1>e, <1>t DEF Respond, Goto
  <2>2. answer'[r] # None
    <3>1. answer'[r] \in Response
      BY <2>1 DEF Response, CorsResponse
    <3> QED BY <3>1, PipelineConfig
  <2>3. RouteOf(r)' = RouteOf(r) /\ TableOf(r)' = TableOf(r) /\ NoRoute(r)' = NoRoute(r)
    BY <1>e DEF RouteOf, TableOf, NoRoute
  <2>4. Shape(r)'
    BY <1>e, <2>1, <2>2 DEF RequestInv, Shape, Past
  <2>5. Allowed(r)'
    BY <1>e, <2>1, <2>3 DEF RequestInv, Allowed, Past, BindingPermits
  <2>6. Proven(r)'
    BY <1>e, <2>1, <2>3 DEF RequestInv, Proven, Past
  <2>7. Charges(r)'
    BY <1>e, <2>1, <2>3 DEF RequestInv, Charges, Past
  <2>8. Hides(r)'
    BY <1>e, <2>1, <2>3, MatchedIsNeither DEF Hides
  <2> QED BY <2>4, <2>5, <2>6, <2>7, <2>8 DEF RequestInv
<1>10. ASSUME Lookup(r) PROVE RequestInv(r)'
  <2>1. /\ pc[r] = "lookup" /\ req' = req /\ snap' = snap /\ ident' = ident /\ plan' = plan
        /\ body' = body /\ charged' = charged /\ seen' = seen
    BY <1>10 DEF Lookup
  <2>2. cache \subseteq Entry
    BY DEF TypeOK
  <2> QED BY <1>10, <1>e, <1>g, <2>1, <2>2 DEF Lookup
<1>12. ASSUME UpstreamResponds(r) PROVE RequestInv(r)'
  <2>1. /\ pc[r] = "upstream" /\ req' = req /\ snap' = snap /\ ident' = ident /\ plan' = plan
        /\ charged' = charged /\ seen' = seen
    BY <1>12 DEF UpstreamResponds
  <2>2. PICK e \in Entry : Respond(r, 200, CorsResponse(req[r]), e)
    BY <1>12, <2>1, ResponseTyped DEF UpstreamResponds
  <2> QED BY <1>e, <2>1, <2>2
<1>13. ASSUME Finish(r) \/ (FailToProxy(r) /\ pc[r] = "sent") PROVE RequestInv(r)'
  <2>1. /\ pc[r] = "sent" /\ req' = req /\ snap' = snap /\ ident' = ident /\ plan' = plan
        /\ body' = body /\ charged' = charged /\ seen' = seen /\ answer[r] # None
    BY <1>13 DEF Finish, FailToProxy, RequestInv, Shape
  <2>2. pc'[r] = "done" /\ answer'[r] = answer[r]
    BY <1>13, <2>1, <1>t DEF Finish, FailToProxy, Goto, NothingWritten
  <2>3. /\ RouteOf(r)' = RouteOf(r) /\ TableOf(r)' = TableOf(r) /\ NoRoute(r)' = NoRoute(r)
        /\ Served(r)' = Served(r) /\ NotFound(r)' = NotFound(r)
        /\ BindingPermits(r)' = BindingPermits(r)
    BY <2>1, <2>2 DEF RouteOf, TableOf, NoRoute, Served, NotFound, BindingPermits
  <2>4. Shape(r)'
    BY <2>1, <2>2, <2>3 DEF RequestInv, Shape, Past
  <2>5. Allowed(r)'
    BY <2>1, <2>2, <2>3 DEF RequestInv, Allowed, Past
  <2>6. Proven(r)'
    BY <2>1, <2>2, <2>3 DEF RequestInv, Proven, Past
  <2>7. Charges(r)'
    BY <2>1, <2>2, <2>3 DEF RequestInv, Charges, Past
  <2>8. Hides(r)'
    BY <2>1, <2>2, <2>3 DEF RequestInv, Hides
  <2> QED BY <2>4, <2>5, <2>6, <2>7, <2>8 DEF RequestInv
<1>14. ASSUME FailToProxy(r), pc[r] = "upstream" PROVE RequestInv(r)'
  <2>1. /\ req' = req /\ snap' = snap /\ ident' = ident /\ plan' = plan
        /\ body' = body /\ charged' = charged /\ seen' = seen
    BY <1>14 DEF FailToProxy
  <2>2. PICK status \in Nat :
           answer' = [answer EXCEPT ![r] = [status |-> status, cors |-> None, content |-> None]]
    BY <1>14, <1>s DEF FailToProxy, NothingWritten
  <2>3. /\ pc'[r] = "done"
        /\ answer'[r] = [status |-> status, cors |-> None, content |-> None]
    BY <1>14, <2>2, <1>t DEF FailToProxy, Goto
  <2>4. answer'[r] # None
    <3>1. answer'[r] \in Response
      BY <2>3 DEF Response
    <3> QED BY <3>1, PipelineConfig
  <2>5. ~Served(r)' /\ NoRoute(r)' = NoRoute(r)
    BY <2>1, <2>3 DEF Served, NoRoute
  <2>6. Shape(r)' /\ Allowed(r)' /\ Proven(r)' /\ Charges(r)'
    BY <1>14, <2>1, <2>3, <2>4, <2>5
       DEF RequestInv, Shape, Allowed, Proven, Charges, Past
  <2>7. Hides(r)'
    BY <1>14, <2>1, <2>3, <2>5, MatchedIsNeither DEF Hides
  <2> QED BY <2>6, <2>7 DEF RequestInv
<1> QED
  BY <1>1, <1>2, <1>3, <1>4, <1>5, <1>6, <1>7, <1>8, <1>9, <1>10, <1>11, <1>12, <1>13, <1>14
     DEF Step, FailToProxy

\* The type invariant is kept.
LEMMA TypeStep ==
    ASSUME TypeOK, PipelineInv, [Next]_vars
    PROVE  TypeOK'
<1> USE DEF TypeOK
<1>p. Pc = {"idle", "sent", "done"} \cup Filtering
  BY DEF Pc, Filtering, AfterDeny, AfterMatch, AfterLimit, AfterCredential,
         AfterVerify, AfterIdentity, AfterPlan
<1>r. ASSUME NEW r \in Requests, NEW status \in Nat, NEW cors \in CorsOrigins \cup {None},
             NEW content \in Entry \cup {None}, Respond(r, status, cors, content)
      PROVE  answer' \in [Requests -> Response \cup {None}] /\ pc' \in [Requests -> Pc]
  BY <1>r DEF Respond, Goto, Response, Pc
<1>c. \A q : CorsResponse(q) \in CorsOrigins \cup {None}
  BY DEF CorsResponse
<1>j. ASSUME NEW r \in Requests, NEW status \in Nat, Reject(r, status)
      PROVE  answer' \in [Requests -> Response \cup {None}] /\ pc' \in [Requests -> Pc]
  BY <1>j, <1>r, <1>c DEF Reject
<1>1. ASSUME NEW l \in Listeners, NEW t \in TableIds, Store(l, t),
             pending' \in TableIds \cup {None}
      PROVE  TypeOK'
  BY <1>1 DEF Store, Published
<1>2. CASE PublishPublic
  BY <1>1, <1>2 DEF PublishPublic, Listeners
<1>3. CASE PublishInternal
  BY <1>1, <1>3 DEF PublishInternal, Listeners
<1>4. ASSUME NEW r \in Requests, Receive(r) PROVE TypeOK'
  <2>1. PICK q \in Arrivals :
          /\ req' = [req EXCEPT ![r] = q]
          /\ seen' = [seen EXCEPT ![r] = {served[q.listener].table}]
          /\ \/ Respond(r, 200, None, None) /\ snap' = snap
             \/ /\ ReceiveRefusal(q) # None
                /\ Respond(r, ReceiveRefusal(q), CorsResponse(q), None) /\ snap' = snap
             \/ /\ snap' = [snap EXCEPT ![r] = served[q.listener]]
                /\ Goto(r, "deny") /\ answer' = answer
    BY <1>4 DEF Receive
  <2>2. q \in Request /\ served[q.listener] \in Published /\ served[q.listener].table \in TableIds
    BY PipelineConfig DEF Request, Published
  <2>3. answer' \in [Requests -> Response \cup {None}] /\ pc' \in [Requests -> Pc]
    BY <2>1, <1>r, <1>c, RefusalsTyped DEF Goto, Pc
  <2>4. UNCHANGED <<shared, ident, plan, body, charged>>
    BY <1>4 DEF Receive
  <2> QED BY <2>1, <2>2, <2>3, <2>4 DEF shared
<1>5. ASSUME NEW r \in Requests, DenyList(r) \/ Match(r) \/ Credential(r) \/ Extend(r) \/ Admit(r)
      PROVE  TypeOK'
  <2>1. answer' \in [Requests -> Response \cup {None}] /\ pc' \in [Requests -> Pc]
    BY <1>5, <1>j, RefusalsTyped DEF DenyList, Match, Credential, Extend, Admit, Goto, Pc
  <2>2. UNCHANGED <<shared, req, snap, ident, plan, body, charged, seen>>
    BY <1>5 DEF DenyList, Match, Credential, Extend, Admit
  <2> QED BY <2>1, <2>2 DEF shared
<1>6. ASSUME NEW r \in Requests, LimitCaller(r) \/ LimitIdentity(r) PROVE TypeOK'
  <2>1. answer' \in [Requests -> Response \cup {None}] /\ pc' \in [Requests -> Pc]
    BY <1>6, <1>j DEF LimitCaller, LimitIdentity, CheckRateLimit, Goto, Pc
  <2>2. charged' \in [Requests -> Nat]
    BY <1>6 DEF LimitCaller, LimitIdentity, CheckRateLimit
  <2>3. UNCHANGED <<shared, req, snap, ident, plan, body, seen>>
    BY <1>6 DEF LimitCaller, LimitIdentity
  <2> QED BY <2>1, <2>2, <2>3 DEF shared
<1>7. ASSUME NEW r \in Requests, Verify(r) PROVE TypeOK'
  <2>1. answer' \in [Requests -> Response \cup {None}] /\ pc' \in [Requests -> Pc]
    BY <1>7, <1>j DEF Verify, Goto, Pc
  <2>2. ident' \in [Requests -> Identities \cup {None}]
    BY <1>7 DEF Verify
  <2>3. UNCHANGED <<shared, req, snap, plan, body, charged, seen>>
    BY <1>7 DEF Verify
  <2> QED BY <2>1, <2>2, <2>3 DEF shared
<1>8. ASSUME NEW r \in Requests, Describe(r) PROVE TypeOK'
  <2>1. answer' \in [Requests -> Response \cup {None}] /\ pc' \in [Requests -> Pc]
    BY <1>8, <1>j DEF Describe, Goto, Pc
  <2>2. IdentityPlan(r) \in Plan
    BY DEF IdentityPlan, Plan
  <2>3. plan' \in [Requests -> Plan \cup {None}]
    BY <1>8, <2>2 DEF Describe
  <2>4. UNCHANGED <<shared, req, snap, ident, body, charged, seen>>
    BY <1>8 DEF Describe
  <2> QED BY <2>1, <2>3, <2>4 DEF shared
<1>9. ASSUME NEW r \in Requests, Lookup(r) PROVE TypeOK'
  <2>1. answer' \in [Requests -> Response \cup {None}] /\ pc' \in [Requests -> Pc]
    BY <1>9, <1>r, <1>c DEF Lookup, Goto, Pc
  <2>2. UNCHANGED <<shared, req, snap, ident, plan, body, charged, seen>>
    BY <1>9 DEF Lookup
  <2> QED BY <2>1, <2>2 DEF shared
<1>10. ASSUME NEW r \in Requests, UpstreamResponds(r) PROVE TypeOK'
  <2>1. RequestInv(r) /\ pc[r] = "upstream"
    BY <1>10 DEF PipelineInv, UpstreamResponds
  <2>2. PICK e \in Entry : body' = [body EXCEPT ![r] = e] /\ Respond(r, 200, CorsResponse(req[r]), e)
    BY <1>10, <2>1, ResponseTyped DEF UpstreamResponds
  <2>3. answer' \in [Requests -> Response \cup {None}] /\ pc' \in [Requests -> Pc]
    BY <2>2, <1>r, <1>c
  <2>4. body' \in [Requests -> Entry \cup {None}]
    BY <2>2
  <2>5. UNCHANGED <<shared, req, snap, ident, plan, charged, seen>>
    BY <1>10 DEF UpstreamResponds
  <2> QED BY <2>3, <2>4, <2>5 DEF shared
<1>11. ASSUME NEW r \in Requests, Finish(r) PROVE TypeOK'
  BY <1>11 DEF Finish, Goto, Pc
<1>12. ASSUME NEW r \in Requests, FailToProxy(r) PROVE TypeOK'
  <2>1. answer' \in [Requests -> Response \cup {None}] /\ pc' \in [Requests -> Pc]
    BY <1>12 DEF FailToProxy, Goto, Pc, Response
  <2>2. UNCHANGED <<shared, req, snap, ident, plan, body, charged, seen>>
    BY <1>12 DEF FailToProxy
  <2> QED BY <2>1, <2>2 DEF shared
<1>13. CASE UNCHANGED vars
  BY <1>13 DEF vars
<1> QED BY <1>2, <1>3, <1>4, <1>5, <1>6, <1>7, <1>8, <1>9, <1>10, <1>11, <1>12, <1>13
        DEF Next, Step

\* Every stage keeps what the earlier ones established.
LEMMA PipelineInvStep ==
    ASSUME TypeOK, PipelineInv, [Next]_vars
    PROVE  PipelineInv'
<1> SUFFICES ASSUME NEW r \in Requests PROVE RequestInv(r)'
  BY DEF PipelineInv
<1>0. RequestInv(r)
  BY DEF PipelineInv
<1>1. CASE PublishPublic \/ PublishInternal
  <2>1. Local(r)' = Local(r) /\ seen[r] \subseteq seen'[r]
    BY <1>1 DEF PublishPublic, PublishInternal, Store, Local
  <2> QED BY <1>0, <2>1, LocalStable
<1>2. CASE Step(r)
  BY <1>0, <1>2, RequestStep
<1>3. ASSUME NEW s \in Requests, s # r, Step(s) PROVE RequestInv(r)'
  <2>1. Local(r)' = Local(r) /\ seen[r] \subseteq seen'[r]
    BY <1>3, StepIsLocal
  <2> QED BY <1>0, <2>1, LocalStable
<1>4. CASE UNCHANGED vars
  <2>1. Local(r)' = Local(r) /\ seen[r] \subseteq seen'[r]
    BY <1>4 DEF vars, Local
  <2> QED BY <1>0, <2>1, LocalStable
<1> QED BY <1>1, <1>2, <1>3, <1>4 DEF Next

\* No request is under way at the start.
LEMMA PipelineInit == Init => TypeOK /\ PipelineInv
<1> SUFFICES ASSUME Init PROVE TypeOK /\ PipelineInv
  OBVIOUS
<1>1. TypeOK
  BY PipelineConfig DEF Init, TypeOK, Pc, Listeners, Published
<1>2. ASSUME NEW r \in Requests PROVE RequestInv(r)
  <2>1. /\ pc[r] = "idle" /\ snap[r] = None /\ answer[r] = None /\ body[r] = None
        /\ ident[r] = None /\ charged[r] = 0 /\ ~Served(r)
    BY DEF Init, Served
  <2> QED BY <2>1 DEF RequestInv, Shape, Allowed, Proven, Charges, Hides, Past,
                      Filtering, AfterDeny, AfterMatch, AfterLimit, AfterCredential,
                      AfterVerify, AfterIdentity, AfterPlan
<1> QED BY <1>1, <1>2 DEF PipelineInv

\* The stages' invariant holds throughout.
LEMMA PipelineInvariant == Spec => [](TypeOK /\ PipelineInv)
<1>1. TypeOK /\ PipelineInv /\ [Next]_vars => (TypeOK /\ PipelineInv)'
  BY TypeStep, PipelineInvStep
<1> QED BY <1>1, PipelineInit, PTL DEF Spec

-----------------------------------------------------------------------------
(***************************************************************************)
(* What follows for every request                                          *)
(***************************************************************************)

\* The state of the pipeline and of the cache stays well typed.
THEOREM PipelineTypeCorrect == Spec => []TypeOK
BY PipelineInvariant, PTL

\* Whatever reloads happen while it is in progress, a request reaches the upstream
\* or a stored response only if one published table permits all of it.
THEOREM OneTableDecides == Spec => []OneTablePermits
<1>1. TypeOK /\ PipelineInv => OneTablePermits
  <2> SUFFICES ASSUME TypeOK, PipelineInv, NEW r \in Requests, Reached(r)
               PROVE  \E t \in seen[r] : Permits(t, req[r])
    BY DEF OneTablePermits
  <2> DEFINE q == req[r]
             route == RouteOf(r)
  <2>0. RequestInv(r)
    BY DEF PipelineInv
  <2>1. /\ Past(r, AfterPlan) /\ Past(r, AfterVerify) /\ Past(r, AfterCredential)
        /\ Past(r, AfterMatch) /\ Past(r, AfterDeny) /\ Past(r, Filtering)
    BY DEF Reached, Past, Served, Filtering, AfterDeny, AfterMatch, AfterLimit,
           AfterCredential, AfterVerify, AfterIdentity, AfterPlan
  <2>2. /\ snap[r].table \in seen[r]
        /\ route \in Route /\ OnListener(route, q.listener) /\ q \in Request
    BY <2>0, <2>1, PastMatch DEF RequestInv, Shape
  <2>3. ident[r] = IF Verifies(route) THEN Bearer(q) ELSE None
    BY <2>0, <2>1 DEF RequestInv, Proven
  <2>4. ident[r] \in Identities \cup {None}
    BY DEF TypeOK
  <2>5. /\ ~IsDenied(snap[r].table, q.listener, q.path)
        /\ route # None
        /\ route.auth = "machine" => q.secret
        /\ NeedsClientKey(route, q) => q.client_key = "good"
        /\ Verifies(route) /\ ByCookie(q) => CookieOriginAllowed(q)
        /\ route.auth = "required" => Bearer(q) # None
        /\ route.bound => ident[r] # None /\ q.owner = ident[r]
    BY <2>0, <2>1 DEF RequestInv, Allowed, TableOf, BindingPermits
  <2>6. route.auth = "machine" => q.listener = "internal"
    BY <2>2 DEF OnListener
  <2>7. route.auth = "required" => Verifies(route)
    BY DEF Verifies
  <2>8. route = MatchRequest(snap[r].table, q.listener, q.path, q.method)
    BY DEF RouteOf, TableOf
  <2> HIDE DEF route, q
  <2>9. Permits(snap[r].table, q)
    BY <2>3, <2>4, <2>5, <2>6, <2>7, <2>8 DEF Permits
  <2> QED BY <2>2, <2>9 DEF q
<1> QED BY <1>1, PipelineInvariant, PTL

\* The upstream sees the identity that the tier verified, and no other.
THEOREM IdentityIsVerified == Spec => []IdentityHonest
<1>1. TypeOK /\ PipelineInv => IdentityHonest
  <2> SUFFICES ASSUME TypeOK, PipelineInv, NEW r \in Requests, Reached(r)
               PROVE  Sees(r) = IF Verifies(RouteOf(r)) THEN Bearer(req[r]) ELSE None
    BY DEF IdentityHonest, Bearer
  <2>1. Past(r, AfterPlan) /\ Past(r, AfterVerify)
    BY DEF Reached, Past, Served, AfterVerify, AfterIdentity, AfterPlan
  <2>2. /\ ident[r] = IF Verifies(RouteOf(r)) THEN Bearer(req[r]) ELSE None
        /\ plan[r] = [removes |-> TRUE, adds |-> ident[r]]
    BY <2>1 DEF PipelineInv, RequestInv, Proven
  <2> QED BY <2>2 DEF Sees
<1> QED BY <1>1, PipelineInvariant, PTL

\* A request is charged at most once, before its token is verified where the limit
\* needs no identity, and exactly once if it gets through and has a key.
THEOREM LimitsChargeOnce == Spec => []ChargedOnce
<1>1. TypeOK /\ PipelineInv => ChargedOnce
  <2> SUFFICES ASSUME TypeOK, PipelineInv, NEW r \in Requests
               PROVE  /\ charged[r] <= 1
                      /\ pc[r] = "verify" =>
                            (RouteOf(r).limit.key = "caller" => charged[r] = 1)
                      /\ Reached(r) /\ RouteOf(r).limit.key # "none" =>
                            (LimitKey(req[r], ident[r], RouteOf(r).limit) = "counted" =>
                                charged[r] = 1)
    BY DEF ChargedOnce
  <2>0. RequestInv(r)
    BY DEF PipelineInv
  <2>1. charged[r] <= 1
    BY <2>0 DEF RequestInv, Charges
  <2>2. ASSUME pc[r] = "verify", RouteOf(r).limit.key = "caller" PROVE charged[r] = 1
    <3>1. Past(r, AfterLimit)
      BY <2>2 DEF Past, AfterLimit, AfterCredential
    <3>2. LimitKey(req[r], ident[r], RouteOf(r).limit) = "counted"
      BY <2>2 DEF LimitKey
    <3> QED BY <2>0, <2>2, <3>1, <3>2 DEF RequestInv, Charges
  <2>3. ASSUME Reached(r), RouteOf(r).limit.key # "none",
               LimitKey(req[r], ident[r], RouteOf(r).limit) = "counted"
        PROVE  charged[r] = 1
    <3>1. Past(r, AfterMatch) /\ Past(r, AfterLimit) /\ Past(r, AfterIdentity)
      BY <2>3 DEF Reached, Past, Served, AfterMatch, AfterLimit, AfterCredential, AfterVerify,
                  AfterIdentity, AfterPlan
    <3>2. RouteOf(r) \in Route
      BY <2>0, <3>1, PastMatch
    <3>3. RouteOf(r).limit.key \in {"caller", "header", "identity"}
      BY <2>3, <3>2 DEF Route, Quota
    <3> QED BY <2>0, <2>3, <3>1, <3>3 DEF RequestInv, Charges
  <2> QED BY <2>1, <2>2, <2>3
<1> QED BY <1>1, PipelineInvariant, PTL

\* A denied path gets the answer of one that no route serves.
THEOREM DeniedLooksUnknown == Spec => []DenyListHidden
<1>1. TypeOK /\ PipelineInv => DenyListHidden
  <2> SUFFICES ASSUME TypeOK, PipelineInv, NEW r \in Requests, NEW u \in Requests,
                      Hidden(r), Unknown(u), [req[u] EXCEPT !.path = req[r].path] = req[r]
               PROVE  answer[r] = answer[u]
    BY DEF DenyListHidden
  <2>1. answer[r] = NotFound(r) /\ answer[u] = NotFound(u)
    BY DEF PipelineInv, RequestInv, Hides, Hidden, Unknown, NoRoute
  <2>2. req[u] \in Request
    BY DEF PipelineInv, RequestInv, Shape, Unknown, TypeOK
  <2>3. req[r].origin = req[u].origin
    BY <2>2 DEF Request
  <2> QED BY <2>1, <2>3 DEF NotFound, CorsResponse
<1> QED BY <1>1, PipelineInvariant, PTL

-----------------------------------------------------------------------------
(***************************************************************************)
(* The cache across reloads                                                *)
(***************************************************************************)

\* No new table comes into use but by a reload.
LEMMA ApartStable ==
    ASSUME NamespacesApart, Uses' \subseteq Uses, stores' = stores
    PROVE  NamespacesApart'
BY DEF NamespacesApart

\* Every use is typed.
LEMMA UsesTyped ==
    ASSUME TypeOK, PipelineInv
    PROVE  \A u \in Uses : u[2] \in Published
<1>1. \A l \in Listeners : served[l] \in Published
  BY DEF TypeOK
<1>2. \A r \in Requests : snap[r] # None => snap[r] \in Published
  BY DEF TypeOK
<1>3. \A e \in cache : e.under[2] \in Published
  BY DEF TypeOK, Entry
<1> QED BY <1>1, <1>2, <1>3 DEF Uses

\* A reload takes a namespace that nothing else has.
LEMMA StoreApart ==
    ASSUME TypeOK, PipelineInv, CacheInv, NEW l \in Listeners, NEW t \in TableIds, Store(l, t)
    PROVE  CacheInv'
<1> DEFINE new == [table |-> t, ns |-> stores + 1]
<1>1. /\ served' = [served EXCEPT ![l] = new] /\ stores' = stores + 1 /\ cache' = cache
      /\ req' = req /\ snap' = snap /\ plan' = plan /\ body' = body /\ answer' = answer
  BY DEF Store
<1>2. served \in [Listeners -> Published] /\ stores \in Nat
  BY DEF TypeOK
<1>3. Uses' \subseteq Uses \cup {<<l, new>>}
  <2>1. {<<m, served'[m]>> : m \in Listeners} \subseteq Uses \cup {<<l, new>>}
    BY <1>1, <1>2 DEF Uses
  <2>2. {<<req'[r].listener, snap'[r]>> : r \in {s \in Requests : snap'[s] # None}} \subseteq Uses
    BY <1>1 DEF Uses
  <2>3. {e.under : e \in cache'} \subseteq Uses
    BY <1>1 DEF Uses
  <2> QED BY <2>1, <2>2, <2>3 DEF Uses
<1>4. \A u \in Uses : u[2].ns \in Nat /\ u[2].ns <= stores
  BY UsesTyped DEF CacheInv, NamespacesApart, Published
<1>5. NamespacesApart'
  <2>1. <<l, new>>[2] = new /\ new.ns = stores + 1
    OBVIOUS
  <2>2. \A u \in Uses' : u \in Uses \/ u = <<l, new>>
    BY <1>3
  <2>3. ASSUME NEW u \in Uses' PROVE u[2].ns <= stores'
    BY <1>1, <1>2, <1>4, <2>1, <2>2
  <2>4. ASSUME NEW u \in Uses', NEW v \in Uses', u[2].ns = v[2].ns PROVE u[2] = v[2]
    <3>1. CASE u \in Uses /\ v \in Uses
      BY <2>4, <3>1 DEF CacheInv, NamespacesApart
    <3>2. CASE u \notin Uses \/ v \notin Uses
      BY <1>2, <1>4, <2>1, <2>2, <2>4, <3>2
    <3> QED BY <3>1, <3>2
  <2> QED BY <2>3, <2>4 DEF NamespacesApart
<1>6. ASSUME NEW r \in Requests PROVE BodyOwn(r)' /\ Home(r)'
  BY <1>1 DEF CacheInv, BodyOwn, Home, Served, CacheKeepsTable, CacheKeepsCredential, Sees,
              KeyHonest
<1>7. \A e \in cache' : StoredFairly(e)
  BY <1>1 DEF CacheInv
<1> QED BY <1>5, <1>6, <1>7 DEF CacheInv, StoredFairly, KeyHonest

\* What others do leaves a request's own response alone.
LEMMA HomeStable ==
    ASSUME NEW r, BodyOwn(r), Home(r), Local(r)' = Local(r)
    PROVE  BodyOwn(r)' /\ Home(r)'
<1>1. /\ req'[r] = req[r] /\ snap'[r] = snap[r] /\ plan'[r] = plan[r]
      /\ body'[r] = body[r] /\ answer'[r] = answer[r]
  BY DEF Local
<1> QED BY <1>1 DEF BodyOwn, Home, Served, CacheKeepsTable, CacheKeepsCredential, Sees, KeyHonest

\* A stored response that is found was made under the same table, on the same
\* listener, and may be shared with the request.
LEMMA HitIsHome ==
    ASSUME TypeOK, PipelineInv, CacheInv, NEW r \in Requests, pc[r] = "lookup",
           NEW e \in cache, e.key = CacheKey(r), Eligible(e.share, ClientAuthorized(req[r]))
    PROVE  /\ e.under = <<req[r].listener, snap[r]>>
           /\ e.share \in {"private", "personal"} =>
                 e.credential = <<req[r].authorization, req[r].cookie>>
<1> DEFINE mine == <<req[r].listener, snap[r]>>
           q == req[r]
<1>1. /\ q \in Request /\ snap[r] \in Published /\ snap[r] # None
      /\ RouteOf(r) # None
  <2>1. RequestInv(r) /\ pc[r] \in AfterMatch /\ Past(r, AfterMatch)
    BY DEF PipelineInv, Past, AfterMatch, AfterLimit, AfterCredential, AfterVerify,
           AfterIdentity, AfterPlan
  <2> QED BY <2>1, MatchedIsNeither, PipelineConfig DEF RequestInv, Allowed
<1>2. mine \in Uses /\ e.under \in Uses
  BY <1>1 DEF Uses
<1>3. e.under \in Listeners \X Published /\ q.listener \in Listeners
  BY <1>1 DEF TypeOK, Entry, Request
<1>4. StoredFairly(e) /\ KeyHonest(e)
  BY DEF CacheInv, StoredFairly
<1>5. /\ e.key[1] = snap[r].ns /\ e.key[2] = RouteOf(r).id
      /\ e.key[4] = q.path /\ e.key[5] = q.method
  BY DEF CacheKey, Namespace
<1>6. e.under[2] = snap[r]
  <2>1. e.under[2].ns = mine[2].ns /\ mine[2] = snap[r]
    BY <1>4, <1>5 DEF KeyHonest
  <2> HIDE DEF mine
  <2> QED BY <1>2, <2>1 DEF CacheInv, NamespacesApart
<1>7. e.under[1] = q.listener
  <2>1. /\ MatchRequest(snap[r].table, e.under[1], q.path, q.method) # None
        /\ MatchRequest(snap[r].table, e.under[1], q.path, q.method).id = RouteOf(r).id
    BY <1>4, <1>5, <1>6 DEF KeyHonest
  <2>2. RouteOf(r) = MatchRequest(snap[r].table, q.listener, q.path, q.method)
    BY DEF RouteOf, TableOf
  <2>3. snap[r].table \in TableIds /\ e.under[1] \in Listeners
    BY <1>1, <1>3 DEF Published
  <2> QED BY <1>1, <1>3, <2>1, <2>2, <2>3, IdTellsListener
<1>8. ASSUME e.share \in {"private", "personal"}
      PROVE  e.credential = <<req[r].authorization, req[r].cookie>>
  <2>1. ~ClientAuthorized(req[r])
    BY <1>8 DEF Eligible
  <2> QED BY <1>4, <1>8, <2>1 DEF StoredFairly, ClientAuthorized
<1> QED BY <1>3, <1>6, <1>7, <1>8

\* A step that takes nothing into the cache and serves no new response keeps it.
LEMMA QuietKeeps ==
    ASSUME TypeOK, CacheInv, NEW r \in Requests, Step(r),
           served' = served, stores' = stores, cache' = cache,
           body'[r] = body[r],
           snap'[r] # None => <<req'[r].listener, snap'[r]>> \in Uses,
           body[r] # None \/ Served(r)' =>
              /\ answer'[r] = answer[r] /\ req'[r] = req[r]
              /\ snap'[r] = snap[r] /\ plan'[r] = plan[r]
    PROVE  CacheInv'
<1>1. ASSUME NEW s \in Requests, s # r
      PROVE  BodyOwn(s)' /\ Home(s)' /\ req'[s] = req[s] /\ snap'[s] = snap[s]
  BY <1>1, StepIsLocal, HomeStable DEF CacheInv, Local
<1>2. BodyOwn(r)' /\ Home(r)'
  <2>1. BodyOwn(r) /\ Home(r)
    BY DEF CacheInv
  <2>2. BodyOwn(r)'
    BY <2>1 DEF BodyOwn, Served
  <2>3. Home(r)'
    BY <2>1 DEF Home, Served, CacheKeepsTable, CacheKeepsCredential, Sees
  <2> QED BY <2>2, <2>3
<1>3. Uses' \subseteq Uses
  <2>1. {<<req'[s].listener, snap'[s]>> : s \in {m \in Requests : snap'[m] # None}} \subseteq Uses
    <3> SUFFICES ASSUME NEW s \in Requests, snap'[s] # None
                 PROVE  <<req'[s].listener, snap'[s]>> \in Uses
      OBVIOUS
    <3> QED BY <1>1 DEF Uses
  <2> QED BY <2>1 DEF Uses
<1>4. NamespacesApart'
  BY <1>3, ApartStable DEF CacheInv
<1>5. \A e \in cache' : StoredFairly(e)
  BY DEF CacheInv
<1> QED BY <1>1, <1>2, <1>4, <1>5 DEF CacheInv, StoredFairly, KeyHonest

\* Every step keeps the cache's entries where they belong.
LEMMA CacheInvStep ==
    ASSUME TypeOK, PipelineInv, CacheInv, [Next]_vars
    PROVE  CacheInv'
<1> USE DEF Filtering, AfterDeny, AfterMatch, AfterLimit, AfterCredential,
            AfterVerify, AfterIdentity, AfterPlan
<1>t. /\ req \in [Requests -> Request \cup {None}] /\ snap \in [Requests -> Published \cup {None}]
      /\ answer \in [Requests -> Response \cup {None}] /\ pc \in [Requests -> Pc]
      /\ body \in [Requests -> Entry \cup {None}] /\ cache \subseteq Entry
  BY DEF TypeOK
<1>i. \A r \in Requests : pc[r] \in {"idle"} \cup Filtering =>
         answer[r] = None /\ body[r] = None /\ ~Served(r)
  BY DEF PipelineInv, RequestInv, Shape, Served
<1>u. \A r \in Requests : snap[r] # None => <<req[r].listener, snap[r]>> \in Uses
  BY DEF Uses
<1>1. CASE PublishPublic \/ PublishInternal
  BY <1>1, StoreApart DEF PublishPublic, PublishInternal, Listeners, TypeOK
<1>2. ASSUME NEW r \in Requests, Receive(r) PROVE CacheInv'
  <2>1. /\ pc[r] = "idle" /\ served' = served /\ stores' = stores /\ cache' = cache
        /\ body' = body
    BY <1>2 DEF Receive, shared
  <2>2. snap[r] = None /\ answer[r] = None /\ body[r] = None
    BY <2>1, <1>i DEF PipelineInv, RequestInv, Shape
  <2>3. PICK q \in Arrivals :
          /\ req' = [req EXCEPT ![r] = q]
          /\ \/ snap' = snap
             \/ snap' = [snap EXCEPT ![r] = served[q.listener]]
          /\ \/ answer' = answer
             \/ \E status, cors : Respond(r, status, cors, None)
    BY <1>2 DEF Receive
  <2>4. ~Served(r)'
    BY <2>2, <2>3, <1>t DEF Served, Respond
  <2>5. q.listener \in Listeners
    BY PipelineConfig DEF Request
  <2>6. snap'[r] # None => <<req'[r].listener, snap'[r]>> \in Uses
    BY <2>2, <2>3, <2>5, <1>t DEF Uses
  <2>7. Step(r)
    BY <1>2 DEF Step
  <2> QED BY <2>1, <2>2, <2>4, <2>6, <2>7, QuietKeeps
<1>3. ASSUME NEW r \in Requests, Step(r), pc[r] \in Filtering,
             req' = req, snap' = snap, body' = body, UNCHANGED shared,
             answer' = answer \/ \E status \in Nat : Reject(r, status)
      PROVE  CacheInv'
  <2>1. ~Served(r)' /\ body[r] = None
    BY <1>3, <1>t, <1>i DEF Served, Reject, Respond
  <2>2. served' = served /\ stores' = stores /\ cache' = cache
    BY <1>3 DEF shared
  <2> QED BY <1>3, <1>u, <2>1, <2>2, QuietKeeps
<1>4. ASSUME NEW r \in Requests, DenyList(r) \/ Match(r) \/ Credential(r) PROVE CacheInv'
  <2>1. /\ req' = req /\ snap' = snap /\ body' = body /\ UNCHANGED shared
        /\ pc[r] \in Filtering /\ Step(r)
    BY <1>4 DEF DenyList, Match, Credential, Step
  <2>2. answer' = answer \/ \E status \in Nat : Reject(r, status)
    BY <1>4, RefusalsTyped DEF DenyList, Match, Credential
  <2> QED BY <1>3, <2>1, <2>2
<1>5. ASSUME NEW r \in Requests, LimitCaller(r) \/ LimitIdentity(r) \/ Verify(r)
      PROVE  CacheInv'
  <2>1. /\ req' = req /\ snap' = snap /\ body' = body /\ UNCHANGED shared
        /\ pc[r] \in Filtering /\ Step(r)
    BY <1>5 DEF LimitCaller, LimitIdentity, Verify, Step
  <2>2. answer' = answer \/ \E status \in Nat : Reject(r, status)
    BY <1>5 DEF LimitCaller, LimitIdentity, CheckRateLimit, Verify
  <2> QED BY <1>3, <2>1, <2>2
<1>6. ASSUME NEW r \in Requests, Describe(r) \/ Extend(r) \/ Admit(r) PROVE CacheInv'
  <2>1. /\ req' = req /\ snap' = snap /\ body' = body /\ UNCHANGED shared
        /\ pc[r] \in Filtering /\ Step(r)
    BY <1>6 DEF Describe, Extend, Admit, Step
  <2>2. answer' = answer \/ \E status \in Nat : Reject(r, status)
    BY <1>6 DEF Describe, Extend, Admit
  <2> QED BY <1>3, <2>1, <2>2
<1>7. ASSUME NEW r \in Requests, Lookup(r) PROVE CacheInv'
  <2>1. /\ req' = req /\ snap' = snap /\ body' = body /\ UNCHANGED shared /\ plan' = plan
        /\ pc[r] = "lookup" /\ Step(r)
    BY <1>7 DEF Lookup, Step
  <2>2. CASE answer' = answer
    BY <2>1, <2>2, <1>3
  <2>3. ASSUME NEW e \in cache, e.key = CacheKey(r), VarianceMatches(e, r),
               Eligible(e.share, ClientAuthorized(req[r])),
               Respond(r, 200, CorsResponse(req[r]), e)
        PROVE  CacheInv'
    <3>1. answer'[r] = [status |-> 200, cors |-> CorsResponse(req[r]), content |-> e]
      BY <2>3, <1>t DEF Respond
    <3>2. /\ e.under = <<req[r].listener, snap[r]>>
          /\ e.share \in {"private", "personal"} =>
                e.credential = <<req[r].authorization, req[r].cookie>>
      BY <2>1, <2>3, HitIsHome
    <3>3. Home(r)'
      BY <2>1, <2>3, <3>1, <3>2
         DEF Home, CacheKeepsTable, CacheKeepsCredential, VarianceMatches, Sees
    <3>4. BodyOwn(r)'
      BY <2>1, <1>i DEF BodyOwn
    <3>5. ASSUME NEW s \in Requests, s # r PROVE BodyOwn(s)' /\ Home(s)'
      BY <2>1, <3>5, StepIsLocal, HomeStable DEF CacheInv
    <3>6. Uses' = Uses /\ stores' = stores /\ cache' = cache
      BY <2>1 DEF Uses, shared
    <3>7. NamespacesApart'
      BY <3>6, ApartStable DEF CacheInv
    <3> QED BY <3>3, <3>4, <3>5, <3>6, <3>7 DEF CacheInv, StoredFairly, KeyHonest
  <2> QED BY <1>7, <2>2, <2>3 DEF Lookup
<1>8. ASSUME NEW r \in Requests, UpstreamResponds(r) PROVE CacheInv'
  <2>1. /\ req' = req /\ snap' = snap /\ UNCHANGED shared /\ plan' = plan
        /\ pc[r] = "upstream" /\ Step(r)
    BY <1>8 DEF UpstreamResponds, Step
  <2>2. PICK share \in Shares :
          LET e == [key |-> CacheKey(r), share |-> share, sees |-> Sees(r),
                    credential |-> <<req[r].authorization, req[r].cookie>>,
                    under |-> <<req[r].listener, snap[r]>>]
          IN  /\ body' = [body EXCEPT ![r] = e]
              /\ Respond(r, 200, CorsResponse(req[r]), e)
    BY <1>8 DEF UpstreamResponds
  <2> DEFINE e == [key |-> CacheKey(r), share |-> share, sees |-> Sees(r),
                   credential |-> <<req[r].authorization, req[r].cookie>>,
                   under |-> <<req[r].listener, snap[r]>>]
  <2>3. e \in Entry /\ e # None
    BY <2>1, ResponseTyped, PipelineConfig DEF PipelineInv
  <2>4. /\ body'[r] = e
        /\ answer'[r] = [status |-> 200, cors |-> CorsResponse(req[r]), content |-> e]
    BY <2>2, <1>t DEF Respond
  <2>5. /\ e.key = CacheKey(r) /\ e.share = share /\ e.sees = Sees(r)
        /\ e.credential = <<req[r].authorization, req[r].cookie>>
        /\ e.under = <<req[r].listener, snap[r]>>
    OBVIOUS
  <2> HIDE DEF e
  <2>6. KeyHonest(e)
    <3>1. RouteOf(r) # None
      BY <2>1 DEF PipelineInv, RequestInv, Allowed, Past
    <3>2. /\ e.key[1] = snap[r].ns /\ e.key[2] = RouteOf(r).id
          /\ e.key[4] = req[r].path /\ e.key[5] = req[r].method
          /\ e.under[1] = req[r].listener /\ e.under[2] = snap[r]
      BY <2>5 DEF CacheKey, Namespace
    <3> QED BY <3>1, <3>2 DEF KeyHonest, RouteOf, TableOf
  <2>7. Served(r)'
    <3>1. answer'[r] \in Response
      BY <2>3, <2>4 DEF Response, CorsResponse
    <3> QED BY <2>3, <2>4, <3>1, PipelineConfig DEF Served
  <2>8. BodyOwn(r)'
    BY <2>1, <2>4, <2>5, <2>6, <2>7 DEF BodyOwn, KeyHonest
  <2>9. Home(r)'
    BY <2>1, <2>4, <2>5 DEF Home, CacheKeepsTable, CacheKeepsCredential, Sees
  <2>10. ASSUME NEW s \in Requests, s # r PROVE BodyOwn(s)' /\ Home(s)'
    BY <2>1, <2>10, StepIsLocal, HomeStable DEF CacheInv
  <2>11. Uses' = Uses /\ stores' = stores /\ cache' = cache
    BY <2>1 DEF Uses, shared
  <2>12. NamespacesApart'
    BY <2>11, ApartStable DEF CacheInv
  <2> QED BY <2>8, <2>9, <2>10, <2>11, <2>12 DEF CacheInv, StoredFairly, KeyHonest
<1>9. ASSUME NEW r \in Requests, Finish(r) PROVE CacheInv'
  <2>1. /\ req' = req /\ snap' = snap /\ served' = served /\ stores' = stores /\ plan' = plan
        /\ body' = body /\ answer' = answer /\ Step(r)
    BY <1>9 DEF Finish, Step
  <2>2. ASSUME NEW e \in cache', e \notin cache
        PROVE  /\ e = body[r] /\ body[r] # None
               /\ Eligible(body[r].share, ClientAuthorized(req[r]))
    BY <1>9, <2>2 DEF Finish
  <2>3. ASSUME NEW e \in cache', e \notin cache
        PROVE  StoredFairly(e) /\ e.under \in Uses
    <3>1. /\ Served(r) /\ KeyHonest(e)
          /\ e.under = <<req[r].listener, snap[r]>>
          /\ e.credential = <<req[r].authorization, req[r].cookie>>
      BY <2>2, <2>3 DEF CacheInv, BodyOwn
    <3>2. snap[r] # None
      BY <3>1 DEF PipelineInv, RequestInv, Shape, Past
    <3>3. e.share \in {"private", "personal"} => ~ClientAuthorized(req[r])
      BY <2>2, <2>3 DEF Eligible
    <3>4. StoredFairly(e)
      BY <3>1, <3>3 DEF StoredFairly, ClientAuthorized
    <3> QED BY <3>1, <3>2, <3>4, <1>u
  <2>4. \A e \in cache' : StoredFairly(e) /\ e.under \in Uses
    BY <2>3 DEF CacheInv, Uses
  <2>5. Uses' \subseteq Uses
    <3>1. {<<l, served'[l]>> : l \in Listeners} \subseteq Uses
      BY <2>1 DEF Uses
    <3>2. {<<req'[s].listener, snap'[s]>> : s \in {m \in Requests : snap'[m] # None}} \subseteq Uses
      BY <2>1 DEF Uses
    <3>3. {e.under : e \in cache'} \subseteq Uses
      BY <2>4
    <3> QED BY <3>1, <3>2, <3>3 DEF Uses
  <2>6. NamespacesApart'
    BY <2>1, <2>5, ApartStable DEF CacheInv
  <2>7. ASSUME NEW s \in Requests PROVE BodyOwn(s)' /\ Home(s)'
    BY <2>1 DEF CacheInv, BodyOwn, Home, Served, CacheKeepsTable, CacheKeepsCredential, Sees,
                KeyHonest
  <2> QED BY <2>4, <2>6, <2>7 DEF CacheInv, StoredFairly, KeyHonest
<1>10. ASSUME NEW r \in Requests, FailToProxy(r) PROVE CacheInv'
  <2>1. /\ req' = req /\ snap' = snap /\ body' = body /\ UNCHANGED shared /\ plan' = plan
        /\ pc[r] \in {"upstream", "sent"} /\ Step(r)
    BY <1>10 DEF FailToProxy, Step
  <2>2. CASE answer' = answer
    BY <2>1, <2>2, <1>u, QuietKeeps DEF shared
  <2>3. CASE NothingWritten(r) /\ answer' # answer
    <3>1. PICK status : answer' = [answer EXCEPT ![r] =
                              [status |-> status, cors |-> None, content |-> None]]
      BY <1>10, <2>3 DEF FailToProxy
    <3>2. ~Served(r)'
      BY <3>1, <1>t DEF Served
    <3>3. body[r] = None
      BY <2>3 DEF CacheInv, BodyOwn, Served, NothingWritten
    <3> QED BY <2>1, <3>2, <3>3, <1>u, QuietKeeps DEF shared
  <2> QED BY <1>10, <2>2, <2>3 DEF FailToProxy
<1>11. CASE UNCHANGED vars
  <2>1. /\ Uses' = Uses /\ stores' = stores /\ cache' = cache
    BY <1>11 DEF Uses, vars
  <2>2. \A r \in Requests : BodyOwn(r)' /\ Home(r)'
    BY <1>11, HomeStable DEF CacheInv, Local, vars
  <2> QED BY <2>1, <2>2, ApartStable DEF CacheInv, StoredFairly, KeyHonest
<1> QED BY <1>1, <1>2, <1>4, <1>5, <1>6, <1>7, <1>8, <1>9, <1>10, <1>11 DEF Next, Step

\* The cache starts empty.
LEMMA CacheInit == Init => CacheInv
<1> SUFFICES ASSUME Init PROVE CacheInv
  OBVIOUS
<1>1. Uses = {<<l, [table |-> Boot, ns |-> 0]>> : l \in Listeners}
  BY DEF Init, Uses
<1>2. NamespacesApart
  BY <1>1 DEF NamespacesApart, Init
<1>3. \A r \in Requests : BodyOwn(r) /\ Home(r)
  BY DEF Init, BodyOwn, Home, Served
<1> QED BY <1>2, <1>3 DEF CacheInv, Init

\* Whatever is reloaded between its making and its use, a client gets a response only
\* under the table and on the listener it was made under, and only if it was made
\* for the same credential or for sharing.
THEOREM CacheKeepsHome == Spec => []CacheStaysHome
<1>1. CacheInv => CacheStaysHome
  BY DEF CacheInv, CacheStaysHome, Home, Served
<1>2. (TypeOK /\ PipelineInv) /\ CacheInv /\ [Next]_vars => CacheInv'
  BY CacheInvStep
<1> QED BY <1>1, <1>2, CacheInit, PipelineInvariant, PTL DEF Spec

=============================================================================
