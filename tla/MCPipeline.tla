----------------------------- MODULE MCPipeline -----------------------------
(***************************************************************************)
(* Two requests on two listeners and three route files: a reload can widen *)
(* a route and deny a path under it, tighten its tier, put another route   *)
(* in front or move it to another upstream.  Both listeners serve the same *)
(* paths.                                                                  *)
(***************************************************************************)
EXTENDS Pipeline, TLC

CONSTANTS r1, r2

MCRequests == {r1, r2}
MCPaths == {"shop", "shop/admin", "nowhere"}
MCMethods == {"GET", "POST", "OPTIONS"}
MCRouteIds == {"shop", "orders", "jobs"}
MCUpstreams == {"api", "api2"}
MCIdentities == {"ann", "bob"}

Unlimited == [key |-> "none", missing |-> "skip"]
ByCaller == [key |-> "caller", missing |-> "reject"]
ByIdentity == [key |-> "identity", missing |-> "count"]
IdentityOnly == [key |-> "identity", missing |-> "reject"]
ByHeader == [key |-> "header", missing |-> "reject"]

Shop == [id |-> "shop", paths |-> {"shop", "shop/admin"}, methods |-> {"GET", "POST"},
         auth |-> "optional", upstream |-> "api", limit |-> ByCaller, cap |-> Unlimited,
         client_key |-> FALSE, bound |-> FALSE, cache |-> TRUE]
Orders == [Shop EXCEPT !.id = "orders", !.paths = {"shop"}, !.methods = {"POST"},
                       !.auth = "required", !.limit = ByIdentity, !.cap = ByHeader,
                       !.client_key = TRUE, !.bound = TRUE, !.cache = FALSE]
Jobs == [Shop EXCEPT !.id = "jobs", !.auth = "machine", !.limit = Unlimited, !.cap = ByHeader]

MCContent ==
    ("open" :> [deny |-> {},
                routes |-> <<[Shop EXCEPT !.auth = "public", !.paths = {"shop"}], Jobs>>]) @@
    ("strict" :> [deny |-> {"shop/admin"}, routes |-> <<Orders, Shop, Jobs>>]) @@
    ("moved" :> [deny |-> {"shop/admin"},
                 routes |-> <<[Shop EXCEPT !.upstream = "api2", !.limit = IdentityOnly],
                              [Jobs EXCEPT !.limit = ByHeader]>>])

Plain == [listener |-> "public", kind |-> "plain", path |-> "shop", method |-> "GET",
          asks |-> None, origin |-> "app", secret |-> FALSE, client_key |-> "absent",
          tag |-> "good", authorization |-> "absent", cookie |-> None,
          owner |-> None, claims |-> "bob"]
Post == [Plain EXCEPT !.method = "POST", !.client_key = "good", !.owner = "ann"]
Machine == [Plain EXCEPT !.listener = "internal", !.secret = TRUE]
Preflight == [Plain EXCEPT !.method = "OPTIONS", !.asks = "POST"]

MCArrivals ==
    { Plain, [Plain EXCEPT !.authorization = "ann"], [Plain EXCEPT !.authorization = "bob"],
      [Plain EXCEPT !.authorization = "basic"], [Plain EXCEPT !.authorization = "forged"],
      [Plain EXCEPT !.path = "shop/admin"], [Plain EXCEPT !.path = "nowhere"],
      Preflight, [Preflight EXCEPT !.path = "shop/admin"],
      [Preflight EXCEPT !.path = "nowhere"],
      [Post EXCEPT !.authorization = "ann", !.cookie = "bob"],
      [Post EXCEPT !.authorization = "bob"],
      [Post EXCEPT !.cookie = "ann"],
      [Post EXCEPT !.cookie = "ann", !.origin = "other"],
      Machine, [Machine EXCEPT !.tag = "bad"],
      [Machine EXCEPT !.path = "shop/admin"], [Machine EXCEPT !.secret = FALSE] }
    \cup { [Plain EXCEPT !.kind = k] : k \in {"health", "too_large", "unsafe"} }

Symmetry == Permutations(MCRequests)

=============================================================================
