------------------------------ MODULE MCReload ------------------------------
(***************************************************************************)
(* Deployments that differ in where their variables stand, in every        *)
(* environment of two variables; deployments that differ in one setting;   *)
(* and, once a gateway serves, three versions of its route file, two of    *)
(* which agree on the followed route.                                      *)
(***************************************************************************)
EXTENDS Startup, TLC

CONSTANTS q1, q2

MCRequests == {q1, q2}
MCVars == {"A", "B"}

Absent == [form |-> "absent"]
Is(form) == [form |-> form]
Lit(value) == [form |-> "literal", value |-> value]
Ref(var, default) == [form |-> "value", var |-> var, default |-> default, adds |-> Nothing]
Flow(var, adds) == [form |-> "value", var |-> var, default |-> Nothing, adds |-> adds]
Key(var) == [form |-> "key", var |-> var, default |-> Nothing, adds |-> Nothing]

\* Route files.
R1 == [host |-> Absent, limit |-> Lit("8")]
R2 == [host |-> Ref("A", Nothing), limit |-> Ref("B", "8")]
R3 == [host |-> Flow("B", "limit"), limit |-> Absent]
MCBroken == [host |-> Is("unterminated"), limit |-> Absent]
MCVersions == {R1, R2, R3}
MCBootEnv == [A |-> "routes.yml", B |-> "8"]
MCPolicy == [v \in MCVersions |-> Expanded(v, MCBootEnv, "limit")]
MCRouteFiles == MCVersions \cup {MCBroken, Missing}

\* Documents that point at a route file, and documents that hold their routes.
Blank == [file |-> Absent, url |-> Absent, threads |-> Absent, default_limit |-> Absent,
          host |-> Absent, limit |-> Absent]
Points == [Blank EXCEPT !.file = Lit("routes.yml")]

PointingTexts == {
    Points,
    [Points EXCEPT !.file = Ref("A", Nothing)],
    [Points EXCEPT !.file = Ref("A", "routes.yml"), !.default_limit = Lit("8")],
    [Points EXCEPT !.file = Is("escaped")],
    [Points EXCEPT !.file = Lit("8")],
    [Points EXCEPT !.url = Ref("A", Nothing), !.threads = Is("comment")],
    [Points EXCEPT !.threads = Ref("B", "8"), !.url = Is("bad_name")],
    [Points EXCEPT !.threads = Ref("A", "control")],
    [Points EXCEPT !.threads = Flow("B", "default_limit")],
    [Points EXCEPT !.threads = Flow("B", "default_limit"), !.default_limit = Lit("8")],
    [Points EXCEPT !.threads = Key("A")],
    [Blank EXCEPT !.threads = Flow("B", "file")]}

InlineTexts == {
    [Blank EXCEPT !.limit = Ref("B", Nothing), !.threads = Lit("8")],
    [Blank EXCEPT !.host = Flow("A", "limit"), !.threads = Ref("B", "8")],
    [Blank EXCEPT !.host = Flow("B", "threads"), !.default_limit = Ref("A", "8")],
    [Blank EXCEPT !.limit = Is("comment"), !.url = Is("empty_name")]}

-----------------------------------------------------------------------------
(* Settings: one that starts, and what differs from it.                    *)

Named(name) == [name |-> name, spelt |-> "lower"]
Loudly(name) == [name |-> name, spelt |-> "upper"]
Padded(name) == [name |-> name, spelt |-> "padded"]
Client(id, secret) == [id |-> id, secret |-> secret, length |-> 3, padded |-> FALSE]

Jwt(issuer) == [issuer |-> issuer, audience |-> {"api"}, algorithms |-> {"RS256"}]
Keys == [header |-> Named("x-client-key"), forward_as |-> {Named("x-client-id")},
         keys |-> <<Client("mobile", "k1"), Client("web", "k2")>>,
         exempt |-> {"path"}, exempt_groups |-> {"public"}]

Base ==
    [default_rate |-> {1},
     shared_counters |-> {[url |-> "redis://host", sync |-> 1, timeout |-> 1,
                           max_keys_per_sync |-> 1]},
     timeouts |-> [request_total |-> {2}, extension |-> 1, extension_chain |-> 1,
                   connect |-> 1, downstream_read |-> 1],
     extension_inflight |-> {MaxPermits},
     forward |-> [trusted_proxies |-> 1, trusted_proxy_ips |-> {"10.0.0.0/8"}],
     upstream |-> [url |-> {"http://host"}, targets |-> <<>>, health_path |-> "none",
                   discovery |-> {},
                   circuit_breaker |-> {[failures |-> 1, successes_to_close |-> 1,
                                         max_trials |-> 1]}],
     auth |-> [jwt |-> <<Jwt("a")>>, firebase |-> {<<"p", "">>}, client_keys |-> {Keys},
               token_cookies |-> <<"session", "id">>,
               cookie_protection |-> {{"https://app"}}],
     writes |-> [w \in HeaderWriters |-> IF w = "identity" THEN {Loudly("x-user")}
                                         ELSE IF w = "inject" THEN {Named("x-inject")} ELSE {}],
     rejects |-> {Named("x-user")},
     mounts |-> {"/"},
     routes |-> [inline |-> TRUE, valid |-> TRUE, extensions |-> {"audit"},
                 shared_limit |-> "exact"],
     cache |-> {[max_object_size |-> 1, max_inflight_fill |-> 1]},
     cors |-> {[origins |-> {"https://app", "https://*.app"}, credentials |-> TRUE]},
     sample_ratio |-> {100},
     internal_listen |-> TRUE]

\* Nothing but what a document must have.
Least ==
    [Base EXCEPT !.default_rate = {}, !.shared_counters = {}, !.extension_inflight = {},
        !.timeouts.request_total = {}, !.upstream.circuit_breaker = {},
        !.forward = [trusted_proxies |-> 0, trusted_proxy_ips |-> {}],
        !.auth = [jwt |-> <<>>, firebase |-> {}, client_keys |-> {}, token_cookies |-> <<>>,
                  cookie_protection |-> {}],
        !.routes.shared_limit = "none", !.cache = {}, !.cors = {}, !.sample_ratio = {},
        !.internal_listen = FALSE]

Pool == [url |-> {}, targets |-> <<[url |-> "http://host", weight |-> 2],
                                   [url |-> "http://host", weight |-> 1]>>,
         health_path |-> "valid",
         discovery |-> {[interval |-> Second, max_members |-> MaxMembersLimit]},
         circuit_breaker |-> {}]
WithKeys(ck) == [Base EXCEPT !.auth.client_keys = {ck}]
WithStore(s) == [Base EXCEPT !.shared_counters = {s}]
Counters == CHOOSE s \in Base.shared_counters : TRUE
Breaker == CHOOSE b \in Base.upstream.circuit_breaker : TRUE

RuntimeOnly == {
    [Base EXCEPT !.upstream = Pool],
    [Base EXCEPT !.upstream = [Pool EXCEPT !.health_path = "invalid"]],
    [Base EXCEPT !.auth.jwt = <<Jwt("a"), Jwt("a")>>],
    [Base EXCEPT !.auth.firebase = {<<"a">>}],
    [Base EXCEPT !.auth.firebase = {<<"p", "p">>}],
    [Base EXCEPT !.routes.extensions = {"audit", "typo"}],
    [Base EXCEPT !.routes.valid = FALSE],
    [Base EXCEPT !.routes.shared_limit = "approximate"],
    [Base EXCEPT !.shared_counters = {}]}

Upstreams == {
    [Base EXCEPT !.upstream.url = {}],
    [Base EXCEPT !.upstream.targets = Pool.targets],
    [Base EXCEPT !.upstream.url = {""}],
    [Base EXCEPT !.upstream.url = {"http://"}],
    [Base EXCEPT !.upstream = [Pool EXCEPT !.targets[2].weight = 0]],
    [Base EXCEPT !.upstream = [Pool EXCEPT !.discovery = {[interval |-> 1, max_members |-> 1]}]],
    [Base EXCEPT !.upstream = [Pool EXCEPT !.discovery = {[interval |-> 2, max_members |-> 0]}]],
    [Base EXCEPT !.upstream = [Pool EXCEPT !.discovery = {[interval |-> 2, max_members |-> 5]}]],
    [Base EXCEPT !.upstream.circuit_breaker = {[Breaker EXCEPT !.failures = 0]}],
    [Base EXCEPT !.upstream.circuit_breaker = {[Breaker EXCEPT !.successes_to_close = 0]}],
    [Base EXCEPT !.upstream.circuit_breaker = {[Breaker EXCEPT !.max_trials = 0]}]}

Numbers == {
    [Base EXCEPT !.default_rate = {0}],
    WithStore([Counters EXCEPT !.url = "redis://"]),
    WithStore([Counters EXCEPT !.sync = 0]),
    WithStore([Counters EXCEPT !.timeout = 0]),
    WithStore([Counters EXCEPT !.max_keys_per_sync = 0]),
    [Base EXCEPT !.timeouts.request_total = {0}],
    [Base EXCEPT !.timeouts.extension = 0],
    [Base EXCEPT !.timeouts.extension = 2],
    [Base EXCEPT !.timeouts.connect = 0],
    [Base EXCEPT !.timeouts.downstream_read = 0],
    [Base EXCEPT !.extension_inflight = {0}],
    [Base EXCEPT !.extension_inflight = {MaxPermits + 1}],
    [Base EXCEPT !.cache = {[max_object_size |-> 2, max_inflight_fill |-> 1]}],
    [Base EXCEPT !.sample_ratio = {101}]}

Access == {
    [Base EXCEPT !.forward.trusted_proxy_ips = {}],
    [Base EXCEPT !.forward.trusted_proxy_ips = {"10.0.0.0/8", "ingress"}],
    [Base EXCEPT !.mounts = {}],
    [Base EXCEPT !.routes.inline = FALSE],
    [Base EXCEPT !.cors = {[origins |-> {"*"}, credentials |-> TRUE]}],
    [Base EXCEPT !.cors = {[origins |-> {"*"}, credentials |-> FALSE]}],
    [Base EXCEPT !.cors = {[origins |-> {}, credentials |-> FALSE]}],
    [Base EXCEPT !.cors = {[origins |-> {"app"}, credentials |-> FALSE]}],
    [Base EXCEPT !.auth.firebase = {<<"", "">>}],
    [Base EXCEPT !.auth.jwt[1].issuer = ""],
    [Base EXCEPT !.auth.jwt[1].audience = {}],
    [Base EXCEPT !.auth.jwt[1].algorithms = {"RS256", "HS256"}],
    [Base EXCEPT !.auth.jwt = <<>>, !.auth.firebase = {}],
    [Base EXCEPT !.auth.token_cookies = <<>>],
    [Base EXCEPT !.auth.token_cookies = <<"id", "id">>],
    [Base EXCEPT !.auth.token_cookies = <<"bad;name">>],
    [Base EXCEPT !.auth.cookie_protection = {{"https://*.app"}}]}

ClientKeys == {
    WithKeys([Keys EXCEPT !.header = Named("cookie")]),
    WithKeys([Keys EXCEPT !.header = Named("not a name")]),
    WithKeys([Keys EXCEPT !.header = Padded("x-inject")]),
    WithKeys([Keys EXCEPT !.forward_as = {Named("x-user")}]),
    WithKeys([Keys EXCEPT !.forward_as = {Loudly("x-client-key")}]),
    WithKeys([Keys EXCEPT !.forward_as = {}]),
    [Base EXCEPT !.writes["claims"] = {Named("x-user")}, !.writes["token"] = {Loudly("x-inject")}],
    [Base EXCEPT !.writes["token"] = {Loudly("x-client-id")}],
    [Base EXCEPT !.writes["inject_machine"] = {Loudly("x-client-key")}],
    [Base EXCEPT !.rejects = {Loudly("x-client-key")}],
    [Base EXCEPT !.rejects = {Padded("x-client-key")}],
    WithKeys([Keys EXCEPT !.keys = <<>>]),
    WithKeys([Keys EXCEPT !.keys[2].secret = "k1"]),
    WithKeys([Keys EXCEPT !.keys[2].length = 2]),
    WithKeys([Keys EXCEPT !.keys[2].padded = TRUE]),
    WithKeys([Keys EXCEPT !.keys[1].id = "bad id"]),
    WithKeys([Keys EXCEPT !.exempt = {"not canonical"}]),
    WithKeys([Keys EXCEPT !.exempt_groups = {"machine"}])}

SettingsPool ==
    {Base, Least} \cup RuntimeOnly \cup Upstreams \cup Numbers \cup Access \cup ClientKeys

-----------------------------------------------------------------------------

Deployed(id, text, settings) == [id |-> id, text |-> text, settings |-> settings]
NoRoutes == [Least EXCEPT !.routes.inline = FALSE, !.routes.extensions = {}]
WithListener == [NoRoutes EXCEPT !.internal_listen = TRUE]

TextWorlds ==
    [document: {Deployed("text", t, WithListener) : t \in PointingTexts}
               \cup {Deployed("text", t, Least) : t \in InlineTexts},
     env: Env, routes: MCRouteFiles]

SettingsWorlds ==
    [document: {Deployed("set", Blank, c) : c \in SettingsPool},
     env: {MCBootEnv}, routes: {Missing}]

MCEdits == {
    Deployed("first", Blank, Least),
    Deployed("second", Blank, [Least EXCEPT !.mounts = {"/api"}]),
    Deployed("broken", Blank, [Least EXCEPT !.mounts = {}]),
    Deployed("clash", Blank, [Least EXCEPT !.auth.jwt = <<Jwt("a"), Jwt("a")>>]),
    Deployed("typo", Blank, [Least EXCEPT !.routes.extensions = {"typo"}]),
    Deployed("pool", Blank, [Least EXCEPT !.upstream = Pool])}

DevWorlds == [document: MCEdits, env: {MCBootEnv}, routes: {Missing}]

MCWorlds == TextWorlds \cup SettingsWorlds \cup DevWorlds

=============================================================================
