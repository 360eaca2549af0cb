---------------------------- MODULE MCRouteRules ----------------------------
(***************************************************************************)
(* Every file of up to three routes out of a pool in which prefixes nest   *)
(* and share letters, hosts overlap, methods are inherited, overridden and *)
(* cleared, and some routes are not valid; tables of three are indexed.    *)
(***************************************************************************)
EXTENDS RouteRules

CONSTANT n

Get == {"GET"}
Wild == [kind |-> "suffix", name |-> <<"ex">>]
Deep == [kind |-> "suffix", name |-> <<"api", "ex">>]
Api == [kind |-> "exact", name |-> <<"api", "ex">>]

Base == [id |-> n, auth |-> "public", prefix |-> <<"/", "i">>, hosts |-> {},
         methods |-> n, upstream |-> "u", enabled |-> TRUE,
         strip_prefix |-> FALSE, client_key |-> n, bind |-> "none",
         cache |-> FALSE, cache_authenticated |-> FALSE, rate_limit |-> n,
         cap |-> n]

Limit == [requests |-> 1, counter |-> "shared", mode |-> "exact",
          interval |-> 2, forwarded |-> FALSE]

Ib == <<"i", "/", "b", "/">>

Pool == {
    Base,
    [Base EXCEPT !.auth = "required", !.methods = {}, !.strip_prefix = TRUE],
    [Base EXCEPT !.auth = "optional", !.hosts = {Wild}, !.methods = Get,
                 !.rate_limit = Limit],
    [Base EXCEPT !.hosts = {Api}, !.id = "api"],
    [Base EXCEPT !.auth = "required", !.hosts = {Deep}, !.bind = "good"],
    [Base EXCEPT !.auth = "required", !.prefix = Ib, !.upstream = "w"],
    [Base EXCEPT !.prefix = Ib, !.strip_prefix = TRUE, !.methods = {"POST"},
                 !.client_key = FALSE],
    [Base EXCEPT !.prefix = <<"i", "b">>, !.strip_prefix = TRUE, !.upstream = "w"],
    [Base EXCEPT !.auth = "machine", !.prefix = Ib],
    [Base EXCEPT !.auth = "optional", !.prefix = <<"b">>]}

Faulty == {
    [Base EXCEPT !.prefix = <<"/">>],
    [Base EXCEPT !.upstream = "gone"],
    [Base EXCEPT !.bind = "good"],
    [Base EXCEPT !.bind = "malformed"],
    [Base EXCEPT !.cap = [max |-> 0, forwarded |-> FALSE]],
    [Base EXCEPT !.cap = [max |-> 1, forwarded |-> TRUE]],
    [Base EXCEPT !.cache = TRUE],
    [Base EXCEPT !.rate_limit = [Limit EXCEPT !.interval = 3]],
    [Base EXCEPT !.rate_limit = [Limit EXCEPT !.counter = "local"]],
    [Base EXCEPT !.rate_limit = [Limit EXCEPT !.forwarded = TRUE]],
    [Base EXCEPT !.auth = "machine", !.client_key = TRUE]}

File(routes) == [internal |-> {Ib \o <<"i">>, <<"/">>}, routes |-> routes]
Pairs(routes) == {File(<<a, b>>) : a, b \in routes}

Open(routes) == [internal |-> {}, routes |-> routes]
Simple == {r \in Pool : r.hosts = {} /\ r.auth # "required"}

(* Base with one thing changed, for lagos diff to notice. *)
Changed == {
    [Base EXCEPT !.id = "api"], [Base EXCEPT !.methods = {}],
    [Base EXCEPT !.auth = "optional"], [Base EXCEPT !.upstream = "w"],
    [Base EXCEPT !.strip_prefix = TRUE], [Base EXCEPT !.client_key = FALSE],
    [Base EXCEPT !.enabled = FALSE]}

MCRevisions == {File(<<a>>) : a \in Simple \cup Changed}
               \cup {Open(<<a>>) : a \in Simple} \cup Pairs(Simple)
MCFiles == {File(<<a>>) : a \in Pool \cup Faulty} \cup MCRevisions
           \cup Pairs(Pool) \cup {File(<<a, b, c>>) : a, b, c \in Pool}

At(c, layers) == [char |-> c, layers |-> layers]
Slashed(text) == Plain(<<"/">> \o text)
Dotted(layers) == Slashed(<<"b", "/">>) \o <<At(".", layers), At(".", layers)>>
                  \o Slashed(<<"i">>)

Plainly == {Slashed(<<"i">>), Slashed(<<"i", "b">>), Slashed(Ib),
            Slashed(<<"m", "/", "i", "/", "b", "/", "n">>)}
Oddly == {Slashed(<<>>), Slashed(<<"m">>), Slashed(<<"m", "i">>),
          Slashed(<<"h">>), Slashed(<<"/", "i", "/", "/", "b">>),
          Slashed(<<"I", "/", "b", "/", "I">>),
          Slashed(<<"i", "/", "b", "/", "dotless_i">>),
          Slashed(<<"i", "/", "%">>), Slashed(<<"i", "/", "\\">>),
          Slashed(<<"i">>) \o <<At("/", 1), At("b", 2)>>,
          Slashed(<<"i", "/">>) \o <<At("?", 1), At("b", 0)>>,
          Dotted(0), Dotted(1), Dotted(3), Dotted(4)}

Hosts == {n, [name |-> <<"api", "ex">>, port |-> TRUE],
          [name |-> <<"v", "api", "ex">>, port |-> FALSE],
          [name |-> <<"ex">>, port |-> FALSE]}

Ask(listener, path, host, method) ==
    [listener |-> listener, path |-> path, host |-> host, method |-> method]

MCQueries ==
    {Ask("public", p, h, m) : p \in Plainly, h \in Hosts, m \in {"GET", "POST"}}
    \cup {Ask("public", p, n, "GET") : p \in Oddly}
    \cup {Ask("internal", p, n, "GET") : p \in Plainly}

MCMounts == << <<"/">>, <<"/", "m">> >>
MCHealth == <<"/", "h">>
MCBase == [u |-> <<>>, w |-> <<"v">>]
MCUpstreams == {"u", "w"}
MCExempt == {<<"i", "/", "b">>}
MCGroups == {"optional"}

=============================================================================
