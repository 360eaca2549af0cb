----------------------------- MODULE HeaderPlan -----------------------------
(***************************************************************************)
(* The headers an upstream gets: the HeaderPlan (headers.rs) as            *)
(* request_filter fills it, step after step, from the settings of          *)
(* ConfigRules, before the extensions may override it, and                 *)
(* upstream_request_filter, which applies it.  A value is named for who    *)
(* vouches for it.                                                         *)
(*                                                                         *)
(* A later step may `set` what an earlier one did, but `strip` only drops  *)
(* what the client sent: a value that was set is inserted all the same.    *)
(***************************************************************************)
EXTENDS ConfigRules

HeaderNames == {h.name : h \in Spelling} \ {"not a name"}

\* HeaderPlan::set and ::strip fold the case and leave the blanks.
PlanNames(c, writer) ==
    {IF h.spelt = "padded" THEN "not a name" ELSE h.name : h \in c.writes[writer]}

\* A request that has been let through: on which listener, with an identity or
\* without, which of the mapped claims it has and whether it can be signed, with a
\* client key or without, what becomes of its cookies, and the client's headers that
\* the forwarding mode relays.
Accepted(c) ==
    [internal: BOOLEAN, identified: BOOLEAN, claims: SUBSET PlanNames(c, "claims"),
     signed: BOOLEAN, keyed: BOOLEAN, cookie: {"left", "rewritten", "dropped"},
     relays: SUBSET HeaderNames]

Set(plan, names, value) ==
    [set |-> [n \in names \cup DOMAIN plan.set |->
                 IF n \in names THEN value ELSE plan.set[n]],
     remove |-> plan.remove \cup names]

Strip(plan, names) == [set |-> plan.set, remove |-> plan.remove \cup names]

NewPlan == [set |-> [n \in {} |-> "absent"], remove |-> {}]

\* The injected headers.  (What else it strips or sets, on every request or on the
\* internal listener, is none of HeaderNames.)
BaseHeaderPlan(c, q) ==
    Set(NewPlan, PlanNames(c, IF q.internal THEN "inject_machine" ELSE "inject"), "injected")

\* identity.rs: apply, with apply_claim_headers, for a request with an identity ...
Apply(plan, c, q) ==
    LET subject == Set(plan, PlanNames(c, "identity"), "identity")
        claims == Set(Strip(subject, PlanNames(c, "claims")), q.claims, "claim")
    IN  IF q.signed THEN Set(claims, PlanNames(c, "token"), "token")
        ELSE Strip(claims, PlanNames(c, "token"))

\* ... and strip_all for one without.
StripAll(plan, c) ==
    Strip(plan, PlanNames(c, "identity") \cup PlanNames(c, "claims") \cup PlanNames(c, "token"))

\* The token cookies do not travel further; the rest of the header does.
StripCookies(plan, q) ==
    IF q.cookie = "rewritten" THEN Set(plan, {"cookie"}, "gateway")
    ELSE IF q.cookie = "dropped" THEN Strip(plan, {"cookie"}) ELSE plan

\* What the plan says before the client key's turn.
IdentityPlan(c, q) ==
    StripCookies(IF q.identified THEN Apply(BaseHeaderPlan(c, q), c, q)
                 ELSE StripAll(BaseHeaderPlan(c, q), c), q)

KeyHeader(c) == {ck.header.name : ck \in c.auth.client_keys}
ForwardAs(c) == {h.name : h \in UNION {ck.forward_as : ck \in c.auth.client_keys}}

\* The key is not passed on; its id is, on the public listener.
Plan(c, q) ==
    LET plan == Strip(IdentityPlan(c, q), KeyHeader(c))
    IN  IF q.internal THEN IdentityPlan(c, q)
        ELSE IF q.keyed THEN Set(plan, ForwardAs(c), "key id") ELSE Strip(plan, ForwardAs(c))

\* upstream_request_filter: removals, then insertions.  (A name that is none fails
\* the request.)
Sends(plan, q) ==
    [n \in HeaderNames |-> IF n \in DOMAIN plan.set THEN plan.set[n]
                           ELSE IF n \in q.relays \ plan.remove THEN "client" ELSE "absent"]

=============================================================================
