----------------------------- MODULE ConfigText -----------------------------
(***************************************************************************)
(* `${VAR}` expansion and its three readers: the loader, which expands     *)
(* (config/interpolate.rs, GatewayConfig::parse), `lagos vars`, which only *)
(* inspects (cli/vars.rs), and `lagos config --effective`, which prints    *)
(* what no variable touched (cli/effective.rs).                            *)
(*                                                                         *)
(* A text gives each of its slots (places a scalar may stand) a scalar:    *)
(* absent, a literal, an escaped `$${`, a reference in a comment, a broken *)
(* reference, or a reference with or without a default.  A reference may   *)
(* stand in a flow mapping, where a value with a comma in it adds the slot *)
(* `adds`; it may also supply the key of its slot instead of the value.    *)
(***************************************************************************)
EXTENDS Naturals, FiniteSets

CONSTANT Vars   \* environment variables

\* No value.
Nothing == "nothing"

Numeric == {"threads", "default_limit", "limit"}

\* What a variable may hold: nothing, white space, the path of the route file
\* (an ordinary string), a number, a string that closes its flow entry and adds
\* another, or a control character.
EnvValue == {"unset", "blank", "routes.yml", "8", "splice", "control"}
Env == [Vars -> EnvValue]

Scalar ==
    [form: {"absent", "escaped", "comment", "unterminated", "empty_name", "bad_name"}]
    \cup [form: {"literal"}, value: {"routes.yml", "8"}]
    \cup [form: {"value", "key"}, var: Vars, default: {Nothing, "routes.yml", "8", "control"},
          adds: {Nothing, "file"} \cup Numeric]

\* The places of a route, in a file of its own or in the document, and of a document.
RouteSlots == {"host", "limit"}
DocumentSlots == RouteSlots \cup {"file", "url", "threads", "default_limit"}

-----------------------------------------------------------------------------
\* is_structurally_safe.
IsStructurallySafe(value) == value # "control"

\* Faulty variant: a blank value is a value.
LookupRaw(env, var) == IF env[var] = "unset" THEN Nothing ELSE env[var]

\* expand_into: empty or whitespace-only is unset.
Lookup(env, var) == IF env[var] \in {"unset", "blank"} THEN Nothing ELSE env[var]

\* The slots that use a variable; comments and escapes do not.
References(text) == {k \in DOMAIN text : text[k].form \in {"value", "key"}}

Malformed(text) ==
    \E k \in DOMAIN text : text[k].form \in {"unterminated", "empty_name", "bad_name"}

\* What a reference stands for, before any fallback.
Selected(s, env) ==
    IF Lookup(env, s.var) # Nothing THEN Lookup(env, s.var) ELSE s.default

Placeheld(text, env) ==
    {text[k].var : k \in {j \in References(text) : Selected(text[j], env) = Nothing}}

\* process: an unset reference without a default fails unless there is a
\* fallback, a control character always does.
Expands(text, env, fallback) ==
    /\ ~Malformed(text)
    /\ \A k \in References(text) :
          /\ Selected(text[k], env) = Nothing => fallback
          /\ IsStructurallySafe(Selected(text[k], env))

\* The slots a spliced value adds.
Added(text, env) ==
    {text[k].adds : k \in {j \in References(text) :
        text[j].adds # Nothing /\ Selected(text[j], env) = "splice"}}

\* The YAML of the expanded text: the scalar in a slot, Nothing if it has none.
Expanded(text, env, k) ==
    LET s == text[k] IN
    IF k \in Added(text, env) THEN IF k = "file" THEN "routes.yml" ELSE "8"
    ELSE CASE s.form = "literal" -> s.value
           [] s.form = "escaped" -> "${VAR}"
           [] s.form = "value" ->
                IF Selected(s, env) = Nothing THEN "placeholder"
                ELSE IF Selected(s, env) = "splice" /\ s.adds # Nothing THEN "8"
                ELSE Selected(s, env)
           [] s.form = "key" -> "8"
           [] OTHER -> Nothing

\* The YAML reads: no key comes twice.
YamlReads(text, env) == \A k \in Added(text, env) : text[k].form \in {"absent", "comment"}

\* from_expanded: a number must be one and a path must not, and a key that a
\* variable supplies must be one the document may have.
Parses(text, env) ==
    /\ YamlReads(text, env)
    /\ \A k \in DOMAIN text \cap Numeric : Expanded(text, env, k) \in {Nothing, "8"}
    /\ "file" \in DOMAIN text => Expanded(text, env, "file") # "8"
    /\ \A k \in References(text) :
          text[k].form = "key" => Selected(text[k], env) = "routes.yml"

\* GatewayConfig::parse_with_fallback and the route file's own reading.
Readable(text, env, fallback) == Expands(text, env, fallback) /\ Parses(text, env)

-----------------------------------------------------------------------------
\* inspect: the state of one reference.
VariableState(s, env) ==
    IF ~IsStructurallySafe(Selected(s, env)) THEN "invalid"
    ELSE IF Lookup(env, s.var) # Nothing THEN "set"
    ELSE IF s.default # Nothing THEN "defaulted" ELSE "required"

Inventory(text, env) == {VariableState(text[k], env) : k \in References(text)}

\* route_source, on the masked document: inline, a file, or not to be known.
RouteSource(text, env) ==
    LET s == text["file"] IN
    IF \E k \in DOMAIN text : text[k].form = "key" THEN "unchecked"
    ELSE IF s.form \in {"absent", "comment"} THEN "inline"
    ELSE IF s.form = "value" /\ VariableState(s, env) \in {"required", "invalid"}
    THEN "unchecked"
    ELSE IF s = [form |-> "literal", value |-> "8"] THEN "unchecked" ELSE "file"

\* runtime_file: the path through the runtime's own interpolation.
RuntimeFile(text, env) ==
    IF /\ Expands(text, env, TRUE) /\ YamlReads(text, env)
       /\ Expanded(text, env, "file") # "8"
    THEN Expanded(text, env, "file") ELSE Nothing

-----------------------------------------------------------------------------
\* The masked YAML: a marker where a variable stands.
Masked(text, k) ==
    LET s == text[k] IN
    CASE s.form = "literal" -> s.value
      [] s.form = "escaped" -> "${VAR}"
      [] s.form = "value" -> "marker"
      [] OTHER -> Nothing

\* Faulty variant: only markers taint.
TaintedByMarker(text, env, k) ==
    \/ \E j \in DOMAIN text : text[j].form = "key"
    \/ Masked(text, k) = "marker"

\* Source::field: markers, keys a variable supplies, and anything added, moved
\* or changed by the expansion.
Tainted(text, env, k) ==
    \/ \E j \in DOMAIN text : text[j].form = "key"
    \/ Masked(text, k) = "marker"
    \/ Masked(text, k) # Expanded(text, env, k)

\* A printed field: its value, or nothing when it is redacted.
Field(text, env, k) == IF Tainted(text, env, k) THEN "redacted" ELSE Expanded(text, env, k)

\* Where a route's limit comes from.
PolicyOrigin(text, routes, env) ==
    IF Expanded(routes, env, "limit") # Nothing THEN "route"
    ELSE IF Expanded(text, env, "default_limit") # Nothing THEN "defaults" ELSE "built-in"

\* policy: the field where the limit comes from, unless anything in the route's
\* group is interpolated.
RoutePolicy(text, routes, env) ==
    LET origin == PolicyOrigin(text, routes, env)
        guard == \E k \in RouteSlots : Tainted(routes, env, k)
    IN  IF guard THEN "redacted"
        ELSE CASE origin = "route" -> Field(routes, env, "limit")
               [] origin = "defaults" -> Field(text, env, "default_limit")
               [] origin = "built-in" -> Nothing

\* project: what the command prints of the settings the model has.
Project(text, routes, env) ==
    [threads |-> Field(text, env, "threads"), rate_limit |-> RoutePolicy(text, routes, env)]

=============================================================================
