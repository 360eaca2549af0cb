------------------------------ MODULE Startup ------------------------------
(***************************************************************************)
(* From the files to a running gateway: the commands of cli.rs that read a *)
(* configuration (validate, vars, config --effective, run, dev), and       *)
(* Runtime::run of runtime.rs, which either refuses to start or starts the *)
(* listeners and the reload task of RouteReload.                           *)
(*                                                                         *)
(* The document and the environment are what an operator deployed; the     *)
(* route file may be written while a command runs.  A document is its text *)
(* (the places where a variable may stand) and the settings none feeds.    *)
(***************************************************************************)
EXTENDS RouteReload, ConfigText, HeaderPlan

CONSTANTS
    Worlds,         \* what may be deployed: [document, env, routes]
    RouteFiles,     \* what the route file may hold while no gateway runs
    BootEnv,        \* the environment of a gateway that keeps running
    Edits,          \* documents an author may save under `lagos dev`
    Registered,     \* the extensions the binary registers
    OfflineWrites,  \* bound: changes to the route file before a gateway runs
    MaxEdits        \* bound: changes to the document under `lagos dev`

Document(d) == d.text \in [DocumentSlots -> Scalar] /\ d.settings \in GatewayConfig

ASSUME StartupConfig ==
    /\ \A w \in Worlds : Document(w.document) /\ w.env \in Env /\ w.routes \in RouteFiles
    /\ \A d \in Edits : Document(d)
    /\ RouteFiles = Contents
    /\ \A v \in RouteFiles \ {Missing} : v \in [RouteSlots -> Scalar]
    /\ Versions = {v \in RouteFiles \ {Missing} : Readable(v, BootEnv, FALSE)}
    /\ \A v \in Versions : Policy[v] = Expanded(v, BootEnv, "limit")
    /\ OfflineWrites \in Nat /\ OfflineWrites < MaxWrites

VARIABLES
    phase,     \* "offline", "starting", "up", "serving", "refused" or "dev"
    document,  \* the document on disk
    edits,     \* how often it changed: its mtime
    env,       \* the environment of every command
    cmd,       \* the command that runs: what it has read so far
    report,    \* the last command's outcome
    dev        \* the supervisor: its step, its `last` and its child

svars == <<phase, document, edits, env, cmd, report, dev>>
allvars == <<vars, svars>>

Idle == [name |-> "none", step |-> "none", routes |-> Missing, mtime |-> 0, why |-> "none"]
NoReport == [by |-> "none"]
NoDev == [step |-> "off", last |-> 0, child |-> Nothing]

SInit ==
    /\ \E w \in Worlds :
          /\ document = w.document
          /\ env = w.env
          /\ file = [content |-> w.routes, mtime |-> 0]
    /\ last = None /\ current = None /\ loaded = None /\ pc = "idle"
    /\ public = None /\ machine = None
    /\ limiters = <<>> /\ spent = <<>>
    /\ snap = [q \in Requests |-> None]
    /\ outages = 0
    /\ phase = "offline"
    /\ edits = 0
    /\ cmd = Idle
    /\ report = NoReport
    /\ dev = NoDev

gateway == <<last, current, loaded, pc, public, machine, limiters, snap, outages, spent>>

-----------------------------------------------------------------------------
(* load_with_fallback of cli.rs and the steps Runtime::run shares with it. *)

HasFile(d) == Expanded(d.text, env, "file") # Nothing

\* Reading and resolving the document: why it is refused, or "ok".
DocumentOutcome(d, fallback) ==
    IF ~Expands(d.text, env, fallback) THEN "interpolate"
    ELSE IF ~(Parses(d.text, env) /\ UpstreamParses(d.settings.upstream)) THEN "parse"
    ELSE IF fallback /\ Expanded(d.text, env, "file") = "placeholder" THEN "unset path"
    ELSE IF ~Resolves(d.settings, HasFile(d)) THEN "resolve" ELSE "ok"

\* provider.load() and validate_table.
RoutesOutcome(d, content, fallback) ==
    IF HasFile(d)
    THEN IF Expanded(d.text, env, "file") # "routes.yml" \/ content = Missing THEN "read"
         ELSE IF ~Expands(content, env, fallback) THEN "interpolate"
         ELSE IF ~Parses(content, env) THEN "parse" ELSE "ok"
    ELSE IF ~d.settings.routes.valid THEN "table"
    ELSE IF d.settings.routes.shared_limit # "none" /\ d.settings.shared_counters = {}
    THEN "table" ELSE "ok"

\* ExtensionRegistry::missing, of the routes in the document.
MissingExtensions(d) == IF HasFile(d) THEN {} ELSE d.settings.routes.extensions \ Registered

-----------------------------------------------------------------------------
(* The commands.  Each reads the document, then the route file.            *)

Commands == {"validate", "validate --allow-unset", "vars", "config --effective"}
AllowsUnset == cmd.name = "validate --allow-unset"

Begin(name) ==
    /\ phase = "offline" /\ cmd = Idle
    /\ cmd' = [Idle EXCEPT !.name = name, !.step = "document", !.mtime = file.mtime]
    /\ report' = IF name = "run" THEN report ELSE NoReport
    /\ phase' = IF name = "run" THEN "starting" ELSE phase
    /\ UNCHANGED <<document, edits, env, dev, file, gateway>>

\* A command ends and says something.
Say(r) ==
    /\ cmd' = Idle
    /\ report' = r
    /\ UNCHANGED <<phase, document, edits, env, dev, file, gateway>>

Failed == [by |-> cmd.name, says |-> "error", mtime |-> cmd.mtime]

\* The route file is read: its contents, and when.
ReadRoutes ==
    /\ cmd.step = "routes"
    /\ cmd' = [cmd EXCEPT !.step = "checked", !.routes = file.content, !.mtime = file.mtime]
    /\ UNCHANGED <<phase, document, edits, env, report, dev, file, gateway>>

NextStep(step) ==
    /\ cmd' = [cmd EXCEPT !.step = step]
    /\ UNCHANGED <<phase, document, edits, env, report, dev, file, gateway>>

\* load_with_fallback and config --effective, up to the route file.
LoadDocument ==
    /\ cmd.name \in Commands \ {"vars"} /\ cmd.step = "document"
    /\ IF DocumentOutcome(document, AllowsUnset) # "ok" THEN Say(Failed) ELSE NextStep("routes")

\* Every name left as a placeholder, across both documents.
PlaceheldIn(content) ==
    Placeheld(document.text, env)
        \cup (IF HasFile(document) /\ content # Missing /\ Expands(content, env, TRUE)
              THEN Placeheld(content, env) ELSE {})

\* Faulty variant: the route file's placeholders are left out.
PlaceheldInBothFirstOnly(content) == Placeheld(document.text, env)

\* placeheld_in_both: the route file is read a second time; when that fails its
\* names are left out.
PlaceheldInBoth(content) == PlaceheldIn(content)

\* validate, from the loaded table to its last line.
Validate ==
    /\ cmd.name \in {"validate", "validate --allow-unset"} /\ cmd.step = "checked"
    /\ IF \/ RoutesOutcome(document, cmd.routes, AllowsUnset) # "ok"
          \/ MissingExtensions(document) # {}
       THEN Say(Failed)
       ELSE Say([by |-> cmd.name, mtime |-> cmd.mtime, reread |-> file.mtime,
                 says |-> IF AllowsUnset /\ PlaceheldInBoth(file.content) # {}
                          THEN "structurally valid" ELSE "valid",
                 unchecked |-> PlaceheldIn(cmd.routes)])

Inventoried(complete, states) ==
    [by |-> "vars", says |-> "inventory", mtime |-> cmd.mtime, complete |-> complete,
     states |-> states]

\* vars: the document's references, then those of the route file it finds.
VarsDocument ==
    /\ cmd.name = "vars" /\ cmd.step = "document"
    /\ LET source == RouteSource(document.text, env) IN
       IF Malformed(document.text) THEN Say(Failed)
       ELSE IF source = "file" /\ RuntimeFile(document.text, env) # Nothing
       THEN NextStep("routes")
       ELSE Say(Inventoried(source = "inline", Inventory(document.text, env)))

VarsRoutes ==
    /\ cmd.name = "vars" /\ cmd.step = "checked"
    /\ LET found == cmd.routes # Missing /\ RuntimeFile(document.text, env) = "routes.yml" IN
       IF found /\ Malformed(cmd.routes) THEN Say(Failed)
       ELSE Say(Inventoried(found, Inventory(document.text, env)
                                     \cup (IF found THEN Inventory(cmd.routes, env) ELSE {})))

\* The limits the routes inherit stand in the file or in the document.
RoutesText(d, content) == IF HasFile(d) THEN content ELSE d.text

\* config --effective.
Effective ==
    /\ cmd.name = "config --effective" /\ cmd.step = "checked"
    /\ IF RoutesOutcome(document, cmd.routes, FALSE) # "ok" THEN Say(Failed)
       ELSE Say([by |-> cmd.name, says |-> "view", mtime |-> cmd.mtime, routes |-> cmd.routes,
                 view |-> Project(document.text, RoutesText(document, cmd.routes), env)])

-----------------------------------------------------------------------------
(* Runtime::run.                                                           *)

Refuse(why) ==
    /\ phase' = "refused"
    /\ cmd' = [cmd EXCEPT !.step = "none", !.why = why]
    /\ UNCHANGED <<document, edits, env, report, dev, file, gateway>>

\* The document, resolve_all and the counter store's client.
BootDocument ==
    /\ phase = "starting" /\ cmd.step = "document"
    /\ LET outcome == DocumentOutcome(document, FALSE)
           upstream == document.settings.upstream
       IN  \/ outcome # "ok" /\ Refuse(outcome)
           \/ outcome = "ok" /\ IsPool(upstream) /\ Refuse("upstreams")
           \/ outcome = "ok" /\ upstream.health_path # "invalid" /\ NextStep("routes")

\* provider.load() and validate_table.
BootRoutes ==
    /\ phase = "starting" /\ cmd.step = "checked"
    /\ LET outcome == RoutesOutcome(document, cmd.routes, FALSE)
       IN  IF outcome # "ok" THEN Refuse(outcome) ELSE NextStep("verify")

\* verify_shared_counters: what the store answers decides only for `exact`.
StoreSuffices(d, answer) ==
    HasFile(d) \/ d.settings.routes.shared_limit # "exact" \/ answer = "supports exact"

BootVerify(answer) ==
    /\ phase = "starting" /\ cmd.step = "verify"
    /\ IF ~StoreSuffices(document, answer) THEN Refuse("store") ELSE NextStep("wire")

\* The registry check, the issuers, then the listeners: the gateway is up.
BootWire ==
    /\ phase = "starting" /\ cmd.step = "wire"
    /\ IF MissingExtensions(document) # {} THEN Refuse("extensions")
       ELSE IF ~IssuersApart(document.settings.auth) THEN Refuse("issuers")
       ELSE /\ phase' = "up"
            /\ UNCHANGED <<document, edits, env, cmd, report, dev, file, gateway>>

\* The reload task starts, for a route file; the tables are those of the boot.
StartReloader ==
    /\ phase = "up"
    /\ HasFile(document) /\ document.settings.internal_listen
    /\ env = BootEnv
    /\ phase' = "serving"
    /\ public' = [version |-> cmd.routes, limiter |-> 1, era |-> 1]
    /\ machine' = cmd.routes
    /\ limiters' = <<0>> /\ spent' = <<0>>
    /\ document' = None /\ cmd' = Idle /\ report' = NoReport
    /\ UNCHANGED <<edits, env, dev, file, last, current, loaded, pc, snap, outages>>

\* The operator looks at the outcome and goes on, or stops the gateway.
Stop ==
    /\ phase \in {"refused", "up"}
    /\ phase' = "offline" /\ cmd' = Idle /\ report' = NoReport
    /\ UNCHANGED <<document, edits, env, dev, file, gateway>>

WriteOffline(content) ==
    /\ phase \in {"offline", "starting"}
    /\ file.mtime < OfflineWrites
    /\ content # file.content
    /\ file' = [content |-> content, mtime |-> file.mtime + 1]
    /\ UNCHANGED <<svars, gateway>>

-----------------------------------------------------------------------------
(* dev, over documents with inline routes.                                 *)

\* load() of cli.rs.
Loads(d) == DocumentOutcome(d, FALSE) = "ok" /\ RoutesOutcome(d, Missing, FALSE) = "ok"

\* A child that starts to serve, when the names of its upstreams resolve.
Boots(d) ==
    /\ Loads(d)
    /\ d.settings.upstream.health_path # "invalid"
    /\ MissingExtensions(d) = {}
    /\ IssuersApart(d.settings.auth)

Dev(step, child) ==
    /\ dev' = [dev EXCEPT !.step = step, !.child = child]
    /\ UNCHANGED <<document, edits, env, cmd, report, file, gateway>>

\* The supervisor ends: a child that exited takes it along.
Bail ==
    /\ phase' = "refused" /\ cmd' = [Idle EXCEPT !.why = "dev"]
    /\ dev' = [NoDev EXCEPT !.step = "ended"]
    /\ UNCHANGED <<document, edits, env, report, file, gateway>>

\* At most once.
DevStart ==
    /\ phase = "offline" /\ cmd = Idle /\ dev = NoDev /\ document \in Edits
    /\ report' = NoReport
    /\ IF Loads(document) /\ MissingExtensions(document) = {}
       THEN phase' = "dev" /\ dev' = [step |-> "spawn", last |-> edits, child |-> Nothing]
            /\ UNCHANGED cmd
       ELSE phase' = "refused" /\ cmd' = [Idle EXCEPT !.why = "dev"] /\ UNCHANGED dev
    /\ UNCHANGED <<document, edits, env, file, gateway>>

\* The author saves the document.
Edit(d) ==
    /\ phase = "dev" /\ edits < MaxEdits /\ d # document
    /\ document' = d /\ edits' = edits + 1
    /\ UNCHANGED <<phase, env, cmd, report, dev, file, gateway>>

DevSpawn == phase = "dev" /\ dev.step = "spawn" /\ Dev("watch", "starting") /\ UNCHANGED phase

\* The child reads the document by itself, later.
ChildStarts ==
    /\ phase = "dev" /\ dev.child = "starting" /\ dev.step = "watch"
    /\ UNCHANGED phase
    /\ \/ Boots(document) /\ Dev("watch", document.id)
       \/ (~Boots(document) \/ IsPool(document.settings.upstream)) /\ Dev("watch", "exited")

\* Faulty variant: the new mtime is not remembered.
DevTickForgets ==
    /\ phase = "dev" /\ dev.step = "watch"
    /\ IF dev.child = "exited" THEN Bail
       ELSE IF edits = dev.last THEN UNCHANGED allvars
       ELSE Dev("load", dev.child) /\ UNCHANGED phase

\* A tick: the child, then the document's mtime, which is remembered at once.
DevTick ==
    /\ phase = "dev" /\ dev.step = "watch"
    /\ IF dev.child = "exited" THEN Bail
       ELSE IF edits = dev.last THEN UNCHANGED allvars
       ELSE /\ dev' = [dev EXCEPT !.step = "load", !.last = edits]
            /\ UNCHANGED <<phase, document, edits, env, cmd, report, file, gateway>>

\* The edit is loaded, without the registry check, and the child replaced.
DevLoad ==
    /\ phase = "dev" /\ dev.step = "load"
    /\ IF Loads(document) THEN Dev("spawn", Nothing) ELSE Dev("watch", dev.child)
    /\ UNCHANGED phase

DevStep == DevSpawn \/ ChildStarts \/ DevTick \/ DevLoad

-----------------------------------------------------------------------------

Command ==
    \/ \E name \in Commands \cup {"run"} : Begin(name)
    \/ ReadRoutes \/ LoadDocument \/ Validate \/ VarsDocument \/ VarsRoutes \/ Effective

Booting ==
    \/ BootDocument \/ BootRoutes \/ BootWire \/ StartReloader \/ Stop
    \/ \E answer \in {"supports exact", "counts only", "unreachable"} : BootVerify(answer)

Serving == phase = "serving" /\ Next /\ UNCHANGED svars

SNext ==
    \/ Command \/ Booting
    \/ \E content \in RouteFiles : WriteOffline(content)
    \/ DevStart \/ DevStep
    \/ \E d \in Edits : Edit(d)
    \/ Serving

SSpec == SInit /\ [][SNext]_allvars

\* The reload task ticks forever, and so does the supervisor.
SFairSpec ==
    /\ SSpec
    /\ WF_allvars(phase = "serving" /\ Reloader /\ UNCHANGED svars)
    /\ WF_allvars(DevStep)

-----------------------------------------------------------------------------

\* The last report is about what the start that ended read.
SameInputs == phase \in {"refused", "up"} /\ cmd.name = "run" /\ report.mtime = cmd.mtime

(* What `validate` calls valid starts, unless a name does not resolve, the *)
(* counter store cannot do what is asked of it, or two verifiers claim one *)
(* issuer: nothing else is checked by Runtime::run alone.                  *)
ValidBoots ==
    report.by \in {"validate", "validate --allow-unset"} /\ report.says = "valid" =>
        (phase = "refused" /\ SameInputs /\ report.reread = report.mtime =>
            cmd.why \in {"upstreams", "store", "issuers"})

(* `validate` says "valid" of a text with placeholders in it only when the *)
(* route file changed between the read it checked and the read it listed   *)
(* the placeholders from.                                                  *)
NeverSilentPass ==
    report.by \in {"validate", "validate --allow-unset"} /\ report.says = "valid" =>
        report.unchecked = {} \/ report.reread # report.mtime

(* An inventory that is complete and without a required or invalid         *)
(* variable means that no variable stops the gateway from starting, and a  *)
(* gateway that starts had such an inventory.  A value that adds           *)
(* `routes.file` to the document is not seen by `vars`.                    *)
InventoryExact ==
    report.by = "vars" /\ SameInputs =>
        /\ phase = "up" => report.says = "inventory"
                             /\ report.states \cap {"required", "invalid"} = {}
        /\ cmd.why = "interpolate" /\ "file" \notin Added(document.text, env) =>
              \/ report.says = "error" \/ ~report.complete
              \/ report.states \cap {"required", "invalid"} # {}

(* What the commands report about a deployment is what starting it shows.  *)
ReportsHonest == ValidBoots /\ NeverSilentPass /\ InventoryExact

(* What `config --effective` prints is the same in every environment in    *)
(* which it prints it: no variable's value, and nothing a value with YAML  *)
(* in it added, shows.                                                     *)
EffectiveHidesEnv ==
    report.by = "config --effective" /\ report.says = "view" =>
        \A other \in Env :
            LET routes == IF report.routes = Missing \/ ~HasFile(document)
                          THEN document.text ELSE report.routes
                view == Project(document.text, routes, other)
            IN  Readable(document.text, other, FALSE) /\ Readable(routes, other, FALSE) =>
                \A k \in DOMAIN view :
                    "redacted" \in {view[k], report.view[k]} \/ view[k] = report.view[k]

(* "A client key header or forward_as sharing one of these would overwrite *)
(* a verified value, or be overwritten by it" (gateway_owned_headers): in  *)
(* no gateway that starts does a client key change any other header the    *)
(* upstream gets, whoever writes it, in whatever spelling, on either       *)
(* listener.  The key itself is not passed on, its id is nobody else's to  *)
(* claim, and a machine caller's own headers of those names pass untouched.*)
ClientKeysSpare(c, q) ==
    LET with == Sends(Plan(c, q), q)
        without == Sends(Plan([c EXCEPT !.auth.client_keys = {}], q), q)
    IN  /\ \A n \in HeaderNames \ (KeyHeader(c) \cup ForwardAs(c)) : with[n] = without[n]
        /\ \A n \in KeyHeader(c) \cup ForwardAs(c) :
              with[n] = IF q.internal THEN IF n \in q.relays THEN "client" ELSE "absent"
                        ELSE IF n \in ForwardAs(c) /\ q.keyed THEN "key id" ELSE "absent"

VerifiedHeadersSurvive ==
    phase = "up" /\ document.settings.auth.client_keys # {} =>
        \A q \in Accepted(document.settings) : ClientKeysSpare(document.settings, q)

(* Once both listeners are up, a valid route file that is left alone comes *)
(* to be served by both, whatever was written in the middle of a reload.   *)
ServesTheFile ==
    <>[](phase = "serving" /\ file.content \in Versions =>
            public.version = file.content /\ machine = file.content)

(* `lagos dev` comes to run the document its author saved last, if it      *)
(* loads and the supervisor has not ended.                                 *)
DevFollows ==
    <>[](phase = "dev" /\ Loads(document) => dev.child = document.id)

=============================================================================
