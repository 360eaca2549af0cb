---------------------------- MODULE ReloadProofs ----------------------------
(***************************************************************************)
(* Proofs about RouteReload and Startup, for any files, environments,      *)
(* requests and reloads, in five parts: the reload task and the quota of   *)
(* an unchanged route (Spec), then over the whole life of a deployment     *)
(* (SSpec) the steps of a start and the settings it ends with, the state   *)
(* handed to the reload task, what `config --effective` may print, and     *)
(* what `validate` and `vars` foretell of a start.                         *)
(***************************************************************************)
EXTENDS Startup, TLAPS

(* A limiter belongs to one era and has counted exactly its admissions. *)
OneLimiterPerEra ==
    /\ limiters = spent
    /\ public.limiter = public.era
    /\ \A q \in Requests : snap[q] # None =>
           /\ snap[q].limiter = snap[q].era
           /\ snap[q].limiter \in DOMAIN limiters

(* A table about to be published has been loaded. *)
LoadedToPublish == pc \in {"verify", "public", "machine"} => loaded \in Versions

\* What every step of the reload task and of the requests preserves.
IInv == TypeOK /\ OneLimiterPerEra /\ LoadedToPublish /\ QuotaAcrossReloads

\* The gateway starts with the boot table.
LEMMA InitInv == Init => IInv
  BY ReloadConfig
  DEF Init, IInv, TypeOK, OneLimiterPerEra, LoadedToPublish,
      QuotaAcrossReloads, Table, Contents, Times

(* A new limiter and a new era get the same number. *)
LEMMA PublishKeeps == IInv /\ PublishPublic => IInv'
<1> SUFFICES ASSUME IInv, PublishPublic PROVE IInv'
  OBVIOUS
<1> USE DEF IInv, TypeOK, OneLimiterPerEra, LoadedToPublish,
            QuotaAcrossReloads, Table
<1>0. loaded \in Versions /\ pc = "public"
  BY DEF PublishPublic
<1>1. CASE Unchanged(loaded)
  <2>1. KeptLimiter(loaded) = public.limiter
    BY <1>1 DEF KeptLimiter
  <2>2. limiters' = limiters /\ spent' = spent
    BY <1>1, <2>1 DEF PublishPublic
  <2>3. public' = [version |-> loaded, limiter |-> public.limiter,
                   era |-> public.era]
    BY <1>1, <2>1 DEF PublishPublic
  <2>4. public' \in Table /\ public'.limiter = public'.era
    BY <1>0, <2>3
  <2> QED
    BY <1>0, <2>2, <2>3, <2>4 DEF PublishPublic
<1>2. CASE ~Unchanged(loaded)
  <2>1. KeptLimiter(loaded) = Len(limiters) + 1
    BY <1>2 DEF KeptLimiter
  <2>2. public.limiter \in 1..Len(limiters) /\ Len(limiters) \in Nat
    OBVIOUS
  <2>3. limiters' = Append(limiters, 0) /\ spent' = Append(spent, 0)
    BY <1>2, <2>1, <2>2 DEF PublishPublic
  <2>4. public' = [version |-> loaded, limiter |-> Len(limiters) + 1,
                   era |-> Len(limiters) + 1]
    BY <1>2, <2>1 DEF PublishPublic
  <2>5. public' \in Table /\ public'.limiter = public'.era
    BY <1>0, <2>2, <2>4
  <2>6. /\ limiters' \in Seq(Nat)
        /\ DOMAIN limiters' = 1..(Len(limiters) + 1)
        /\ \A i \in 1..Len(limiters) : limiters'[i] = limiters[i]
        /\ limiters'[Len(limiters) + 1] = 0
    BY <2>3
  <2>7. limiters' = spent' /\ spent' \in Seq(Nat)
    BY <2>3, <2>6
  <2>8. QuotaAcrossReloads'
    <3> SUFFICES ASSUME NEW i \in 1..(Len(limiters) + 1)
                 PROVE limiters'[i] <= Limit
      BY <2>6, <2>7
    <3>1. CASE i = Len(limiters) + 1
      BY <3>1, <2>6, ReloadConfig
    <3>2. CASE i # Len(limiters) + 1
      <4>1. i \in 1..Len(limiters)
        BY <3>2, <2>2
      <4> QED
        BY <4>1, <2>6
    <3> QED
      BY <3>1, <3>2
  <2>9. \A q \in Requests : snap'[q] # None =>
           /\ snap'[q].limiter = snap'[q].era
           /\ snap'[q].limiter \in DOMAIN limiters'
    BY <2>2, <2>6 DEF PublishPublic
  <2>10. public'.limiter \in DOMAIN limiters'
    BY <2>2, <2>4, <2>6
  <2> QED
    BY <1>0, <2>5, <2>6, <2>7, <2>8, <2>9, <2>10 DEF PublishPublic
<1> QED
  BY <1>1, <1>2

(* A request counts in the limiter and in the era of the table it holds:   *)
(* the same number, whichever table that is.                               *)
LEMMA CountKeeps == ASSUME NEW q \in Requests PROVE IInv /\ Count(q) => IInv'
<1> SUFFICES ASSUME IInv, Count(q) PROVE IInv'
  OBVIOUS
<1> USE DEF IInv, TypeOK, OneLimiterPerEra, LoadedToPublish,
            QuotaAcrossReloads, Table
<1> DEFINE n == snap[q].limiter
<1>1. n \in DOMAIN limiters /\ n = snap[q].era
  BY DEF Count
<1>2. snap' \in [Requests -> {None} \cup Table]
  BY DEF Count
<1>3. CASE limiters[n] < Limit
  <2>1. /\ limiters' = [limiters EXCEPT ![n] = @ + 1]
        /\ spent' = [spent EXCEPT ![n] = @ + 1]
    BY <1>1, <1>3 DEF Count
  <2>2. limiters' \in Seq(Nat) /\ DOMAIN limiters' = DOMAIN limiters
    BY <1>1, <2>1
  <2>3. limiters' = spent'
    BY <2>1
  <2>4. \A i \in DOMAIN limiters' : limiters'[i] <= Limit
    BY <1>1, <1>3, <2>1, <2>2, ReloadConfig
  <2>5. \A r \in Requests : snap'[r] # None =>
           /\ snap'[r].limiter = snap'[r].era
           /\ snap'[r].limiter \in DOMAIN limiters'
    BY <2>2 DEF Count
  <2> QED
    BY <1>2, <2>2, <2>3, <2>4, <2>5 DEF Count
<1>4. CASE ~(limiters[n] < Limit)
  BY <1>2, <1>4 DEF Count
<1> QED
  BY <1>3, <1>4

\* Every step keeps the invariant.
LEMMA NextInv == IInv /\ [Next]_vars => IInv'
<1> SUFFICES ASSUME IInv, [Next]_vars PROVE IInv'
  OBVIOUS
<1> USE DEF IInv, TypeOK, OneLimiterPerEra, LoadedToPublish,
            QuotaAcrossReloads
<1>1. ASSUME NEW content \in Contents, Write(content) PROVE IInv'
  <2>1. file'.mtime \in Times /\ file' \in [content: Contents, mtime: Times]
    BY <1>1, ReloadConfig DEF Write, Times
  <2> QED
    BY <1>1, <2>1 DEF Write
<1>2. CASE Stat
  BY <1>2 DEF Stat, Mtime
<1>3. CASE Load
  BY <1>3 DEF Load
<1>4. CASE Verify
  BY <1>4 DEF Verify
<1>5. CASE VerifyFails
  BY <1>5, ReloadConfig DEF VerifyFails
<1>6. CASE PublishPublic
  BY <1>6, PublishKeeps
<1>7. CASE PublishMachine
  BY <1>7 DEF PublishMachine
<1>8. CASE Advance
  BY <1>8 DEF Advance
<1>9. ASSUME NEW q \in Requests, Snapshot(q) PROVE IInv'
  BY <1>9 DEF Snapshot
<1>10. ASSUME NEW q \in Requests, Count(q) PROVE IInv'
  BY <1>10, CountKeeps
<1>11. CASE UNCHANGED vars
  BY <1>11 DEF vars
<1> QED
  BY <1>1, <1>2, <1>3, <1>4, <1>5, <1>6, <1>7, <1>8, <1>9, <1>10, <1>11
  DEF Next, Reloader

\* The invariant holds throughout.
LEMMA Invariance == Spec => []IInv
  BY InitInv, NextInv, PTL DEF Spec

(* The task, the tables and the requests stay well typed: a published      *)
(* table always names a limiter that exists.                               *)
THEOREM ReloadTypeCorrect == Spec => []TypeOK
<1>1. IInv => TypeOK
  BY DEF IInv
<1> QED
  BY <1>1, Invariance, PTL

(* SharedRoutes::store never gives a route it leaves alone a second quota, *)
(* however reloads and requests on old tables interleave.                  *)
THEOREM QuotaSurvivesReloads == Spec => []QuotaAcrossReloads
<1>1. IInv => QuotaAcrossReloads
  BY DEF IInv
<1> QED
  BY <1>1, Invariance, PTL

-----------------------------------------------------------------------------
(***************************************************************************)
(* Starting.  What a command or a start may have read by each of its steps *)
(* is the invariant; the settings a gateway comes up with, and the state   *)
(* the reload task begins in, follow from it.                              *)
(***************************************************************************)

\* The reasons a command or a start ends with, its steps, and the record it keeps.
Reasons == {"none", "ok", "interpolate", "parse", "unset path", "resolve", "read", "table",
            "upstreams", "store", "extensions", "issuers", "dev"}
Steps == {"none", "document", "routes", "checked", "verify", "wire"}

Commanding == [name: Commands \cup {"none", "run"},
               step: Steps, routes: RouteFiles, mtime: Nat, why: Reasons]

(* Where a start or a command may be, and what it was given.              *)
PlacesInv ==
    /\ phase \in {"offline", "starting", "up", "serving", "refused", "dev"}
    /\ phase # "serving" => /\ Document(document)
                            /\ file \in [content: Contents, mtime: 0..OfflineWrites]
    /\ env \in Env
    /\ cmd \in Commanding
    /\ phase = "offline" => cmd.name # "run"
    /\ phase = "starting" => cmd.name = "run"
    /\ phase = "up" => cmd.name = "run" /\ cmd.step = "wire"
    /\ phase = "refused" => cmd.step = "none"
    /\ phase \in {"serving", "dev"} => cmd = Idle /\ report = NoReport

(* What a start has checked by each of its steps. *)
BootInv ==
    /\ phase = "starting" /\ cmd.step # "document" => DocumentOutcome(document, FALSE) = "ok"
    /\ phase = "starting" /\ cmd.step \in {"verify", "wire"} =>
          RoutesOutcome(document, cmd.routes, FALSE) = "ok"
    /\ phase = "up" =>
          /\ DocumentOutcome(document, FALSE) = "ok"
          /\ RoutesOutcome(document, cmd.routes, FALSE) = "ok"
          /\ IssuersApart(document.settings.auth)

\* Why a start is refused is one of the reasons.
LEMMA ReasonsTyped ==
    ASSUME NEW d, NEW content, NEW fallback \in BOOLEAN
    PROVE  DocumentOutcome(d, fallback) \in Reasons /\ RoutesOutcome(d, content, fallback) \in Reasons
<1>1. DocumentOutcome(d, fallback) \in Reasons
  BY DEF DocumentOutcome, Reasons
<1>2. RoutesOutcome(d, content, fallback) \in Reasons
  BY DEF RoutesOutcome, Reasons
<1> QED BY <1>1, <1>2

\* The record a command keeps, as its steps change it.
LEMMA StepRecord ==
    ASSUME cmd \in Commanding, NEW step \in Steps
    PROVE  /\ [cmd EXCEPT !.step = step] \in Commanding
           /\ [cmd EXCEPT !.step = step].name = cmd.name
           /\ [cmd EXCEPT !.step = step].step = step
           /\ [cmd EXCEPT !.step = step].routes = cmd.routes
           /\ [cmd EXCEPT !.step = step].mtime = cmd.mtime
           /\ [cmd EXCEPT !.step = step].why = cmd.why
BY DEF Commanding

\* The same, for a start that is refused.
LEMMA RefusedRecord ==
    ASSUME cmd \in Commanding, NEW why \in Reasons
    PROVE  /\ [cmd EXCEPT !.step = "none", !.why = why] \in Commanding
           /\ [cmd EXCEPT !.step = "none", !.why = why].name = cmd.name
           /\ [cmd EXCEPT !.step = "none", !.why = why].step = "none"
           /\ [cmd EXCEPT !.step = "none", !.why = why].mtime = cmd.mtime
           /\ [cmd EXCEPT !.step = "none", !.why = why].routes = cmd.routes
           /\ [cmd EXCEPT !.step = "none", !.why = why].why = why
BY DEF Commanding, Steps

\* The same, for one that has read the route file.
LEMMA ReadRecord ==
    ASSUME cmd \in Commanding, NEW routes \in RouteFiles, NEW mtime \in Nat,
           cmd' = [cmd EXCEPT !.step = "checked", !.routes = routes, !.mtime = mtime]
    PROVE  /\ cmd' \in Commanding
           /\ cmd'.name = cmd.name /\ cmd'.step = "checked"
           /\ cmd'.routes = routes /\ cmd'.mtime = mtime /\ cmd'.why = cmd.why
BY DEF Commanding, Steps

\* No command running.
LEMMA IdleRecord ==
    /\ Idle \in Commanding /\ Idle.name = "none" /\ Idle.step = "none"
    /\ Idle.mtime = 0 /\ Idle.why = "none"
<1>1. Missing \in RouteFiles
  BY StartupConfig DEF Contents
<1> QED BY <1>1 DEF Idle, Commanding, Reasons, Steps

\* The supervisor of `dev` after it bailed out.
LEMMA EndedRecord ==
    /\ [Idle EXCEPT !.why = "dev"] \in Commanding
    /\ [Idle EXCEPT !.why = "dev"].step = "none" /\ [Idle EXCEPT !.why = "dev"].name = "none"
    /\ [Idle EXCEPT !.why = "dev"].mtime = 0
<1>1. Missing \in RouteFiles
  BY StartupConfig DEF Contents
<1> QED BY <1>1 DEF Idle, Commanding, Reasons, Steps

\* A command or a start that begins.
LEMMA FirstRecord ==
    ASSUME NEW name \in Commands \cup {"run"}, NEW mtime \in Nat,
           cmd' = [Idle EXCEPT !.name = name, !.step = "document", !.mtime = mtime]
    PROVE  /\ cmd' \in Commanding
           /\ cmd'.name = name /\ cmd'.step = "document"
           /\ cmd'.mtime = mtime /\ cmd'.why = "none"
<1>1. Missing \in RouteFiles
  BY StartupConfig DEF Contents
<1> QED BY <1>1 DEF Idle, Commanding, Reasons, Steps

\* A command says something only while no gateway runs; a start alone refuses.
LEMMA PlacesSay == ASSUME PlacesInv, phase = "offline", NEW r, Say(r) PROVE PlacesInv'
BY IdleRecord DEF PlacesInv, Say

\* A refused start has stopped at a step of its own.
LEMMA PlacesRefuse == ASSUME PlacesInv, phase = "starting", NEW why \in Reasons, Refuse(why)
                      PROVE PlacesInv'
<1>1. cmd' \in Commanding /\ cmd'.step = "none"
  BY RefusedRecord DEF PlacesInv, Refuse
<1> QED BY <1>1 DEF PlacesInv, Refuse

\* A step further is still a step.
LEMMA PlacesNext ==
    ASSUME PlacesInv, phase \in {"offline", "starting"},
           NEW step \in {"routes", "verify", "wire"}, NextStep(step)
    PROVE  PlacesInv'
<1>1. cmd' \in Commanding /\ cmd'.name = cmd.name
  BY StepRecord DEF PlacesInv, NextStep, Steps
<1> QED BY <1>1 DEF PlacesInv, NextStep

\* A command between its steps leaves its place only to end.
LEMMA PlacesCommand == ASSUME PlacesInv, Command PROVE PlacesInv'
<1>m. phase # "serving" => file.mtime \in Nat /\ file.content \in RouteFiles
  BY StartupConfig DEF PlacesInv
<1>i. Idle.name = "none" /\ Idle.step = "none"
  BY DEF Idle
<1>1. ASSUME NEW name \in Commands \cup {"run"}, Begin(name) PROVE PlacesInv'
  <2>1. cmd' = [Idle EXCEPT !.name = name, !.step = "document", !.mtime = file.mtime]
    BY <1>1 DEF Begin
  <2>2. file.mtime \in Nat
    BY <1>1, <1>m DEF Begin
  <2>3. cmd' \in Commanding /\ cmd'.name = name /\ cmd'.step = "document"
    BY <2>1, <2>2, FirstRecord
  <2> QED BY <1>1, <2>3 DEF PlacesInv, Begin, Commands
<1>2. CASE ReadRoutes
  <2>1. phase \in {"offline", "starting"}
    BY <1>2, <1>i DEF PlacesInv, ReadRoutes
  <2>2. cmd' \in Commanding /\ cmd'.name = cmd.name
    <3>1. cmd' = [cmd EXCEPT !.step = "checked", !.routes = file.content, !.mtime = file.mtime]
      BY <1>2 DEF ReadRoutes
    <3>2. cmd \in Commanding /\ file.mtime \in Nat /\ file.content \in RouteFiles
      BY <1>m, <2>1 DEF PlacesInv
    <3> QED BY <3>1, <3>2, ReadRecord
  <2> QED BY <1>2, <2>1, <2>2 DEF PlacesInv, ReadRoutes
<1>3. cmd.name \in Commands /\ cmd.step \in {"document", "checked"} => phase = "offline"
  BY <1>i DEF PlacesInv, Commands
<1>4. CASE LoadDocument
  BY <1>3, <1>4, PlacesSay, PlacesNext DEF LoadDocument
<1>5. CASE Validate
  <2>1. phase = "offline" /\ \E r : Say(r)
    BY <1>3, <1>5 DEF Validate, Commands
  <2> QED BY <2>1, PlacesSay
<1>6. CASE VarsDocument
  <2>1. phase = "offline" /\ (NextStep("routes") \/ \E r : Say(r))
    BY <1>3, <1>6 DEF VarsDocument, Commands
  <2> QED BY <2>1, PlacesSay, PlacesNext
<1>7. CASE VarsRoutes
  <2>1. phase = "offline" /\ \E r : Say(r)
    BY <1>3, <1>7 DEF VarsRoutes, Commands
  <2> QED BY <2>1, PlacesSay
<1>8. CASE Effective
  <2>1. phase = "offline" /\ \E r : Say(r)
    BY <1>3, <1>8 DEF Effective, Commands
  <2> QED BY <2>1, PlacesSay
<1> QED BY <1>1, <1>2, <1>4, <1>5, <1>6, <1>7, <1>8 DEF Command

\* A start goes up, refuses or hands over to the reload task.
LEMMA PlacesBooting == ASSUME PlacesInv, Booting PROVE PlacesInv'
<1>1. CASE BootDocument
  <2>1. phase = "starting" /\ (NextStep("routes") \/ \E why \in Reasons : Refuse(why))
    BY <1>1, ReasonsTyped DEF BootDocument, Reasons
  <2> QED BY <2>1, PlacesRefuse, PlacesNext
<1>2. CASE BootRoutes
  <2>1. phase = "starting" /\ (NextStep("verify") \/ \E why \in Reasons : Refuse(why))
    BY <1>2, ReasonsTyped DEF BootRoutes
  <2> QED BY <2>1, PlacesRefuse, PlacesNext
<1>3. ASSUME NEW answer \in {"supports exact", "counts only", "unreachable"}, BootVerify(answer)
      PROVE  PlacesInv'
  <2>1. phase = "starting" /\ (NextStep("wire") \/ \E why \in Reasons : Refuse(why))
    BY <1>3 DEF BootVerify, Reasons
  <2> QED BY <2>1, PlacesRefuse, PlacesNext
<1>4. CASE BootWire
  <2>1. phase = "starting" /\ cmd.step = "wire"
    BY <1>4 DEF BootWire
  <2>2. CASE MissingExtensions(document) # {} \/ ~IssuersApart(document.settings.auth)
    BY <1>4, <2>1, <2>2, PlacesRefuse DEF BootWire, Reasons
  <2>3. CASE MissingExtensions(document) = {} /\ IssuersApart(document.settings.auth)
    BY <1>4, <2>1, <2>3 DEF PlacesInv, BootWire
  <2> QED BY <2>2, <2>3
<1>5. CASE StartReloader
  BY <1>5, IdleRecord DEF PlacesInv, StartReloader
<1>6. CASE Stop
  BY <1>6, IdleRecord DEF PlacesInv, Stop
<1> QED BY <1>1, <1>2, <1>3, <1>4, <1>5, <1>6 DEF Booting

\* The supervisor runs while no command does.
LEMMA PlacesDev == ASSUME PlacesInv, DevStart \/ DevStep \/ \E d \in Edits : Edit(d) PROVE PlacesInv'
<1>1. CASE DevStart
  BY <1>1, IdleRecord, EndedRecord DEF PlacesInv, DevStart
<1>2. ASSUME NEW d \in Edits, Edit(d) PROVE PlacesInv'
  BY <1>2, StartupConfig DEF PlacesInv, Edit, gateway
<1>3. ASSUME NEW step, NEW child, Dev(step, child), phase' = phase PROVE PlacesInv'
  BY <1>3 DEF PlacesInv, Dev
<1>4. CASE DevSpawn
  BY <1>3, <1>4 DEF DevSpawn
<1>5. CASE ChildStarts
  BY <1>3, <1>5 DEF ChildStarts
<1>6. CASE DevTick
  <2>1. CASE Bail
    BY <1>6, <2>1, EndedRecord DEF PlacesInv, Bail, DevTick
  <2>2. CASE UNCHANGED <<phase, document, edits, env, cmd, report, file>>
    BY <2>2 DEF PlacesInv
  <2> QED BY <1>6, <2>1, <2>2 DEF DevTick, allvars, svars, vars
<1>7. CASE DevLoad
  BY <1>3, <1>7 DEF DevLoad
<1> QED BY <1>1, <1>2, <1>4, <1>5, <1>6, <1>7 DEF DevStep

\* Every step leads to a place.
LEMMA PlacesStep == PlacesInv /\ [SNext]_allvars => PlacesInv'
<1> SUFFICES ASSUME PlacesInv, [SNext]_allvars PROVE PlacesInv'
  OBVIOUS
<1>1. ASSUME NEW content \in RouteFiles, WriteOffline(content) PROVE PlacesInv'
  <2>1. file' \in [content: Contents, mtime: 0..OfflineWrites]
    BY <1>1, StartupConfig DEF PlacesInv, WriteOffline
  <2> QED BY <1>1, <2>1 DEF PlacesInv, WriteOffline, svars
<1>2. CASE Serving
  BY <1>2 DEF PlacesInv, Serving, svars
<1>3. CASE UNCHANGED allvars
  BY <1>3 DEF PlacesInv, allvars, svars, vars
<1> QED BY <1>1, <1>2, <1>3, PlacesCommand, PlacesBooting, PlacesDev DEF SNext

\* No command has run yet.
LEMMA PlacesInit == SInit => PlacesInv
BY StartupConfig, IdleRecord DEF SInit, PlacesInv

\* What was checked stands while the document, the environment and what was
\* read of the route file do.
LEMMA SameOutcome ==
    ASSUME env' = env, document' = document
    PROVE  /\ DocumentOutcome(document, FALSE)' = DocumentOutcome(document, FALSE)
           /\ cmd'.routes = cmd.routes =>
                 RoutesOutcome(document, cmd.routes, FALSE)' = RoutesOutcome(document, cmd.routes, FALSE)
           /\ IssuersApart(document.settings.auth)' = IssuersApart(document.settings.auth)
BY DEF DocumentOutcome, RoutesOutcome, HasFile

\* A step that neither moves nor ends a start leaves what it checked.
LEMMA BootKept ==
    ASSUME BootInv, env' = env, document' = document, phase' = phase,
           cmd'.step = cmd.step, cmd'.routes = cmd.routes
    PROVE  BootInv'
BY SameOutcome DEF BootInv

\* Outside a start nothing need have been checked.
LEMMA BootElsewhere ==
    ASSUME phase' \notin {"starting", "up"} PROVE BootInv'
BY DEF BootInv

\* A start goes on only with what it just read and checked.
LEMMA BootAdvances ==
    ASSUME PlacesInv, BootInv, BootDocument \/ BootRoutes \/ BootWire
              \/ \E answer \in {"supports exact", "counts only", "unreachable"} : BootVerify(answer)
    PROVE  BootInv'
<1>1. ASSUME NEW why, Refuse(why) PROVE BootInv'
  BY <1>1, BootElsewhere DEF Refuse
<1>2. ASSUME NEW step \in Steps, NextStep(step)
      PROVE  /\ env' = env /\ document' = document /\ phase' = phase
             /\ cmd'.step = step /\ cmd'.routes = cmd.routes
  BY <1>2, StepRecord DEF NextStep, PlacesInv
<1>3. CASE BootDocument
  <2>1. CASE DocumentOutcome(document, FALSE) = "ok" /\ NextStep("routes")
    <3>1. phase' = "starting" /\ cmd'.step = "routes"
      BY <1>2, <1>3, <2>1 DEF BootDocument, Steps
    <3>2. DocumentOutcome(document, FALSE)' = "ok"
      BY <1>2, <2>1, SameOutcome DEF Steps
    <3> QED BY <3>1, <3>2 DEF BootInv
  <2> QED BY <1>1, <1>3, <2>1 DEF BootDocument
<1>4. CASE BootRoutes
  <2>1. CASE RoutesOutcome(document, cmd.routes, FALSE) = "ok" /\ NextStep("verify")
    <3>1. phase' = "starting" /\ cmd'.step = "verify"
      BY <1>2, <1>4, <2>1 DEF BootRoutes, Steps
    <3>2. DocumentOutcome(document, FALSE) = "ok"
      BY <1>4 DEF BootInv, BootRoutes
    <3>3. DocumentOutcome(document, FALSE)' = "ok" /\ RoutesOutcome(document, cmd.routes, FALSE)' = "ok"
      BY <1>2, <2>1, <3>2, SameOutcome DEF Steps
    <3> QED BY <3>1, <3>3 DEF BootInv
  <2> QED BY <1>1, <1>4, <2>1 DEF BootRoutes
<1>5. ASSUME NEW answer \in {"supports exact", "counts only", "unreachable"}, BootVerify(answer)
      PROVE  BootInv'
  <2>1. CASE NextStep("wire")
    <3>1. phase' = "starting" /\ cmd'.step = "wire"
      BY <1>2, <1>5, <2>1 DEF BootVerify, Steps
    <3>2. DocumentOutcome(document, FALSE) = "ok" /\ RoutesOutcome(document, cmd.routes, FALSE) = "ok"
      BY <1>5 DEF BootInv, BootVerify
    <3>3. DocumentOutcome(document, FALSE)' = "ok" /\ RoutesOutcome(document, cmd.routes, FALSE)' = "ok"
      BY <1>2, <2>1, <3>2, SameOutcome DEF Steps
    <3> QED BY <3>1, <3>3 DEF BootInv
  <2> QED BY <1>1, <1>5, <2>1 DEF BootVerify
<1>6. CASE BootWire
  <2>1. CASE MissingExtensions(document) = {} /\ IssuersApart(document.settings.auth)
    <3>1. phase' = "up" /\ env' = env /\ document' = document /\ cmd' = cmd
      BY <1>6, <2>1 DEF BootWire
    <3>2. DocumentOutcome(document, FALSE) = "ok" /\ RoutesOutcome(document, cmd.routes, FALSE) = "ok"
      BY <1>6 DEF BootInv, BootWire
    <3>3. /\ DocumentOutcome(document, FALSE)' = "ok"
          /\ RoutesOutcome(document, cmd.routes, FALSE)' = "ok"
          /\ IssuersApart(document.settings.auth)'
      BY <2>1, <3>1, <3>2, SameOutcome
    <3> QED BY <3>1, <3>3 DEF BootInv
  <2> QED BY <1>1, <1>6, <2>1 DEF BootWire
<1> QED BY <1>3, <1>4, <1>5, <1>6

\* Every step keeps what a start has checked.
LEMMA BootStep == PlacesInv /\ BootInv /\ [SNext]_allvars => BootInv'
<1> SUFFICES ASSUME PlacesInv, BootInv, [SNext]_allvars PROVE BootInv'
  OBVIOUS
<1>1. ASSUME NEW name \in Commands \cup {"run"}, Begin(name) PROVE BootInv'
  <2>1. CASE name = "run"
    <3>1. cmd' = [Idle EXCEPT !.name = name, !.step = "document", !.mtime = file.mtime]
      BY <1>1 DEF Begin
    <3>2. file.mtime \in Nat
      BY <1>1, StartupConfig DEF Begin, PlacesInv
    <3>3. cmd'.step = "document" /\ phase' = "starting"
      BY <1>1, <2>1, <3>1, <3>2, FirstRecord DEF Begin
    <3> QED BY <3>3 DEF BootInv
  <2>2. CASE name # "run"
    BY <1>1, <2>2, BootElsewhere DEF Begin
  <2> QED BY <2>1, <2>2
<1>2. CASE ReadRoutes
  <2>1. CASE phase = "starting"
    <3>1. DocumentOutcome(document, FALSE) = "ok" /\ env' = env /\ document' = document /\ phase' = phase
      BY <1>2, <2>1 DEF BootInv, ReadRoutes
    <3>2. cmd' = [cmd EXCEPT !.step = "checked", !.routes = file.content, !.mtime = file.mtime]
      BY <1>2 DEF ReadRoutes
    <3>3. cmd \in Commanding /\ file.mtime \in Nat /\ file.content \in RouteFiles
      BY <2>1, StartupConfig DEF PlacesInv
    <3>4. cmd'.step = "checked"
      BY <3>2, <3>3, ReadRecord
    <3>5. DocumentOutcome(document, FALSE)' = "ok"
      BY <3>1, SameOutcome
    <3> QED BY <2>1, <3>1, <3>4, <3>5 DEF BootInv
  <2>2. CASE phase # "starting"
    BY <1>2, <2>2, BootElsewhere DEF PlacesInv, ReadRoutes
  <2> QED BY <2>1, <2>2
<1>3. CASE LoadDocument \/ Validate \/ VarsDocument \/ VarsRoutes \/ Effective
  <2>1. phase = "offline"
    BY <1>3, IdleRecord DEF PlacesInv, Commands, LoadDocument, Validate, VarsDocument, VarsRoutes,
       Effective
  <2>2. phase' = phase
    BY <1>3 DEF LoadDocument, Validate, VarsDocument, VarsRoutes, Effective, NextStep, Say
  <2> QED BY <2>1, <2>2, BootElsewhere
<1>4. CASE StartReloader \/ Stop
  BY <1>4, BootElsewhere DEF StartReloader, Stop
<1>5. ASSUME NEW content \in RouteFiles, WriteOffline(content) PROVE BootInv'
  BY <1>5, BootKept DEF WriteOffline, svars
<1>6. CASE DevStart \/ DevStep \/ \E d \in Edits : Edit(d)
  <2>1. CASE UNCHANGED allvars
    BY <2>1, BootKept DEF allvars, svars
  <2>2. CASE ~UNCHANGED allvars
    <3>1. phase' \in {phase, "dev", "refused"} /\ phase \in {"offline", "dev"}
      BY <1>6, <2>2 DEF DevStart, DevStep, Edit, DevSpawn, ChildStarts, DevTick, DevLoad, Bail
    <3> QED BY <3>1, BootElsewhere
  <2> QED BY <2>1, <2>2
<1>7. CASE Serving
  BY <1>7, BootKept DEF Serving, svars
<1>8. CASE UNCHANGED allvars
  BY <1>8, BootKept DEF allvars, svars
<1> QED BY <1>1, <1>2, <1>3, <1>4, <1>5, <1>6, <1>7, <1>8, BootAdvances
        DEF SNext, Command, Booting

\* Nothing is starting yet.
LEMMA BootInit == SInit => BootInv
BY DEF SInit, BootInv

\* Places and checks are invariants.
LEMMA StartInvariance == SSpec => [](PlacesInv /\ BootInv)
<1>1. SInit => PlacesInv /\ BootInv
  BY PlacesInit, BootInit
<1>2. PlacesInv /\ BootInv /\ [SNext]_allvars => (PlacesInv /\ BootInv)'
  BY PlacesStep, BootStep
<1> QED BY <1>1, <1>2, PTL DEF SSpec

\* What the loader and resolve leave of a document's settings.
LEMMA Resolved ==
    ASSUME NEW d, Document(d), DocumentOutcome(d, FALSE) = "ok"
    PROVE  /\ d.settings \in GatewayConfig
           /\ UpstreamParses(d.settings.upstream)
           /\ Resolves(d.settings, HasFile(d))
BY DEF Document, DocumentOutcome

\* Set and Strip, by what they do to a plan.
LEMMA SetIs ==
    ASSUME NEW plan, NEW names, NEW value
    PROVE  /\ DOMAIN Set(plan, names, value).set = names \cup DOMAIN plan.set
           /\ Set(plan, names, value).remove = plan.remove \cup names
           /\ \A n \in names : Set(plan, names, value).set[n] = value
           /\ \A n \in DOMAIN plan.set \ names : Set(plan, names, value).set[n] = plan.set[n]
BY DEF Set

LEMMA StripIs ==
    ASSUME NEW plan, NEW names
    PROVE  /\ Strip(plan, names).set = plan.set
           /\ Strip(plan, names).remove = plan.remove \cup names
BY DEF Strip

\* What a plan says of a name.
Untouched(plan, n) == n \notin DOMAIN plan.set /\ n \notin plan.remove

LEMMA SetElsewhere ==
    ASSUME NEW plan, NEW names, NEW value, NEW n, Untouched(plan, n), n \notin names
    PROVE  Untouched(Set(plan, names, value), n)
BY SetIs DEF Untouched

LEMMA StripElsewhere ==
    ASSUME NEW plan, NEW names, NEW n, Untouched(plan, n), n \notin names
    PROVE  Untouched(Strip(plan, names), n)
BY StripIs DEF Untouched

\* A name none of the gateway's own writers has is not in the plan before the client
\* key's turn.
LEMMA OwnedOnly ==
    ASSUME NEW c, NEW q \in Accepted(c), NEW n \in HeaderNames,
           n \notin GatewayOwnedHeaders(c), n \notin ReservedClientKeyHeaders
    PROVE  Untouched(IdentityPlan(c, q), n)
<1>1. ASSUME NEW w \in HeaderWriters PROVE n \notin PlanNames(c, w)
  <2> SUFFICES ASSUME NEW h \in c.writes[w],
                      n = IF h.spelt = "padded" THEN "not a name" ELSE h.name
               PROVE  FALSE
    BY DEF PlanNames
  <2>1. h.name \in GatewayOwnedHeaders(c)
    BY DEF GatewayOwnedHeaders
  <2>2. n # "not a name"
    BY DEF HeaderNames
  <2> QED BY <2>1, <2>2
<1>2. /\ {"identity", "claims", "token", "inject", "inject_machine"} \subseteq HeaderWriters
      /\ q.claims \subseteq PlanNames(c, "claims")
  BY DEF HeaderWriters, Accepted
<1>3. Untouched(NewPlan, n)
  BY DEF Untouched, NewPlan
<1>4. Untouched(BaseHeaderPlan(c, q), n)
  BY <1>1, <1>2, <1>3, SetElsewhere DEF BaseHeaderPlan
<1>5. Untouched(StripAll(BaseHeaderPlan(c, q), c), n)
  BY <1>1, <1>2, <1>4, StripElsewhere DEF StripAll
<1>6. Untouched(Apply(BaseHeaderPlan(c, q), c, q), n)
  <2> DEFINE subject == Set(BaseHeaderPlan(c, q), PlanNames(c, "identity"), "identity")
             claims == Set(Strip(subject, PlanNames(c, "claims")), q.claims, "claim")
  <2>1. Untouched(subject, n)
    BY <1>1, <1>2, <1>4, SetElsewhere
  <2>2. Untouched(Strip(subject, PlanNames(c, "claims")), n)
    BY <1>1, <1>2, <2>1, StripElsewhere
  <2>3. Untouched(claims, n)
    BY <1>1, <1>2, <2>2, SetElsewhere
  <2>4. Untouched(Set(claims, PlanNames(c, "token"), "token"), n)
    BY <1>1, <1>2, <2>3, SetElsewhere
  <2>5. Untouched(Strip(claims, PlanNames(c, "token")), n)
    BY <1>1, <1>2, <2>3, StripElsewhere
  <2> QED BY <2>4, <2>5 DEF Apply
<1>7. \A plan : Untouched(plan, n) => Untouched(StripCookies(plan, q), n)
  <2>1. n \notin {"cookie"}
    BY DEF ReservedClientKeyHeaders
  <2> QED BY <2>1, SetElsewhere, StripElsewhere DEF StripCookies
<1> QED BY <1>5, <1>6, <1>7 DEF IdentityPlan

\* A start lets no client key use a name that is reserved or written by the gateway.
LEMMA KeyNamesApart ==
    ASSUME NEW c \in GatewayConfig, ClientKeysUsable(c)
    PROVE  /\ KeyHeader(c) \cap ForwardAs(c) = {}
           /\ \A n \in KeyHeader(c) \cup ForwardAs(c) :
                 /\ n \in HeaderNames
                 /\ n \notin GatewayOwnedHeaders(c) /\ n \notin ReservedClientKeyHeaders
<1>0. c.auth.client_keys \in Option(ClientKeysConfig)
  <2>1. c.auth \in AuthConfig
    BY DEF GatewayConfig
  <2> QED BY <2>1, Zenon DEF AuthConfig
<1>1. \A a, b \in c.auth.client_keys : a = b
  BY <1>0 DEF Option
<1>2. ASSUME NEW ck \in c.auth.client_keys
      PROVE  /\ HeaderNameUsable(c, ck.header)
             /\ \A h \in ck.forward_as : HeaderNameUsable(c, h) /\ h.name # ck.header.name
  BY DEF ClientKeysUsable
<1>3. ASSUME NEW n \in KeyHeader(c), n \in ForwardAs(c) PROVE FALSE
  <2>1. PICK a \in c.auth.client_keys : n = a.header.name
    BY <1>3 DEF KeyHeader
  <2>2. PICK b \in c.auth.client_keys : \E h \in b.forward_as : n = h.name
    BY <1>3 DEF ForwardAs
  <2> QED BY <1>1, <1>2, <2>1, <2>2
<1>4. ASSUME NEW n \in KeyHeader(c) \cup ForwardAs(c)
      PROVE  n \notin GatewayOwnedHeaders(c) /\ n \notin ReservedClientKeyHeaders
  <2>1. CASE n \in KeyHeader(c)
    <3>1. PICK ck \in c.auth.client_keys : n = ck.header.name
      BY <2>1 DEF KeyHeader
    <3> QED BY <1>2, <3>1 DEF HeaderNameUsable
  <2>2. CASE n \in ForwardAs(c)
    <3>1. PICK ck \in c.auth.client_keys : \E h \in ck.forward_as : n = h.name
      BY <2>2 DEF ForwardAs
    <3> QED BY <1>2, <3>1 DEF HeaderNameUsable
  <2> QED BY <1>4, <2>1, <2>2
<1>5. ASSUME NEW n \in KeyHeader(c) \cup ForwardAs(c) PROVE n \in HeaderNames
  <2>1. ASSUME NEW ck \in c.auth.client_keys
        PROVE  ck.header \in Spelling /\ \A h \in ck.forward_as : h \in Spelling
    <3>1. ck \in ClientKeysConfig
      BY <1>0, <2>1 DEF Option
    <3>2. ck.header \in Spelling
      BY <3>1, Zenon DEF ClientKeysConfig
    <3>3. ck.forward_as \in Option(Spelling)
      BY <3>1, Zenon DEF ClientKeysConfig
    <3> QED BY <3>2, <3>3 DEF Option
  <2>2. CASE n \in KeyHeader(c)
    <3>1. PICK ck \in c.auth.client_keys : n = ck.header.name
      BY <2>2 DEF KeyHeader
    <3> QED BY <1>2, <2>1, <3>1 DEF HeaderNameUsable, HeaderNames
  <2>3. CASE n \in ForwardAs(c)
    <3>1. PICK ck \in c.auth.client_keys : \E h \in ck.forward_as : n = h.name
      BY <2>3 DEF ForwardAs
    <3> QED BY <1>2, <2>1, <3>1 DEF HeaderNameUsable, HeaderNames
  <2> QED BY <1>5, <2>2, <2>3
<1> QED BY <1>3, <1>4, <1>5

\* Two plans say the same of a name.
Says(p, o, n) ==
    /\ n \in DOMAIN p.set <=> n \in DOMAIN o.set
    /\ n \in DOMAIN o.set => p.set[n] = o.set[n]
    /\ n \in p.remove <=> n \in o.remove

LEMMA SentAlike ==
    ASSUME NEW p, NEW o, NEW q, NEW n \in HeaderNames, Says(p, o, n)
    PROVE  Sends(p, q)[n] = Sends(o, q)[n]
BY DEF Says, Sends

\* Of other names the plan says the same after the client key's turn as before.
LEMMA KeyTurn ==
    ASSUME NEW c, NEW q, NEW n, n \notin KeyHeader(c) \cup ForwardAs(c)
    PROVE  Says(Plan(c, q), IdentityPlan(c, q), n)
<1>1. PICK base : base = IdentityPlan(c, q)
  OBVIOUS
<1>2. PICK cleared : cleared = Strip(base, KeyHeader(c))
  OBVIOUS
<1>3. Says(cleared, base, n)
  BY <1>2 DEF Says, Strip
<1>4. Says(Set(cleared, ForwardAs(c), "key id"), base, n)
  BY <1>3 DEF Says, Set
<1>5. Says(Strip(cleared, ForwardAs(c)), base, n)
  BY <1>3 DEF Says, Strip
<1>6. Says(base, base, n)
  BY DEF Says
<1> QED BY <1>1, <1>2, <1>4, <1>5, <1>6 DEF Plan

\* The client key's turn changes nothing but its own names, and those as it should.
LEMMA KeysSpare ==
    ASSUME NEW c \in GatewayConfig, ClientKeysUsable(c), NEW q \in Accepted(c)
    PROVE  ClientKeysSpare(c, q)
<1> DEFINE d == [c EXCEPT !.auth.client_keys = {}]
           names == KeyHeader(c) \cup ForwardAs(c)
<1>1. d.writes = c.writes /\ d.auth.client_keys = {}
  <2>1. c = [default_rate |-> c.default_rate, shared_counters |-> c.shared_counters,
             timeouts |-> c.timeouts, extension_inflight |-> c.extension_inflight,
             forward |-> c.forward, upstream |-> c.upstream, auth |-> c.auth,
             writes |-> c.writes, rejects |-> c.rejects, mounts |-> c.mounts,
             routes |-> c.routes, cache |-> c.cache, cors |-> c.cors,
             sample_ratio |-> c.sample_ratio, internal_listen |-> c.internal_listen]
    BY DEF GatewayConfig
  <2>2. c.auth = [jwt |-> c.auth.jwt, firebase |-> c.auth.firebase,
                  client_keys |-> c.auth.client_keys,
                  token_cookies |-> c.auth.token_cookies,
                  cookie_protection |-> c.auth.cookie_protection]
    <3>1. c.auth \in AuthConfig
      BY DEF GatewayConfig
    <3> QED BY <3>1, Zenon DEF AuthConfig
  <2> QED BY <2>1, <2>2
<1>2. PICK base : base = IdentityPlan(c, q)
  OBVIOUS
<1>3. IdentityPlan(d, q) = base
  <2>1. \A w : PlanNames(d, w) = PlanNames(c, w)
    BY <1>1 DEF PlanNames
  <2> QED BY <1>2, <2>1 DEF IdentityPlan, BaseHeaderPlan, Apply, StripAll
<1>4. \A n \in names \cap HeaderNames : Untouched(base, n)
  BY <1>2, OwnedOnly, KeyNamesApart
<1>5. KeyHeader(d) = {} /\ ForwardAs(d) = {}
  BY <1>1 DEF KeyHeader, ForwardAs
<1> HIDE DEF d
<1>6. \A n \in HeaderNames \ names : Says(Plan(c, q), base, n)
  BY <1>2, KeyTurn
<1>7. \A n \in HeaderNames : Says(Plan(d, q), base, n)
  BY <1>3, <1>5, KeyTurn
<1>8. \A n \in HeaderNames \ names : Sends(Plan(c, q), q)[n] = Sends(Plan(d, q), q)[n]
  <2> SUFFICES ASSUME NEW n \in HeaderNames \ names
               PROVE  Sends(Plan(c, q), q)[n] = Sends(Plan(d, q), q)[n]
    OBVIOUS
  <2>1. Sends(Plan(c, q), q)[n] = Sends(base, q)[n]
    BY <1>6, SentAlike
  <2>2. Sends(Plan(d, q), q)[n] = Sends(base, q)[n]
    BY <1>7, SentAlike
  <2> QED BY <2>1, <2>2
<1>9. ASSUME NEW n \in names
      PROVE  Sends(Plan(c, q), q)[n] =
                IF q.internal THEN IF n \in q.relays THEN "client" ELSE "absent"
                ELSE IF n \in ForwardAs(c) /\ q.keyed THEN "key id" ELSE "absent"
  <2>1. n \in HeaderNames
    BY <1>9, KeyNamesApart
  <2>2. Untouched(base, n)
    BY <1>4, <1>9, <2>1
  <2>3. PICK plan : plan = Plan(c, q)
    OBVIOUS
  <2>4. CASE q.internal
    <3>1. plan = base
      BY <1>2, <2>3, <2>4 DEF Plan
    <3> QED BY <2>1, <2>2, <2>3, <2>4, <3>1 DEF Sends, Untouched
  <2>5. CASE ~q.internal
    <3>1. PICK cleared : cleared = Strip(base, KeyHeader(c))
      OBVIOUS
    <3>2. /\ DOMAIN cleared.set = DOMAIN base.set
          /\ cleared.remove = base.remove \cup KeyHeader(c)
      BY <3>1 DEF Strip
    <3>3. CASE q.keyed
      <4>1. plan = Set(cleared, ForwardAs(c), "key id")
        BY <1>2, <2>3, <2>5, <3>1, <3>3 DEF Plan
      <4>2. /\ DOMAIN plan.set = ForwardAs(c) \cup DOMAIN cleared.set
            /\ plan.remove = cleared.remove \cup ForwardAs(c)
            /\ n \in ForwardAs(c) => plan.set[n] = "key id"
        BY <4>1 DEF Set
      <4>3. CASE n \in ForwardAs(c)
        BY <2>1, <2>3, <2>5, <3>3, <4>2, <4>3 DEF Sends
      <4>4. CASE n \notin ForwardAs(c)
        <5>1. n \notin DOMAIN plan.set /\ n \in plan.remove
          BY <1>9, <2>2, <3>2, <4>2, <4>4 DEF Untouched
        <5> QED BY <2>1, <2>3, <2>5, <4>4, <5>1 DEF Sends
      <4> QED BY <4>3, <4>4
    <3>4. CASE ~q.keyed
      <4>1. plan = Strip(cleared, ForwardAs(c))
        BY <1>2, <2>3, <2>5, <3>1, <3>4 DEF Plan
      <4>2. DOMAIN plan.set = DOMAIN cleared.set /\ plan.remove = cleared.remove \cup ForwardAs(c)
        BY <4>1 DEF Strip
      <4>3. n \notin DOMAIN plan.set /\ n \in plan.remove
        BY <1>9, <2>2, <3>2, <4>2 DEF Untouched
      <4> QED BY <2>1, <2>3, <2>5, <3>4, <4>3 DEF Sends
    <3> QED BY <3>3, <3>4
  <2> QED BY <2>4, <2>5
<1> QED BY <1>8, <1>9 DEF ClientKeysSpare, d

(* GatewayConfig::resolve keeps the client key and what it is forwarded as *)
(* apart from every header another writer of the plan sets, so that in a   *)
(* gateway that comes up neither of them overwrites the other, whatever    *)
(* the document, the environment and the request.                          *)
THEOREM KeysOverwriteNothing == SSpec => []VerifiedHeadersSurvive
<1>1. PlacesInv /\ BootInv => VerifiedHeadersSurvive
  <2> SUFFICES ASSUME PlacesInv, BootInv, phase = "up",
                      NEW q \in Accepted(document.settings)
               PROVE  ClientKeysSpare(document.settings, q)
    BY DEF VerifiedHeadersSurvive
  <2>1. document.settings \in GatewayConfig /\ Resolves(document.settings, HasFile(document))
    BY Resolved DEF PlacesInv, BootInv
  <2>2. ClientKeysUsable(document.settings)
    BY <2>1 DEF Resolves
  <2> QED BY <2>1, <2>2, KeysSpare
<1> QED BY <1>1, StartInvariance, PTL

(* Nothing counts, and the reload task is idle, until a gateway serves.    *)
GatewayInv ==
    IF phase = "serving" THEN IInv
    ELSE /\ last = None /\ current = None /\ loaded = None /\ pc = "idle"
         /\ limiters = <<>> /\ spent = <<>>
         /\ snap = [q \in Requests |-> None]
         /\ outages = 0

\* A gateway that hands over to the reload task serves a version it checked.
LEMMA HandsOver == PlacesInv /\ BootInv /\ GatewayInv /\ StartReloader => GatewayInv'
<1> SUFFICES ASSUME PlacesInv, BootInv, GatewayInv, StartReloader PROVE GatewayInv'
  OBVIOUS
<1>1. phase = "up" /\ phase' = "serving" /\ env = BootEnv /\ HasFile(document)
  BY DEF StartReloader
<1>2. RoutesOutcome(document, cmd.routes, FALSE) = "ok" /\ cmd.routes \in RouteFiles
  BY <1>1 DEF BootInv, PlacesInv, Commanding
<1>3. cmd.routes # Missing /\ Readable(cmd.routes, BootEnv, FALSE)
  BY <1>1, <1>2 DEF RoutesOutcome, Readable
<1>4. cmd.routes \in Versions
  BY <1>2, <1>3, StartupConfig
<1>5. file' \in [content: Contents, mtime: Times]
  BY <1>1, StartupConfig, ReloadConfig DEF PlacesInv, StartReloader, Times
<1>6. /\ last' = None /\ current' = None /\ loaded' = None /\ pc' = "idle"
      /\ snap' = [q \in Requests |-> None] /\ outages' = 0
      /\ public' = [version |-> cmd.routes, limiter |-> 1, era |-> 1]
      /\ machine' = cmd.routes /\ limiters' = <<0>> /\ spent' = <<0>>
  BY <1>1 DEF GatewayInv, StartReloader
<1>7. TypeOK'
  BY <1>4, <1>5, <1>6, ReloadConfig DEF TypeOK, Table
<1>8. OneLimiterPerEra' /\ LoadedToPublish' /\ QuotaAcrossReloads'
  BY <1>6, ReloadConfig DEF OneLimiterPerEra, LoadedToPublish, QuotaAcrossReloads
<1> QED BY <1>1, <1>7, <1>8 DEF GatewayInv, IInv

\* Only the hand-over and the steps of a serving gateway touch its state.
LEMMA GatewayKept ==
    ASSUME GatewayInv, UNCHANGED gateway, phase # "serving", phase' # "serving"
    PROVE  GatewayInv'
BY DEF GatewayInv, gateway

\* Every step keeps the gateway's state.
LEMMA GatewayStep == PlacesInv /\ BootInv /\ GatewayInv /\ [SNext]_allvars => GatewayInv'
<1> SUFFICES ASSUME PlacesInv, BootInv, GatewayInv, [SNext]_allvars PROVE GatewayInv'
  OBVIOUS
<1>1. ASSUME [Next]_vars, phase' = phase, phase = "serving" PROVE GatewayInv'
  BY <1>1, NextInv DEF GatewayInv
<1>2. CASE UNCHANGED allvars
  <2>1. UNCHANGED vars /\ UNCHANGED gateway /\ phase' = phase
    BY <1>2 DEF allvars, svars, vars, gateway
  <2> QED BY <1>1, <2>1, GatewayKept
<1>3. CASE Serving
  BY <1>1, <1>3 DEF Serving, svars
<1>4. CASE Command
  <2>1. phase \in {"offline", "starting"} /\ phase' \in {"offline", "starting"}
    BY <1>4, IdleRecord DEF PlacesInv, Command, Commands, Begin, ReadRoutes, LoadDocument,
       Validate, VarsDocument, VarsRoutes, Effective, NextStep, Say
  <2>2. UNCHANGED gateway
    BY <1>4 DEF Command, Begin, ReadRoutes, LoadDocument, Validate, VarsDocument, VarsRoutes,
       Effective, NextStep, Say
  <2> QED BY <2>1, <2>2, GatewayKept
<1>5. CASE StartReloader
  BY <1>5, HandsOver
<1>6. CASE Booting /\ ~StartReloader
  <2>1. UNCHANGED gateway /\ phase # "serving" /\ phase' # "serving"
    BY <1>6 DEF Booting, BootDocument, BootRoutes, BootVerify, BootWire, Stop, NextStep, Refuse
  <2> QED BY <2>1, GatewayKept
<1>7. ASSUME NEW content \in RouteFiles, WriteOffline(content) PROVE GatewayInv'
  BY <1>7, GatewayKept DEF WriteOffline, svars
<1>8. CASE DevStart \/ DevStep \/ \E d \in Edits : Edit(d)
  <2>1. CASE UNCHANGED allvars
    BY <1>2, <2>1
  <2>2. CASE ~UNCHANGED allvars
    <3>1. UNCHANGED gateway /\ phase # "serving" /\ phase' # "serving"
      BY <1>8, <2>2 DEF DevStart, DevStep, Edit, DevSpawn, ChildStarts, DevTick, DevLoad, Bail, Dev
    <3> QED BY <3>1, GatewayKept
  <2> QED BY <2>1, <2>2
<1> QED BY <1>2, <1>3, <1>4, <1>5, <1>6, <1>7, <1>8 DEF SNext

\* So it is an invariant, from the first command on.
LEMMA GatewayInvariance == SSpec => []GatewayInv
<1>1. SInit => GatewayInv
  BY DEF SInit, GatewayInv
<1> QED BY <1>1, GatewayStep, StartInvariance, PTL DEF SSpec

(* From the files on: whatever was deployed, read, refused or edited on    *)
(* the way, a gateway that comes to serve keeps its reload task, tables    *)
(* and limiters well typed.                                                *)
THEOREM ServingTypeCorrect == SSpec => [](phase = "serving" => TypeOK)
<1>1. GatewayInv => (phase = "serving" => TypeOK)
  BY DEF GatewayInv, IInv
<1> QED BY <1>1, GatewayInvariance, PTL

(* And it never hands out a second quota when a reload leaves the route    *)
(* alone: Runtime::run publishes only tables it has loaded and validated.  *)
THEOREM QuotaFromStart == SSpec => []QuotaAcrossReloads
<1>1. GatewayInv => QuotaAcrossReloads
  BY DEF GatewayInv, IInv, QuotaAcrossReloads
<1> QED BY <1>1, GatewayInvariance, PTL

-----------------------------------------------------------------------------
(***************************************************************************)
(* What `config --effective` prints.  A field is printed when the masked   *)
(* text and the expanded one agree on it, so two environments that both    *)
(* print it print the same; and a literal is not moved by an expansion     *)
(* that reads.                                                             *)
(***************************************************************************)

\* A document, or a route file.
Text(t) == t \in [DocumentSlots -> Scalar] \cup [RouteSlots -> Scalar]

\* A scalar no variable stands in is what it says in every environment.
LEMMA PlainScalar ==
    ASSUME NEW text, Text(text), NEW k \in DOMAIN text, NEW e, YamlReads(text, e),
           text[k].form \in {"literal", "escaped"}
    PROVE  Expanded(text, e, k) = Masked(text, k) /\ Masked(text, k) # Nothing
<1>1. k \notin Added(text, e)
  BY DEF YamlReads
<1>2. text[k] \in Scalar
  BY DEF Text
<1>3. CASE text[k].form = "escaped"
  BY <1>1, <1>3 DEF Expanded, Masked, Nothing
<1>4. CASE text[k].form = "literal"
  <2>1. text[k].value \in {"routes.yml", "8"}
    BY <1>2, <1>4 DEF Scalar
  <2> QED BY <1>1, <1>4, <2>1 DEF Expanded, Masked, Nothing
<1> QED BY <1>3, <1>4

\* An untainted field is what the masked text says.
LEMMA Untainted ==
    ASSUME NEW text, NEW e, NEW k, ~Tainted(text, e, k)
    PROVE  Expanded(text, e, k) = Masked(text, k) /\ Masked(text, k) # "marker"
BY DEF Tainted

\* A field two environments print is the same in both.
LEMMA FieldHides ==
    ASSUME NEW text, NEW e, NEW o, NEW k
    PROVE  "redacted" \in {Field(text, e, k), Field(text, o, k)} \/ Field(text, e, k) = Field(text, o, k)
BY Untainted DEF Field

\* A default that one environment prints is there in the other.
LEMMA DefaultStays ==
    ASSUME NEW text, Text(text), NEW k \in DOMAIN text, NEW e, NEW o, YamlReads(text, o),
           ~Tainted(text, e, k), Expanded(text, e, k) # Nothing
    PROVE  Expanded(text, o, k) # Nothing
<1>1. Masked(text, k) # Nothing /\ Masked(text, k) # "marker"
  BY Untainted
<1>2. text[k].form \in {"literal", "escaped"}
  BY <1>1 DEF Masked
<1> QED BY <1>2, PlainScalar

\* The limit of a route that two environments print is the same in both.
LEMMA PolicyHides ==
    ASSUME NEW text, text \in [DocumentSlots -> Scalar], NEW routes, NEW e, NEW o,
           YamlReads(text, e), YamlReads(text, o)
    PROVE  \/ "redacted" \in {RoutePolicy(text, routes, e), RoutePolicy(text, routes, o)}
           \/ RoutePolicy(text, routes, e) = RoutePolicy(text, routes, o)
<1> SUFFICES ASSUME RoutePolicy(text, routes, e) # "redacted",
                    RoutePolicy(text, routes, o) # "redacted"
             PROVE  RoutePolicy(text, routes, e) = RoutePolicy(text, routes, o)
  OBVIOUS
<1>1. ~Tainted(routes, e, "limit") /\ ~Tainted(routes, o, "limit")
  BY DEF RoutePolicy, RouteSlots
<1>2. Expanded(routes, e, "limit") = Expanded(routes, o, "limit")
  BY <1>1, Untainted
<1> DEFINE printed(v) == CASE PolicyOrigin(text, routes, v) = "route" -> Field(routes, v, "limit")
                           [] PolicyOrigin(text, routes, v) = "defaults" -> Field(text, v, "default_limit")
                           [] PolicyOrigin(text, routes, v) = "built-in" -> Nothing
<1>3. RoutePolicy(text, routes, e) = printed(e) /\ RoutePolicy(text, routes, o) = printed(o)
  BY DEF RoutePolicy
<1>4. CASE Expanded(routes, e, "limit") # Nothing
  <2>1. PolicyOrigin(text, routes, e) = "route" /\ PolicyOrigin(text, routes, o) = "route"
    BY <1>2, <1>4 DEF PolicyOrigin
  <2>2. printed(e) = Field(routes, e, "limit") /\ printed(o) = Field(routes, o, "limit")
    BY <2>1
  <2> HIDE DEF printed
  <2> QED BY <1>3, <2>2, FieldHides
<1>5. CASE Expanded(routes, e, "limit") = Nothing
  <2>1. \A v \in {e, o} :
           /\ Expanded(text, v, "default_limit") # Nothing => printed(v) = Field(text, v, "default_limit")
           /\ Expanded(text, v, "default_limit") = Nothing => printed(v) = Nothing
    BY <1>2, <1>5 DEF PolicyOrigin
  <2> HIDE DEF printed
  <2>2. ASSUME NEW v, NEW w, YamlReads(text, w), Expanded(text, v, "default_limit") # Nothing,
               Expanded(text, w, "default_limit") = Nothing
        PROVE  Field(text, v, "default_limit") = "redacted"
    <3>1. Text(text) /\ "default_limit" \in DOMAIN text
      BY DEF Text, DocumentSlots
    <3>2. Tainted(text, v, "default_limit")
      BY <2>2, <3>1, DefaultStays
    <3> QED BY <3>2 DEF Field
  <2>3. CASE Expanded(text, e, "default_limit") # Nothing /\ Expanded(text, o, "default_limit") # Nothing
    BY <1>3, <2>1, <2>3, FieldHides
  <2>4. CASE Expanded(text, e, "default_limit") = Nothing /\ Expanded(text, o, "default_limit") = Nothing
    BY <1>3, <2>1, <2>4
  <2> QED BY <1>3, <2>1, <2>2, <2>3, <2>4
<1> QED BY <1>4, <1>5

\* What one environment prints and another would print differ only in what is
\* redacted.
LEMMA ProjectHides ==
    ASSUME NEW text, text \in [DocumentSlots -> Scalar], NEW routes, NEW e, NEW o,
           YamlReads(text, e), YamlReads(text, o)
    PROVE  \A k \in DOMAIN Project(text, routes, o) :
              \/ "redacted" \in {Project(text, routes, o)[k], Project(text, routes, e)[k]}
              \/ Project(text, routes, o)[k] = Project(text, routes, e)[k]
<1>1. \/ "redacted" \in {Field(text, o, "threads"), Field(text, e, "threads")}
      \/ Field(text, o, "threads") = Field(text, e, "threads")
  BY FieldHides
<1>2. \/ "redacted" \in {RoutePolicy(text, routes, o), RoutePolicy(text, routes, e)}
      \/ RoutePolicy(text, routes, o) = RoutePolicy(text, routes, e)
  BY PolicyHides
<1>3. \A v : /\ DOMAIN Project(text, routes, v) = {"threads", "rate_limit"}
             /\ Project(text, routes, v)["threads"] = Field(text, v, "threads")
             /\ Project(text, routes, v)["rate_limit"] = RoutePolicy(text, routes, v)
  BY DEF Project
<1> QED BY <1>1, <1>2, <1>3

(* A view that is reported is that of the document and the route file the  *)
(* command read, in the environment it ran in.                             *)
EffectiveInv ==
    report.by = "config --effective" /\ report.says = "view" =>
        /\ report.view = Project(document.text, RoutesText(document, report.routes), env)
        /\ Readable(document.text, env, FALSE)
        /\ HasFile(document) => report.routes # Missing

\* It stays true while the report, the document and the environment stay.
LEMMA EffectiveKept ==
    ASSUME EffectiveInv, UNCHANGED <<report, document, env>> PROVE EffectiveInv'
<1>1. report' = report /\ document' = document /\ env' = env
  OBVIOUS
<1>2. HasFile(document)' = HasFile(document)
  BY <1>1 DEF HasFile
<1>3. Project(document.text, RoutesText(document, report.routes), env)'
         = Project(document.text, RoutesText(document, report.routes), env)
  BY <1>1, <1>2 DEF RoutesText
<1> QED BY <1>1, <1>2, <1>3 DEF EffectiveInv

\* Without a report there is no view to speak of.
LEMMA EffectiveNone == ASSUME report' = NoReport PROVE EffectiveInv'
BY DEF EffectiveInv, NoReport

\* Nor with a report of another kind.
LEMMA EffectiveOther ==
    ASSUME NEW r, Say(r), r.by # "config --effective" \/ r.says # "view" PROVE EffectiveInv'
BY DEF EffectiveInv, Say

\* The command that prints a view has loaded both texts.
LEMMA EffectivePrints ==
    ASSUME cmd \in Commanding, DocumentOutcome(document, FALSE) = "ok", Effective PROVE EffectiveInv'
<1>1. CASE RoutesOutcome(document, cmd.routes, FALSE) # "ok"
  <2>1. Say(Failed) /\ Failed.says # "view"
    BY <1>1 DEF Effective, Failed
  <2> QED BY <2>1, EffectiveOther
<1>2. CASE RoutesOutcome(document, cmd.routes, FALSE) = "ok"
  <2>1. /\ report'.view = Project(document.text, RoutesText(document, cmd.routes), env)
        /\ report'.routes = cmd.routes
        /\ document' = document /\ env' = env
    <3>1. /\ report' = [by |-> cmd.name, says |-> "view", mtime |-> cmd.mtime,
                        routes |-> cmd.routes,
                        view |-> Project(document.text, RoutesText(document, cmd.routes), env)]
          /\ document' = document /\ env' = env
      BY <1>2, Zenon DEF Effective, Say
    <3> QED BY <3>1
  <2>2. HasFile(document) => cmd.routes # Missing
    BY <1>2 DEF RoutesOutcome
  <2>3. Readable(document.text, env, FALSE)
    BY DEF DocumentOutcome, Readable
  <2> QED BY <2>1, <2>2, <2>3 DEF EffectiveInv, HasFile, RoutesText
<1> QED BY <1>1, <1>2

(* Where `config --effective` runs, it has loaded the document.            *)
LoadedInv ==
    cmd.name \in Commands \ {"vars"} /\ cmd.step \in {"routes", "checked"} =>
        DocumentOutcome(document, AllowsUnset) = "ok"

\* A command keeps what it loaded while the document and environment stay.
LEMMA LoadedKept ==
    ASSUME LoadedInv, UNCHANGED <<document, env>>, cmd'.name = cmd.name,
           cmd'.step \in {"routes", "checked"} => cmd.step \in {"routes", "checked"}
    PROVE  LoadedInv'
<1>1. DocumentOutcome(document, AllowsUnset)' = DocumentOutcome(document, AllowsUnset)
  BY DEF DocumentOutcome, AllowsUnset, HasFile
<1> QED BY <1>1 DEF LoadedInv

\* It need not have loaded anything before or after.
LEMMA LoadedIdle == ASSUME cmd'.step \notin {"routes", "checked"} \/ cmd'.name \notin Commands \ {"vars"}
                    PROVE LoadedInv'
BY DEF LoadedInv

\* Every step keeps both.
LEMMA ReportStep ==
    PlacesInv /\ LoadedInv /\ EffectiveInv /\ [SNext]_allvars => (LoadedInv /\ EffectiveInv)'
<1> SUFFICES ASSUME PlacesInv, LoadedInv, EffectiveInv, [SNext]_allvars
             PROVE  LoadedInv' /\ EffectiveInv'
  BY Zenon
<1>1. CASE UNCHANGED <<document, env, cmd, report>>
  BY <1>1, LoadedKept, EffectiveKept
<1>2. ASSUME NEW name \in Commands \cup {"run"}, Begin(name) PROVE LoadedInv' /\ EffectiveInv'
  <2>1. cmd' = [Idle EXCEPT !.name = name, !.step = "document", !.mtime = file.mtime]
    BY <1>2 DEF Begin
  <2>2. file.mtime \in Nat
    BY <1>2, StartupConfig DEF Begin, PlacesInv
  <2>3. LoadedInv'
    BY <2>1, <2>2, FirstRecord, LoadedIdle
  <2>4. EffectiveInv'
    BY <1>2, EffectiveNone, EffectiveKept DEF Begin
  <2> QED BY <2>3, <2>4
<1>3. ASSUME NEW r, Say(r), r.by # "config --effective" \/ r.says # "view"
      PROVE  LoadedInv' /\ EffectiveInv'
  BY <1>3, EffectiveOther, IdleRecord, LoadedIdle DEF Say
<1>4. CASE ReadRoutes
  <2>1. cmd' = [cmd EXCEPT !.step = "checked", !.routes = file.content, !.mtime = file.mtime]
    BY <1>4 DEF ReadRoutes
  <2>2. phase # "serving" /\ cmd \in Commanding /\ cmd.step = "routes"
    BY <1>4, IdleRecord DEF ReadRoutes, PlacesInv
  <2>3. file.mtime \in Nat /\ file.content \in RouteFiles
    BY <2>2, StartupConfig DEF PlacesInv
  <2>4. cmd'.name = cmd.name
    BY <2>1, <2>2, <2>3, ReadRecord
  <2>5. UNCHANGED <<document, env, report>>
    BY <1>4 DEF ReadRoutes
  <2> QED BY <2>2, <2>4, <2>5, LoadedKept, EffectiveKept
<1>5. ASSUME NEW step \in Steps, NextStep(step),
             step \in {"routes", "checked"} /\ cmd.name \in Commands \ {"vars"} =>
                DocumentOutcome(document, AllowsUnset) = "ok"
      PROVE  LoadedInv' /\ EffectiveInv'
  <2>1. cmd'.name = cmd.name /\ cmd'.step = step /\ UNCHANGED <<document, env, report>>
    BY <1>5, StepRecord DEF NextStep, PlacesInv
  <2>2. DocumentOutcome(document, AllowsUnset)' = DocumentOutcome(document, AllowsUnset)
    BY <2>1 DEF DocumentOutcome, AllowsUnset, HasFile
  <2> QED BY <1>5, <2>1, <2>2, EffectiveKept DEF LoadedInv
<1>6. ASSUME NEW why \in Reasons, Refuse(why) PROVE LoadedInv' /\ EffectiveInv'
  <2>1. cmd'.step = "none" /\ UNCHANGED <<document, env, report>>
    BY <1>6, RefusedRecord DEF Refuse, PlacesInv
  <2> QED BY <2>1, LoadedIdle, EffectiveKept
<1>7. Failed.says = "error"
  BY DEF Failed
<1>i. \A complete, states : Inventoried(complete, states).by # "config --effective"
  BY DEF Inventoried
<1>8. CASE LoadDocument
  BY <1>3, <1>5, <1>7, <1>8 DEF LoadDocument, Steps
<1>9. CASE Validate
  <2> DEFINE valid == [by |-> cmd.name, mtime |-> cmd.mtime, reread |-> file.mtime,
                       says |-> IF AllowsUnset /\ PlaceheldInBoth(file.content) # {}
                                THEN "structurally valid" ELSE "valid",
                       unchecked |-> PlaceheldIn(cmd.routes)]
  <2>1. valid.by # "config --effective"
    BY <1>9 DEF Validate
  <2>2. Say(Failed) \/ Say(valid)
    BY <1>9, Zenon DEF Validate
  <2> HIDE DEF valid
  <2> QED BY <1>3, <1>7, <2>1, <2>2
<1>10. CASE VarsDocument
  <2>1. NextStep("routes") \/ Say(Failed)
           \/ \E complete, states : Say(Inventoried(complete, states))
    BY <1>10, Zenon DEF VarsDocument
  <2> QED BY <1>3, <1>5, <1>7, <1>10, <1>i, <2>1 DEF VarsDocument, Steps
<1>11. CASE VarsRoutes
  <2>1. Say(Failed) \/ \E complete, states : Say(Inventoried(complete, states))
    BY <1>11, Zenon DEF VarsRoutes
  <2> QED BY <1>3, <1>7, <1>i, <2>1
<1>12. CASE Effective
  <2>1. DocumentOutcome(document, FALSE) = "ok" /\ cmd \in Commanding
    BY <1>12 DEF Effective, LoadedInv, Commands, AllowsUnset, PlacesInv
  <2>2. cmd' = Idle
    BY <1>12 DEF Effective, Say
  <2> QED BY <1>12, <2>1, <2>2, EffectivePrints, IdleRecord, LoadedIdle
<1>13. CASE BootDocument \/ BootRoutes \/ BootWire
            \/ \E answer \in {"supports exact", "counts only", "unreachable"} : BootVerify(answer)
  <2>1. cmd.name = "run"
    BY <1>13 DEF PlacesInv, BootDocument, BootRoutes, BootWire, BootVerify
  <2>2. \/ \E why \in Reasons : Refuse(why)
        \/ \E step \in Steps : NextStep(step)
        \/ UNCHANGED <<document, env, cmd, report>>
    BY <1>13, ReasonsTyped DEF BootDocument, BootRoutes, BootWire, BootVerify, Steps, Reasons
  <2> QED BY <1>1, <1>5, <1>6, <2>1, <2>2 DEF Commands
<1>14. CASE StartReloader \/ Stop
  BY <1>14, IdleRecord, LoadedIdle, EffectiveNone DEF StartReloader, Stop
<1>15. CASE DevStart
  <2>1. cmd'.step = "none" /\ report' = NoReport
    BY <1>15, IdleRecord, EndedRecord DEF DevStart
  <2> QED BY <2>1, LoadedIdle, EffectiveNone
<1>16. CASE DevStep \/ \E d \in Edits : Edit(d)
  <2>1. CASE UNCHANGED allvars
    BY <1>1, <2>1 DEF allvars, svars
  <2>2. CASE ~UNCHANGED allvars
    <3>1. phase = "dev" /\ cmd' \in {cmd, [Idle EXCEPT !.why = "dev"]} /\ report' = report
      BY <1>16, <2>2 DEF DevStep, Edit, DevSpawn, ChildStarts, DevTick, DevLoad, Bail, Dev
    <3>2. cmd'.step = "none" /\ report' = NoReport
      BY <3>1, IdleRecord, EndedRecord DEF PlacesInv
    <3> QED BY <3>2, LoadedIdle, EffectiveNone
  <2> QED BY <2>1, <2>2
<1>17. CASE (\E content \in RouteFiles : WriteOffline(content)) \/ Serving \/ UNCHANGED allvars
  BY <1>1, <1>17 DEF WriteOffline, Serving, allvars, svars
<1> QED BY <1>2, <1>4, <1>8, <1>9, <1>10, <1>11, <1>12, <1>13, <1>14, <1>15, <1>16, <1>17
        DEF SNext, Command, Booting

\* A printed view is always that of the texts that were read.
LEMMA ReportInvariance == SSpec => [](LoadedInv /\ EffectiveInv)
<1>1. SInit => LoadedInv /\ EffectiveInv
  BY IdleRecord DEF SInit, LoadedInv, EffectiveInv, NoReport
<1> QED BY <1>1, ReportStep, StartInvariance, PTL DEF SSpec

(* `config --effective` prints nothing a variable decides: for every       *)
(* document, route file and environment, what it prints is what it would   *)
(* print in any other environment that loads them, or is redacted there.   *)
THEOREM EffectiveHides == SSpec => []EffectiveHidesEnv
<1>1. ASSUME report.by = "config --effective" PROVE report # NoReport
  <2>1. NoReport.by = "none"
    BY DEF NoReport
  <2> QED BY <1>1, <2>1
<1>2. ASSUME PlacesInv, EffectiveInv, report.by = "config --effective", report.says = "view",
             NEW other, Readable(document.text, other, FALSE)
      PROVE  LET view == Project(document.text, RoutesText(document, report.routes), other)
             IN  \A k \in DOMAIN view :
                    "redacted" \in {view[k], report.view[k]} \/ view[k] = report.view[k]
  <2>1. phase # "serving"
    BY <1>1, <1>2 DEF PlacesInv
  <2>2. document.text \in [DocumentSlots -> Scalar]
    BY <1>2, <2>1 DEF PlacesInv, Document
  <2>3. YamlReads(document.text, env) /\ YamlReads(document.text, other)
    BY <1>2 DEF EffectiveInv, Readable, Parses
  <2>4. report.view = Project(document.text, RoutesText(document, report.routes), env)
    BY <1>2 DEF EffectiveInv
  <2> QED BY <2>2, <2>3, <2>4, ProjectHides
<1>3. PlacesInv /\ EffectiveInv => EffectiveHidesEnv
  <2> SUFFICES ASSUME PlacesInv, EffectiveInv,
                      report.by = "config --effective", report.says = "view"
               PROVE  EffectiveHidesEnv
    BY DEF EffectiveHidesEnv
  <2>1. (IF report.routes = Missing \/ ~HasFile(document) THEN document.text ELSE report.routes)
           = RoutesText(document, report.routes)
    BY DEF EffectiveInv, RoutesText
  <2> QED BY <1>2, <2>1, Zenon DEF EffectiveHidesEnv
<1> QED BY <1>3, StartInvariance, ReportInvariance, PTL

-----------------------------------------------------------------------------
(***************************************************************************)
(* What the commands report.  A report and a start are about the same      *)
(* texts when they read the route file at the same mtime, because a write  *)
(* moves it: what was said of one content then holds of the other.         *)
(***************************************************************************)

\* A command or a start that holds a content of the route file.
HasRead == cmd.step \in {"checked", "verify", "wire"}

(* What a command holds of the route file is what the file held then.      *)
ReadInv ==
    /\ cmd.mtime \in Nat /\ file.mtime \in Nat /\ cmd.mtime <= file.mtime
    /\ HasRead /\ cmd.mtime = file.mtime => cmd.routes = file.content
    /\ phase # "refused" => cmd.why = "none"

\* `validate` has called the deployment valid.
SaysValid == report.by \in {"validate", "validate --allow-unset"} /\ report.says = "valid"

(* What `validate` called valid, without having been told of a change,     *)
(* meets everything a start asks of the two texts.                         *)
ValidInv ==
    SaysValid =>
        /\ report.mtime \in Nat /\ report.mtime <= file.mtime
        /\ report.unchecked = {} \/ report.reread # report.mtime
        /\ report.reread = report.mtime =>
              /\ DocumentOutcome(document, FALSE) = "ok" /\ MissingExtensions(document) = {}
              /\ file.mtime = report.mtime =>
                    RoutesOutcome(document, file.content, FALSE) = "ok"
              /\ HasRead /\ cmd.mtime = report.mtime =>
                    RoutesOutcome(document, cmd.routes, FALSE) = "ok"

(* `vars` looks for a route file, and finds one.                           *)
Looks == RouteSource(document.text, env) = "file" /\ RuntimeFile(document.text, env) # Nothing
Finds(content) == content # Missing /\ RuntimeFile(document.text, env) = "routes.yml"

(* What `vars` says of the document, and of a content of the route file.   *)
DescribesDocument ==
    /\ report.says \in {"error", "inventory"}
    /\ Malformed(document.text) => report.says = "error"
    /\ report.says = "inventory" => Inventory(document.text, env) \subseteq report.states

\* One content of the route file, read or not, as `vars` would report it.
Describes(content) ==
    IF Malformed(document.text) THEN report.says = "error"
    ELSE IF ~Looks
    THEN /\ report.says = "inventory"
         /\ report.complete = (RouteSource(document.text, env) = "inline")
         /\ report.states = Inventory(document.text, env)
    ELSE IF ~Finds(content)
    THEN /\ report.says = "inventory"
         /\ ~report.complete
         /\ report.states = Inventory(document.text, env)
    ELSE IF Malformed(content) THEN report.says = "error"
    ELSE /\ report.says = "inventory"
         /\ report.states = Inventory(document.text, env) \cup Inventory(content, env)

\* What `vars` said holds of the content it was said of.
VarsInv ==
    report.by = "vars" =>
        /\ report.mtime \in Nat /\ report.mtime <= file.mtime
        /\ DescribesDocument
        /\ file.mtime = report.mtime => Describes(file.content)
        /\ HasRead /\ cmd.mtime = report.mtime => Describes(cmd.routes)

(* Where `vars` has gone on to the route file, the document told it to.    *)
LooksInv ==
    cmd.name = "vars" /\ cmd.step \in {"routes", "checked"} =>
        ~Malformed(document.text) /\ Looks

(* A start that was refused was refused for what the report foretold.      *)
RefusedInv ==
    phase = "refused" /\ cmd.name = "run" /\ report.by # "none" =>
        /\ SaysValid /\ report.mtime = cmd.mtime /\ report.reread = report.mtime =>
              cmd.why \in {"upstreams", "store", "issuers"}
        /\ report.by = "vars" /\ report.mtime = cmd.mtime /\ cmd.why = "interpolate"
              /\ "file" \notin Added(document.text, env) =>
              \/ report.says = "error" \/ ~report.complete
              \/ report.states \cap {"required", "invalid"} # {}

\* Until a gateway serves, every report is about the texts it names.
HonestInv ==
    phase # "serving" => ReadInv /\ ValidInv /\ VarsInv /\ LooksInv /\ RefusedInv

\* An expansion without a fallback succeeds when the inventory is clean.
LEMMA CleanInventory ==
    ASSUME NEW text, NEW e
    PROVE  Expands(text, e, FALSE) <=>
              ~Malformed(text) /\ Inventory(text, e) \cap {"required", "invalid"} = {}
<1>1. ASSUME NEW s
      PROVE  VariableState(s, e) \in {"required", "invalid"} <=>
                Selected(s, e) = Nothing \/ ~IsStructurallySafe(Selected(s, e))
  BY DEF VariableState, Selected, IsStructurallySafe, Nothing
<1>2. Inventory(text, e) \cap {"required", "invalid"} = {} <=>
         \A k \in References(text) : VariableState(text[k], e) \notin {"required", "invalid"}
  BY DEF Inventory
<1> QED BY <1>1, <1>2 DEF Expands

\* It succeeds without a fallback when the fallback is not needed.
LEMMA NoPlaceholder ==
    ASSUME NEW text, NEW e
    PROVE  /\ Expands(text, e, FALSE) <=> Expands(text, e, TRUE) /\ Placeheld(text, e) = {}
           /\ Expands(text, e, FALSE) => ~Malformed(text)
BY DEF Expands, Placeheld

\* What `validate --allow-unset` accepts and finds no placeholder in, starts.
LEMMA StrictFromLenient ==
    ASSUME NEW content, NEW fallback \in BOOLEAN, DocumentOutcome(document, fallback) = "ok",
           RoutesOutcome(document, content, fallback) = "ok"
    PROVE  /\ PlaceheldIn(content) = {} =>
                 /\ DocumentOutcome(document, FALSE) = "ok"
                 /\ RoutesOutcome(document, content, FALSE) = "ok"
           /\ ~fallback => PlaceheldIn(content) = {}
<1>1. Expands(document.text, env, fallback) /\ Parses(document.text, env)
      /\ UpstreamParses(document.settings.upstream) /\ Resolves(document.settings, HasFile(document))
  BY DEF DocumentOutcome
<1>2. HasFile(document) => /\ Expanded(document.text, env, "file") = "routes.yml" /\ content # Missing
                           /\ Expands(content, env, fallback) /\ Parses(content, env)
  BY DEF RoutesOutcome
<1>3. ASSUME PlaceheldIn(content) = {}
      PROVE  /\ Expands(document.text, env, FALSE)
             /\ HasFile(document) => Expands(content, env, FALSE)
  <2>1. Placeheld(document.text, env) = {}
    BY <1>3 DEF PlaceheldIn
  <2>2. HasFile(document) /\ Expands(content, env, TRUE) => Placeheld(content, env) = {}
    BY <1>2, <1>3 DEF PlaceheldIn
  <2>3. CASE fallback = TRUE
    BY <1>1, <1>2, <2>1, <2>2, <2>3, NoPlaceholder
  <2>4. CASE fallback = FALSE
    BY <1>1, <1>2, <2>4
  <2> QED BY <2>3, <2>4
<1>4. ASSUME PlaceheldIn(content) = {}
      PROVE  DocumentOutcome(document, FALSE) = "ok" /\ RoutesOutcome(document, content, FALSE) = "ok"
  <2>1. DocumentOutcome(document, FALSE) = "ok"
    BY <1>1, <1>3, <1>4 DEF DocumentOutcome
  <2>2. RoutesOutcome(document, content, FALSE) = "ok"
    BY <1>2, <1>3, <1>4 DEF RoutesOutcome
  <2> QED BY <2>1, <2>2
<1>5. ASSUME ~fallback PROVE PlaceheldIn(content) = {}
  <2>1. fallback = FALSE
    BY <1>5
  <2>2. Placeheld(document.text, env) = {}
    BY <1>1, <2>1, NoPlaceholder
  <2>3. HasFile(document) => Placeheld(content, env) = {}
    BY <1>2, <2>1, NoPlaceholder
  <2> QED BY <2>2, <2>3 DEF PlaceheldIn
<1> QED BY <1>4, <1>5

\* Whatever a start reads, `vars` found: a document that loads and routes that
\* do not stand for a file `vars` looks for, or says that it could not.
LEMMA InventoryForetells ==
    ASSUME NEW content, DescribesDocument, Describes(content), DocumentOutcome(document, FALSE) = "ok"
    PROVE  /\ RoutesOutcome(document, content, FALSE) = "ok" =>
                 /\ report.says = "inventory"
                 /\ report.states \cap {"required", "invalid"} = {}
           /\ RoutesOutcome(document, content, FALSE) = "interpolate"
                 /\ "file" \notin Added(document.text, env) =>
                 \/ report.says = "error" \/ ~report.complete
                 \/ report.states \cap {"required", "invalid"} # {}
<1>1. Expands(document.text, env, FALSE) /\ Parses(document.text, env)
  BY DEF DocumentOutcome
<1>2. ~Malformed(document.text) /\ Inventory(document.text, env) \cap {"required", "invalid"} = {}
  BY <1>1, CleanInventory
<1>3. RuntimeFile(document.text, env) # Nothing =>
         /\ RuntimeFile(document.text, env) = Expanded(document.text, env, "file")
         /\ HasFile(document)
  BY DEF RuntimeFile, HasFile
<1>4. ASSUME RoutesOutcome(document, content, FALSE) = "ok"
      PROVE  report.says = "inventory" /\ report.states \cap {"required", "invalid"} = {}
  <2>1. CASE ~Looks \/ ~Finds(content)
    BY <1>2, <2>1 DEF Describes
  <2>2. CASE Looks /\ Finds(content)
    <3>1. HasFile(document)
      BY <1>3, <2>2 DEF Looks
    <3>2. Expands(content, env, FALSE)
      BY <1>4, <3>1 DEF RoutesOutcome
    <3>3. ~Malformed(content) /\ Inventory(content, env) \cap {"required", "invalid"} = {}
      BY <3>2, CleanInventory
    <3>4. report.says = "inventory"
          /\ report.states = Inventory(document.text, env) \cup Inventory(content, env)
      BY <1>2, <2>2, <3>3 DEF Describes
    <3> QED BY <1>2, <3>3, <3>4
  <2> QED BY <2>1, <2>2
<1>5. ASSUME RoutesOutcome(document, content, FALSE) = "interpolate",
             "file" \notin Added(document.text, env)
      PROVE  \/ report.says = "error" \/ ~report.complete
             \/ report.states \cap {"required", "invalid"} # {}
  <2> SUFFICES ASSUME report.says # "error", report.complete
               PROVE  report.states \cap {"required", "invalid"} # {}
    BY Zenon
  <2>1. HasFile(document) /\ Expanded(document.text, env, "file") = "routes.yml"
        /\ content # Missing /\ ~Expands(content, env, FALSE)
    BY <1>5 DEF RoutesOutcome
  <2>2. RouteSource(document.text, env) # "inline"
    <3>1. document.text["file"].form \notin {"absent", "comment"}
      BY <1>5, <2>1 DEF HasFile, Expanded, Nothing
    <3> QED BY <3>1 DEF RouteSource
  <2>3. Looks
    BY <1>2, <1>5, <2>2 DEF Describes
  <2>4. RuntimeFile(document.text, env) = "routes.yml"
    <3>1. Expands(document.text, env, TRUE)
      BY <1>1, NoPlaceholder
    <3>2. YamlReads(document.text, env)
      BY <1>1 DEF Parses
    <3> QED BY <2>1, <3>1, <3>2 DEF RuntimeFile
  <2>5. Finds(content)
    BY <2>1, <2>4 DEF Finds
  <2>6. ~Malformed(content)
        /\ report.states = Inventory(document.text, env) \cup Inventory(content, env)
    BY <1>2, <1>5, <2>3, <2>5 DEF Describes
  <2> QED BY <2>1, <2>6, CleanInventory
<1> QED BY <1>4, <1>5, Zenon

\* What was said of a content stands while the document and the report do.
LEMMA SameTexts ==
    ASSUME env' = env, document' = document, report' = report
    PROVE  /\ DocumentOutcome(document, FALSE)' = DocumentOutcome(document, FALSE)
           /\ MissingExtensions(document)' = MissingExtensions(document)
           /\ DescribesDocument' <=> DescribesDocument
           /\ Looks' <=> Looks
           /\ cmd'.routes = cmd.routes =>
                 /\ RoutesOutcome(document, cmd.routes, FALSE)' = RoutesOutcome(document, cmd.routes, FALSE)
                 /\ Describes(cmd.routes)' <=> Describes(cmd.routes)
           /\ file' = file =>
                 /\ RoutesOutcome(document, file.content, FALSE)' = RoutesOutcome(document, file.content, FALSE)
                 /\ Describes(file.content)' <=> Describes(file.content)
           /\ cmd'.routes = file.content =>
                 /\ RoutesOutcome(document, cmd.routes, FALSE)' = RoutesOutcome(document, file.content, FALSE)
                 /\ Describes(cmd.routes)' <=> Describes(file.content)
<1>1. HasFile(document)' <=> HasFile(document)
  BY DEF HasFile
<1>2. DocumentOutcome(document, FALSE)' = DocumentOutcome(document, FALSE)
  BY SameOutcome
<1>3. MissingExtensions(document)' = MissingExtensions(document)
  BY <1>1 DEF MissingExtensions
<1>4. (DescribesDocument' <=> DescribesDocument) /\ (Looks' <=> Looks)
  BY DEF DescribesDocument, Looks
<1>5. ASSUME cmd'.routes = cmd.routes
      PROVE  /\ RoutesOutcome(document, cmd.routes, FALSE)' = RoutesOutcome(document, cmd.routes, FALSE)
             /\ Describes(cmd.routes)' <=> Describes(cmd.routes)
  BY <1>1, <1>4, <1>5 DEF RoutesOutcome, Describes, Finds
<1>6. ASSUME file' = file
      PROVE  /\ RoutesOutcome(document, file.content, FALSE)' = RoutesOutcome(document, file.content, FALSE)
             /\ Describes(file.content)' <=> Describes(file.content)
  BY <1>1, <1>4, <1>6 DEF RoutesOutcome, Describes, Finds
<1>7. ASSUME cmd'.routes = file.content
      PROVE  /\ RoutesOutcome(document, cmd.routes, FALSE)' = RoutesOutcome(document, file.content, FALSE)
             /\ Describes(cmd.routes)' <=> Describes(file.content)
  BY <1>1, <1>4, <1>7 DEF RoutesOutcome, Describes, Finds
<1> QED BY <1>2, <1>3, <1>4, <1>5, <1>6, <1>7, Zenon

\* A step that reads nothing keeps what the commands know and said: it may move
\* on, or end, a command that has read the file.
LEMMA HonestKept ==
    ASSUME HonestInv, phase # "serving", phase' # "serving",
           UNCHANGED <<file, report, document, env>>,
           cmd'.routes = cmd.routes, cmd'.mtime = cmd.mtime, cmd'.name = cmd.name,
           HasRead' => HasRead,
           cmd'.name = "vars" => (cmd'.step \in {"routes", "checked"} =>
              ~Malformed(document.text) /\ Looks),
           phase' # "refused" => cmd'.why = "none",
           RefusedInv'
    PROVE  HonestInv'
<1>1. ReadInv'
  BY DEF HonestInv, ReadInv
<1>2. ValidInv'
  BY SameTexts DEF HonestInv, ValidInv, SaysValid
<1>3. VarsInv'
  BY SameTexts DEF HonestInv, VarsInv
<1>4. LooksInv'
  BY SameTexts DEF HonestInv, LooksInv
<1> QED BY <1>1, <1>2, <1>3, <1>4 DEF HonestInv

\* A write to the file makes its content one that nobody has read.
LEMMA HonestWrite ==
    ASSUME HonestInv, phase # "serving", UNCHANGED <<phase, cmd, report, document, env>>,
           file'.mtime = file.mtime + 1
    PROVE  HonestInv'
<1>1. ReadInv /\ ValidInv /\ VarsInv /\ LooksInv /\ RefusedInv
  BY DEF HonestInv
<1>2. ReadInv'
  BY <1>1 DEF ReadInv, HasRead
<1>3. HasRead' <=> HasRead
  BY DEF HasRead
<1>4. file.mtime \in Nat
  BY <1>1 DEF ReadInv
<1>5. ValidInv'
  <2> SUFFICES ASSUME SaysValid' PROVE ValidInv'
    BY DEF ValidInv
  <2>1. SaysValid /\ report' = report
    BY DEF SaysValid
  <2>2. report.mtime \in Nat /\ report.mtime <= file.mtime
    BY <1>1, <2>1 DEF ValidInv
  <2>3. report'.mtime \in Nat /\ report'.mtime <= file'.mtime /\ file'.mtime # report'.mtime
    BY <1>4, <2>1, <2>2
  <2> QED BY <1>1, <1>3, <2>1, <2>3, SameTexts DEF ValidInv
<1>6. VarsInv'
  BY <1>1, <1>3, <1>4, SameTexts DEF VarsInv
<1>7. LooksInv' /\ RefusedInv'
  BY <1>1, SameTexts DEF LooksInv, RefusedInv, SaysValid
<1> QED BY <1>2, <1>5, <1>6, <1>7 DEF HonestInv

\* Reading the file: what was said of its content holds of what was read.
LEMMA HonestRead ==
    ASSUME PlacesInv, HonestInv, ReadRoutes PROVE HonestInv'
<1>1. phase # "serving" /\ phase # "refused" /\ cmd \in Commanding /\ cmd.step = "routes"
  BY IdleRecord DEF ReadRoutes, PlacesInv
<1>2. ReadInv /\ ValidInv /\ VarsInv /\ LooksInv
  BY <1>1 DEF HonestInv
<1>3. file.mtime \in Nat /\ file.content \in RouteFiles
  BY <1>1, StartupConfig DEF PlacesInv
<1>4. cmd' = [cmd EXCEPT !.step = "checked", !.routes = file.content, !.mtime = file.mtime]
  BY DEF ReadRoutes
<1>5. /\ cmd'.name = cmd.name /\ cmd'.step = "checked"
      /\ cmd'.routes = file.content /\ cmd'.mtime = file.mtime /\ cmd'.why = cmd.why
  BY <1>1, <1>3, <1>4, ReadRecord
<1>6. UNCHANGED <<phase, document, env, report, file>>
  BY DEF ReadRoutes
<1>7. ReadInv'
  BY <1>1, <1>2, <1>3, <1>5, <1>6 DEF ReadInv
<1>8. ValidInv'
  BY <1>2, <1>5, <1>6, SameTexts DEF ValidInv, SaysValid
<1>9. VarsInv'
  BY <1>2, <1>5, <1>6, SameTexts DEF VarsInv
<1>10. LooksInv'
  BY <1>1, <1>2, <1>5, <1>6, SameTexts DEF LooksInv
<1>11. RefusedInv'
  BY <1>1, <1>6 DEF RefusedInv
<1> QED BY <1>7, <1>8, <1>9, <1>10, <1>11 DEF HonestInv

\* Where there is no report, nothing has been said.
LEMMA HonestSilent ==
    ASSUME \/ phase' = "serving"
           \/ /\ report' = NoReport
              /\ cmd'.mtime \in Nat /\ file'.mtime \in Nat /\ cmd'.mtime <= file'.mtime
              /\ cmd'.step \in {"none", "document"}
              /\ phase' # "refused" => cmd'.why = "none"
    PROVE  HonestInv'
<1>1. NoReport.by = "none"
  BY DEF NoReport
<1>2. CASE phase' # "serving"
  <2>1. ReadInv'
    BY <1>2 DEF ReadInv, HasRead
  <2>2. ValidInv' /\ VarsInv' /\ LooksInv' /\ RefusedInv'
    BY <1>1, <1>2 DEF ValidInv, SaysValid, VarsInv, LooksInv, RefusedInv
  <2> QED BY <2>1, <2>2 DEF HonestInv
<1> QED BY <1>2 DEF HonestInv

\* A command that begins has read nothing, and a start keeps the report.
LEMMA HonestBegin ==
    ASSUME PlacesInv, HonestInv, NEW name \in Commands \cup {"run"}, Begin(name) PROVE HonestInv'
<1>1. phase = "offline" /\ phase' \in {"offline", "starting"} /\ UNCHANGED <<document, env, file>>
  BY DEF Begin
<1>2. file.mtime \in Nat /\ ReadInv /\ ValidInv /\ VarsInv
  BY <1>1, StartupConfig DEF PlacesInv, HonestInv
<1>3. cmd' = [Idle EXCEPT !.name = name, !.step = "document", !.mtime = file.mtime]
  BY DEF Begin
<1>4. cmd'.step = "document" /\ cmd'.mtime = file.mtime /\ cmd'.why = "none"
  BY <1>2, <1>3, FirstRecord
<1>5. CASE report' = NoReport
  BY <1>1, <1>2, <1>4, <1>5, HonestSilent
<1>6. CASE report' = report
  <2>1. ReadInv' /\ LooksInv' /\ RefusedInv'
    BY <1>1, <1>2, <1>4 DEF ReadInv, HasRead, LooksInv, RefusedInv
  <2>2. ValidInv'
    BY <1>1, <1>2, <1>4, <1>6, SameTexts DEF ValidInv, SaysValid, HasRead
  <2>3. VarsInv'
    BY <1>1, <1>2, <1>4, <1>6, SameTexts DEF VarsInv, HasRead
  <2> QED BY <2>1, <2>2, <2>3 DEF HonestInv
<1> QED BY <1>5, <1>6 DEF Begin

\* A clock never read is not late.
LEMMA ZeroLeast == \A m, n : m = 0 /\ n \in Nat => m \in Nat /\ m <= n
OBVIOUS

\* A report is honest when it is about what the file still holds.
LEMMA HonestSay ==
    ASSUME PlacesInv, HonestInv, phase = "offline", NEW r, Say(r),
           r.by \in {"validate", "validate --allow-unset"} /\ r.says = "valid" =>
              /\ r.mtime \in Nat /\ r.mtime <= file.mtime
              /\ r.unchecked = {} \/ r.reread # r.mtime
              /\ r.reread = r.mtime =>
                    /\ DocumentOutcome(document, FALSE) = "ok" /\ MissingExtensions(document) = {}
                    /\ file.mtime = r.mtime => RoutesOutcome(document, file.content, FALSE) = "ok",
           r.by = "vars" =>
              /\ r.mtime \in Nat /\ r.mtime <= file.mtime
              /\ DescribesDocument'
              /\ file.mtime = r.mtime => Describes(file.content)'
    PROVE  HonestInv'
<1>1. cmd' = Idle /\ report' = r /\ phase' = "offline" /\ UNCHANGED <<document, env, file>>
  BY DEF Say
<1>2. file.mtime \in Nat
  BY Zenon DEF HonestInv, ReadInv
<1>3. ReadInv' /\ LooksInv' /\ RefusedInv' /\ ~HasRead'
  <2>1. file'.mtime \in Nat /\ cmd'.mtime = 0 /\ cmd'.step = "none" /\ cmd'.why = "none"
    BY <1>1, <1>2, IdleRecord
  <2>2. ~HasRead'
    BY <2>1, Zenon DEF HasRead
  <2>3. cmd'.mtime \in Nat /\ cmd'.mtime <= file'.mtime
    BY <2>1, ZeroLeast, Zenon
  <2> QED BY <1>1, <2>1, <2>2, <2>3 DEF ReadInv, LooksInv, RefusedInv
<1>4. /\ DocumentOutcome(document, FALSE)' = DocumentOutcome(document, FALSE)
      /\ MissingExtensions(document)' = MissingExtensions(document)
      /\ RoutesOutcome(document, file.content, FALSE)' = RoutesOutcome(document, file.content, FALSE)
  <2>1. HasFile(document)' <=> HasFile(document)
    BY <1>1 DEF HasFile
  <2> QED BY <1>1, <2>1, SameOutcome DEF MissingExtensions, RoutesOutcome
<1>5. ValidInv'
  BY <1>1, <1>3, <1>4 DEF ValidInv, SaysValid
<1>6. VarsInv'
  BY <1>1, <1>3 DEF VarsInv
<1> QED BY <1>3, <1>5, <1>6 DEF HonestInv

\* validate says "valid" of what a start would accept.
LEMMA HonestValidate == ASSUME PlacesInv, HonestInv, LoadedInv, Validate PROVE HonestInv'
<1>1. /\ phase = "offline" /\ cmd.step = "checked" /\ cmd.name \in Commands \ {"vars"}
      /\ cmd.name # "vars"
  BY IdleRecord DEF Validate, PlacesInv, Commands
<1>2. ReadInv /\ DocumentOutcome(document, AllowsUnset) = "ok" /\ AllowsUnset \in BOOLEAN
  BY <1>1 DEF HonestInv, LoadedInv, AllowsUnset
<1> DEFINE valid == [by |-> cmd.name, mtime |-> cmd.mtime, reread |-> file.mtime,
                     says |-> IF AllowsUnset /\ PlaceheldInBoth(file.content) # {}
                              THEN "structurally valid" ELSE "valid",
                     unchecked |-> PlaceheldIn(cmd.routes)]
<1>3. CASE Say(Failed)
  <2>1. Failed.says = "error" /\ Failed.by = cmd.name
    BY DEF Failed
  <2> HIDE DEF valid
  <2> QED BY <1>1, <1>3, <2>1, HonestSay
<1>4. CASE /\ RoutesOutcome(document, cmd.routes, AllowsUnset) = "ok"
           /\ MissingExtensions(document) = {} /\ Say(valid)
  <2>1. /\ valid.by = cmd.name /\ valid.mtime = cmd.mtime /\ valid.reread = file.mtime
        /\ valid.unchecked = PlaceheldIn(cmd.routes)
        /\ valid.says = "valid" => ~AllowsUnset \/ PlaceheldInBoth(file.content) = {}
    OBVIOUS
  <2> HIDE DEF valid
  <2>2. valid.mtime \in Nat /\ valid.mtime <= file.mtime
    BY <1>2, <2>1 DEF ReadInv
  <2>3. ASSUME valid.says = "valid", valid.reread = valid.mtime
        PROVE  /\ valid.unchecked = {}
               /\ DocumentOutcome(document, FALSE) = "ok"
               /\ RoutesOutcome(document, file.content, FALSE) = "ok"
    <3>1. cmd.routes = file.content
      BY <1>1, <1>2, <2>1, <2>3 DEF ReadInv, HasRead
    <3>2. PlaceheldIn(cmd.routes) = {}
      BY <1>2, <1>4, <2>1, <2>3, <3>1, StrictFromLenient DEF PlaceheldInBoth
    <3> QED BY <1>2, <1>4, <2>1, <3>1, <3>2, StrictFromLenient
  <2> QED BY <1>1, <1>4, <2>1, <2>2, <2>3, HonestSay
<1> QED BY <1>3, <1>4, Zenon DEF Validate

\* vars says what it found.
LEMMA HonestVars == ASSUME PlacesInv, HonestInv, VarsDocument \/ VarsRoutes PROVE HonestInv'
<1>1. phase = "offline" /\ cmd.name = "vars" /\ cmd.step \in {"document", "checked"}
  BY IdleRecord DEF VarsDocument, VarsRoutes, PlacesInv, Commands
<1>2. ReadInv /\ LooksInv
  BY <1>1 DEF HonestInv
<1>3. cmd.mtime \in Nat /\ cmd.mtime <= file.mtime
  BY <1>2 DEF ReadInv
<1>4. /\ Failed.by = "vars" /\ Failed.says = "error" /\ Failed.mtime = cmd.mtime
      /\ \A complete, states :
            LET r == Inventoried(complete, states) IN
            /\ r.by = "vars" /\ r.says = "inventory" /\ r.mtime = cmd.mtime
            /\ r.complete = complete /\ r.states = states
  BY <1>1 DEF Failed, Inventoried
<1>5. ASSUME NEW r, Say(r)
      PROVE  /\ report' = r /\ document' = document /\ env' = env /\ file' = file
             /\ Looks' <=> Looks
             /\ Finds(file.content)' <=> Finds(file.content)
  BY <1>5 DEF Say, Looks, Finds
<1>6. CASE VarsDocument
  <2>1. CASE Malformed(document.text)
    <3>1. Say(Failed)
      BY <1>6, <2>1, Zenon DEF VarsDocument
    <3>2. DescribesDocument' /\ Describes(file.content)'
      BY <1>4, <1>5, <2>1, <3>1 DEF DescribesDocument, Describes
    <3> QED BY <1>1, <1>3, <1>4, <3>1, <3>2, HonestSay
  <2>2. CASE ~Malformed(document.text) /\ Looks
    <3>1. NextStep("routes")
      BY <1>6, <2>2, Zenon DEF VarsDocument, Looks
    <3>2. /\ cmd'.name = cmd.name /\ cmd'.routes = cmd.routes /\ cmd'.mtime = cmd.mtime
          /\ cmd'.step = "routes" /\ cmd'.why = cmd.why /\ phase' = phase
          /\ UNCHANGED <<file, report, document, env>>
      BY <3>1, StepRecord DEF NextStep, Steps, PlacesInv
    <3> QED BY <1>1, <1>2, <2>2, <3>2, HonestKept DEF HasRead, ReadInv, RefusedInv
  <2>3. CASE ~Malformed(document.text) /\ ~Looks
    <3> DEFINE r == Inventoried(RouteSource(document.text, env) = "inline",
                                Inventory(document.text, env))
    <3>1. Say(r)
      BY <1>6, <2>3, Zenon DEF VarsDocument, Looks
    <3>2. /\ r.by = "vars" /\ r.says = "inventory" /\ r.mtime = cmd.mtime
          /\ r.complete = (RouteSource(document.text, env) = "inline")
          /\ r.states = Inventory(document.text, env)
      BY <1>4
    <3> HIDE DEF r
    <3>3. report' = r /\ document' = document /\ env' = env /\ ~Looks'
      BY <1>5, <2>3, <3>1
    <3>4. DescribesDocument' /\ Describes(file.content)'
      BY <2>3, <3>2, <3>3 DEF DescribesDocument, Describes
    <3> QED BY <1>1, <1>3, <3>1, <3>2, <3>4, HonestSay
  <2> QED BY <2>1, <2>2, <2>3
<1>7. CASE VarsRoutes
  <2>1. cmd.step = "checked" /\ ~Malformed(document.text) /\ Looks
    BY <1>1, <1>2, <1>7 DEF VarsRoutes, LooksInv
  <2>2. file.mtime = cmd.mtime => file.content = cmd.routes
    BY <1>2, <2>1 DEF ReadInv, HasRead
  <2>3. CASE Finds(cmd.routes) /\ Malformed(cmd.routes)
    <3>1. Say(Failed)
      BY <1>7, <2>3, Zenon DEF VarsRoutes, Finds
    <3>2. DescribesDocument' /\ (file.mtime = cmd.mtime => Describes(file.content)')
      BY <1>4, <1>5, <2>1, <2>2, <2>3, <3>1 DEF DescribesDocument, Describes
    <3> QED BY <1>1, <1>3, <1>4, <3>1, <3>2, HonestSay
  <2>4. CASE ~(Finds(cmd.routes) /\ Malformed(cmd.routes))
    <3> DEFINE found == cmd.routes # Missing /\ RuntimeFile(document.text, env) = "routes.yml"
               states == Inventory(document.text, env)
                            \cup (IF found THEN Inventory(cmd.routes, env) ELSE {})
               r == Inventoried(found, states)
    <3>1. Say(r)
      BY <1>7, <2>4, Zenon DEF VarsRoutes, Finds
    <3>2. r.by = "vars" /\ r.says = "inventory" /\ r.mtime = cmd.mtime
          /\ r.complete = found /\ r.states = states
      BY <1>4
    <3>3. (found <=> Finds(cmd.routes)) /\ Inventory(document.text, env) \subseteq states
      BY DEF Finds
    <3>4. /\ found => states = Inventory(document.text, env) \cup Inventory(cmd.routes, env)
          /\ ~found => states = Inventory(document.text, env)
      OBVIOUS
    <3> HIDE DEF r, found, states
    <3>5. report' = r /\ document' = document /\ env' = env /\ file' = file /\ Looks'
          /\ (Finds(file.content)' <=> Finds(file.content))
      BY <1>5, <2>1, <3>1
    <3>6. DescribesDocument'
      BY <2>1, <3>2, <3>3, <3>5 DEF DescribesDocument
    <3>7. ASSUME file.mtime = cmd.mtime PROVE Describes(file.content)'
      BY <2>1, <2>2, <2>4, <3>2, <3>3, <3>4, <3>5, <3>7 DEF Describes
    <3> QED BY <1>1, <1>3, <3>1, <3>2, <3>6, <3>7, HonestSay
  <2> QED BY <2>3, <2>4
<1> QED BY <1>6, <1>7

\* A start is refused for a reason the report leaves open.
LEMMA HonestRefuse ==
    ASSUME PlacesInv, HonestInv, phase = "starting", NEW why \in Reasons, Refuse(why),
           SaysValid /\ report.reread = report.mtime /\ report.mtime = cmd.mtime =>
              why \in {"upstreams", "store", "issuers"},
           report.by = "vars" /\ report.mtime = cmd.mtime /\ why = "interpolate"
              /\ "file" \notin Added(document.text, env) =>
              \/ report.says = "error" \/ ~report.complete
              \/ report.states \cap {"required", "invalid"} # {}
    PROVE  HonestInv'
<1>1. cmd' = [cmd EXCEPT !.step = "none", !.why = why] /\ phase' = "refused"
      /\ UNCHANGED <<file, report, document, env>>
  BY DEF Refuse
<1>2. /\ cmd'.routes = cmd.routes /\ cmd'.mtime = cmd.mtime /\ cmd'.name = cmd.name
      /\ cmd'.step = "none" /\ cmd'.why = why /\ cmd.name = "run"
  BY <1>1, RefusedRecord DEF PlacesInv
<1>3. RefusedInv'
  BY <1>1, <1>2, Zenon DEF RefusedInv, SaysValid
<1>4. ~HasRead'
  BY <1>2, Zenon DEF HasRead
<1> QED BY <1>1, <1>2, <1>3, <1>4, HonestKept, Zenon

\* A start goes on with what it holds.
LEMMA HonestNext ==
    ASSUME PlacesInv, HonestInv, phase = "starting", NEW step \in Steps, NextStep(step),
           step \in {"checked", "verify", "wire"} => HasRead
    PROVE  HonestInv'
<1>1. /\ cmd'.name = cmd.name /\ cmd'.routes = cmd.routes /\ cmd'.mtime = cmd.mtime
      /\ cmd'.step = step /\ cmd'.why = cmd.why /\ phase' = phase /\ cmd.name = "run"
      /\ UNCHANGED <<file, report, document, env>>
  BY StepRecord DEF NextStep, PlacesInv
<1>2. HasRead' => HasRead
  BY <1>1 DEF HasRead
<1>3. cmd.why = "none"
  BY DEF HonestInv, ReadInv
<1> QED BY <1>1, <1>2, <1>3, HonestKept DEF RefusedInv

\* Every step of a start keeps the reports honest.
LEMMA HonestBooting ==
    ASSUME PlacesInv, BootInv, HonestInv, Booting PROVE HonestInv'
<1>1. CASE BootDocument
  <2> DEFINE outcome == DocumentOutcome(document, FALSE)
  <2>1. phase = "starting" /\ cmd.step = "document"
    BY <1>1 DEF BootDocument
  <2>2. ValidInv /\ VarsInv /\ outcome \in Reasons
    BY <2>1, ReasonsTyped DEF HonestInv
  <2>3. CASE outcome # "ok" /\ Refuse(outcome)
    <3>1. SaysValid /\ report.reread = report.mtime => FALSE
      BY <2>2, <2>3 DEF ValidInv
    <3>2. outcome = "interpolate" => ~Expands(document.text, env, FALSE)
      BY DEF DocumentOutcome
    <3>3. report.by = "vars" /\ outcome = "interpolate" =>
             report.says = "error" \/ report.states \cap {"required", "invalid"} # {}
      BY <2>2, <3>2, CleanInventory DEF VarsInv, DescribesDocument
    <3> HIDE DEF outcome
    <3> QED BY <2>1, <2>2, <2>3, <3>1, <3>3, HonestRefuse, Zenon
  <2>4. CASE outcome = "ok" /\ Refuse("upstreams")
    BY <2>1, <2>4, HonestRefuse DEF Reasons
  <2>5. CASE NextStep("routes")
    BY <2>1, <2>5, HonestNext DEF Steps
  <2> QED BY <1>1, <2>3, <2>4, <2>5 DEF BootDocument
<1>2. CASE BootRoutes
  <2> DEFINE outcome == RoutesOutcome(document, cmd.routes, FALSE)
  <2>1. phase = "starting" /\ cmd.step = "checked" /\ HasRead
    BY <1>2 DEF BootRoutes, HasRead
  <2>2. ValidInv /\ VarsInv /\ outcome \in Reasons /\ DocumentOutcome(document, FALSE) = "ok"
    BY <2>1, ReasonsTyped DEF HonestInv, BootInv
  <2>3. CASE outcome # "ok" /\ Refuse(outcome)
    <3>1. SaysValid /\ report.reread = report.mtime /\ report.mtime = cmd.mtime => FALSE
      BY <2>1, <2>2, <2>3 DEF ValidInv
    <3>2. ASSUME report.by = "vars", report.mtime = cmd.mtime, outcome = "interpolate",
                 "file" \notin Added(document.text, env)
          PROVE  \/ report.says = "error" \/ ~report.complete
                 \/ report.states \cap {"required", "invalid"} # {}
      <4>1. DescribesDocument /\ Describes(cmd.routes)
        BY <2>1, <2>2, <3>2 DEF VarsInv
      <4> QED BY <2>2, <3>2, <4>1, InventoryForetells
    <3> HIDE DEF outcome
    <3> QED BY <2>1, <2>2, <2>3, <3>1, <3>2, HonestRefuse, Zenon
  <2>4. CASE NextStep("verify")
    BY <2>1, <2>4, HonestNext DEF Steps
  <2> QED BY <1>2, <2>3, <2>4 DEF BootRoutes
<1>3. ASSUME NEW answer \in {"supports exact", "counts only", "unreachable"}, BootVerify(answer)
      PROVE  HonestInv'
  <2>1. phase = "starting" /\ HasRead
    BY <1>3 DEF BootVerify, HasRead
  <2>2. CASE Refuse("store")
    BY <2>1, <2>2, HonestRefuse DEF Reasons
  <2>3. CASE NextStep("wire")
    BY <2>1, <2>3, HonestNext DEF Steps
  <2> QED BY <1>3, <2>2, <2>3 DEF BootVerify
<1>4. CASE BootWire
  <2>1. phase = "starting" /\ cmd.step = "wire" /\ ValidInv /\ ReadInv
    BY <1>4 DEF BootWire, HonestInv
  <2>2. CASE MissingExtensions(document) # {} /\ Refuse("extensions")
    <3>1. SaysValid /\ report.reread = report.mtime => FALSE
      BY <2>1, <2>2 DEF ValidInv
    <3> QED BY <2>1, <2>2, <3>1, HonestRefuse DEF Reasons
  <2>3. CASE Refuse("issuers")
    BY <2>1, <2>3, HonestRefuse DEF Reasons
  <2>4. CASE phase' = "up" /\ UNCHANGED <<document, edits, env, cmd, report, dev, file, gateway>>
    <3>1. RefusedInv' /\ (HasRead' => HasRead) /\ cmd'.name # "vars" /\ cmd'.why = "none"
      BY <2>1, <2>4 DEF RefusedInv, HasRead, PlacesInv, ReadInv
    <3> QED BY <2>1, <2>4, <3>1, HonestKept
  <2> QED BY <1>4, <2>2, <2>3, <2>4 DEF BootWire
<1>5. CASE StartReloader
  BY <1>5, HonestSilent DEF StartReloader
<1>6. CASE Stop
  <2>1. phase # "serving" /\ cmd' = Idle /\ report' = NoReport /\ file' = file
        /\ phase' = "offline"
    BY <1>6 DEF Stop
  <2>2. file.mtime \in Nat
    BY <2>1 DEF HonestInv, ReadInv
  <2> QED BY <2>1, <2>2, IdleRecord, HonestSilent
<1> QED BY <1>1, <1>2, <1>3, <1>4, <1>5, <1>6 DEF Booting

\* The supervisor runs without a report.
LEMMA HonestDev ==
    ASSUME PlacesInv, HonestInv, ~UNCHANGED allvars,
           DevStart \/ DevStep \/ \E d \in Edits : Edit(d)
    PROVE  HonestInv'
<1>1. /\ phase \in {"offline", "dev"} /\ file' = file
      /\ cmd' \in {Idle, [Idle EXCEPT !.why = "dev"]}
      /\ cmd' = [Idle EXCEPT !.why = "dev"] => phase' = "refused" \/ cmd' = Idle
      /\ report' = NoReport
  <2>1. CASE DevStart
    BY <2>1 DEF DevStart
  <2>2. CASE DevStep \/ \E d \in Edits : Edit(d)
    <3>1. /\ phase = "dev" /\ file' = file /\ report' = report
          /\ cmd' = cmd \/ (cmd' = [Idle EXCEPT !.why = "dev"] /\ phase' = "refused")
      BY <2>2 DEF DevStep, Edit, DevSpawn, ChildStarts, DevTick, DevLoad, Bail, Dev
    <3> QED BY <3>1, Zenon DEF PlacesInv
  <2> QED BY <2>1, <2>2
<1>2. file.mtime \in Nat
  BY <1>1 DEF HonestInv, ReadInv
<1>3. /\ cmd'.mtime = 0 /\ cmd'.step = "none"
      /\ phase' # "refused" => cmd'.why = "none"
  BY <1>1, IdleRecord, EndedRecord
<1> QED BY <1>1, <1>2, <1>3, HonestSilent

\* Every step keeps the reports honest.
LEMMA HonestStep ==
    PlacesInv /\ BootInv /\ LoadedInv /\ HonestInv /\ [SNext]_allvars => HonestInv'
<1> SUFFICES ASSUME PlacesInv, BootInv, LoadedInv, HonestInv, [SNext]_allvars
             PROVE  HonestInv'
  OBVIOUS
<1>1. CASE UNCHANGED allvars
  <2>1. UNCHANGED <<phase, file, cmd, report, document, env>>
    BY <1>1 DEF allvars, svars, vars
  <2>2. CASE phase = "serving"
    BY <2>1, <2>2 DEF HonestInv
  <2>3. CASE phase # "serving"
    <3>1. (HasRead' => HasRead) /\ (RefusedInv' <=> RefusedInv) /\ ReadInv /\ LooksInv /\ RefusedInv
      BY <2>1, <2>3, Zenon DEF HonestInv, HasRead, RefusedInv, SaysValid
    <3> QED BY <2>1, <2>3, <3>1, HonestKept DEF LooksInv, ReadInv
  <2> QED BY <2>2, <2>3
<1>2. ASSUME NEW name \in Commands \cup {"run"}, Begin(name) PROVE HonestInv'
  BY <1>2, HonestBegin
<1>3. CASE ReadRoutes
  BY <1>3, HonestRead
<1>4. CASE LoadDocument
  <2>1. phase = "offline" /\ cmd.name \in Commands \ {"vars"} /\ cmd.step = "document"
    BY <1>4, IdleRecord DEF LoadDocument, PlacesInv, Commands
  <2>2. CASE Say(Failed)
    <3>1. Failed.says = "error" /\ Failed.by = cmd.name /\ cmd.name # "vars"
      BY <2>1 DEF Failed
    <3> QED BY <2>1, <2>2, <3>1, HonestSay
  <2>3. CASE NextStep("routes")
    <3>1. /\ cmd'.name = cmd.name /\ cmd'.routes = cmd.routes /\ cmd'.mtime = cmd.mtime
          /\ cmd'.step = "routes" /\ cmd'.why = cmd.why /\ phase' = phase /\ cmd.name # "vars"
          /\ UNCHANGED <<file, report, document, env>>
      BY <2>1, <2>3, StepRecord DEF NextStep, Steps, PlacesInv
    <3>2. ~HasRead' /\ RefusedInv' /\ cmd.why = "none"
      BY <2>1, <3>1 DEF HasRead, RefusedInv, HonestInv, ReadInv
    <3> QED BY <2>1, <3>1, <3>2, HonestKept
  <2> QED BY <1>4, <2>2, <2>3 DEF LoadDocument
<1>5. CASE Validate
  BY <1>5, HonestValidate
<1>6. CASE VarsDocument \/ VarsRoutes
  BY <1>6, HonestVars
<1>7. CASE Effective
  <2>1. phase = "offline" /\ cmd.name = "config --effective"
    BY <1>7, IdleRecord DEF Effective, PlacesInv, Commands
  <2> DEFINE view == [by |-> cmd.name, says |-> "view", mtime |-> cmd.mtime, routes |-> cmd.routes,
                      view |-> Project(document.text, RoutesText(document, cmd.routes), env)]
  <2>2. Say(Failed) \/ Say(view)
    BY <1>7, Zenon DEF Effective
  <2>3. Failed.by = "config --effective" /\ view.by = "config --effective"
    BY <2>1 DEF Failed
  <2> HIDE DEF view
  <2> QED BY <2>1, <2>2, <2>3, HonestSay
<1>8. CASE Booting
  BY <1>8, HonestBooting
<1>9. ASSUME NEW content \in RouteFiles, WriteOffline(content) PROVE HonestInv'
  BY <1>9, HonestWrite DEF WriteOffline, svars
<1>10. CASE DevStart \/ DevStep \/ \E d \in Edits : Edit(d)
  BY <1>1, <1>10, HonestDev
<1>11. CASE Serving
  BY <1>11 DEF Serving, svars, HonestInv
<1> QED BY <1>1, <1>2, <1>3, <1>4, <1>5, <1>6, <1>7, <1>8, <1>9, <1>10, <1>11
        DEF SNext, Command

\* So they always are.
LEMMA HonestInvariance == SSpec => []HonestInv
<1>1. SInit => HonestInv
  <2> SUFFICES ASSUME SInit PROVE HonestInv
    OBVIOUS
  <2>1. file.mtime = 0 /\ cmd = Idle /\ report.by = "none" /\ phase = "offline"
    BY DEF SInit, NoReport
  <2>2. ReadInv
    BY <2>1, IdleRecord DEF ReadInv, HasRead
  <2> QED BY <2>1, <2>2, IdleRecord DEF HonestInv, ValidInv, SaysValid, VarsInv, LooksInv, RefusedInv
<1> QED BY <1>1, HonestStep, StartInvariance, ReportInvariance, PTL DEF SSpec

(* What `validate` and `vars` report about a deployment is what starting   *)
(* it shows, for every document, environment and route file and however    *)
(* the file is written in between: `validate` calls valid only what starts *)
(* or is refused for what only a start can see, it never passes over a     *)
(* placeholder, and a complete inventory is clean exactly when no variable *)
(* stops the start.                                                        *)
THEOREM ReportsAreHonest == SSpec => []ReportsHonest
<1>1. PlacesInv /\ BootInv /\ HonestInv => ReportsHonest
  <2> SUFFICES ASSUME PlacesInv, BootInv, HonestInv PROVE ReportsHonest
    OBVIOUS
  <2>1. CASE phase = "serving"
    <3>1. report.by = "none"
      BY <2>1 DEF PlacesInv, NoReport
    <3> QED BY <3>1 DEF ReportsHonest, ValidBoots, NeverSilentPass, InventoryExact
  <2>2. CASE phase # "serving"
    <3>1. ReadInv /\ ValidInv /\ VarsInv /\ RefusedInv
      BY <2>2 DEF HonestInv
    <3>2. ValidBoots
      BY <3>1 DEF ValidBoots, SameInputs, RefusedInv, SaysValid
    <3>3. NeverSilentPass
      BY <3>1 DEF NeverSilentPass, ValidInv, SaysValid
    <3>4. ASSUME report.by = "vars", SameInputs, phase = "up"
          PROVE  report.says = "inventory" /\ report.states \cap {"required", "invalid"} = {}
      <4>1. HasRead /\ report.mtime = cmd.mtime
        BY <3>4 DEF PlacesInv, HasRead, SameInputs
      <4>2. DescribesDocument /\ Describes(cmd.routes)
        BY <3>1, <3>4, <4>1 DEF VarsInv
      <4>3. DocumentOutcome(document, FALSE) = "ok" /\ RoutesOutcome(document, cmd.routes, FALSE) = "ok"
        BY <3>4 DEF BootInv
      <4> QED BY <4>2, <4>3, InventoryForetells
    <3>5. ASSUME report.by = "vars", SameInputs, cmd.why = "interpolate",
                 "file" \notin Added(document.text, env)
          PROVE  \/ report.says = "error" \/ ~report.complete
                 \/ report.states \cap {"required", "invalid"} # {}
      <4>1. phase = "refused" /\ cmd.name = "run" /\ report.mtime = cmd.mtime
        BY <3>1, <3>5 DEF SameInputs, ReadInv
      <4> QED BY <3>1, <3>5, <4>1, Zenon DEF RefusedInv
    <3>6. InventoryExact
      BY <3>4, <3>5, Zenon DEF InventoryExact
    <3> QED BY <3>2, <3>3, <3>6 DEF ReportsHonest
  <2> QED BY <2>1, <2>2
<1> QED BY <1>1, StartInvariance, HonestInvariance, PTL

=============================================================================
