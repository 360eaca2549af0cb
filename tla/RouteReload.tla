---------------------------- MODULE RouteReload ----------------------------
(***************************************************************************)
(* Reloading the route file under traffic: the RouteReloader task of       *)
(* runtime.rs (poll mtime, load, validate, publish) and SharedRoutes of    *)
(* routes/mod.rs, which swaps the tables of the public and the internal    *)
(* listener and lets an unchanged route keep its rate limiter.             *)
(*                                                                         *)
(* The file is written while the task runs, between any two of its awaits. *)
(* A request works on the table it loaded when it came in.  A version is   *)
(* what the file may hold; of its routes one rate-limited public route is  *)
(* followed, by everything `store` compares (its policy).  Time stands     *)
(* still inside one rate-limit window, so a limiter is a counter.          *)
(***************************************************************************)
EXTENDS Integers, Sequences

CONSTANTS
    Versions,   \* contents that parse and validate
    Policy,     \* the followed route's policy in a version
    Broken,     \* content that does not parse or is refused by validation
    Missing,    \* no file
    Boot,       \* the version loaded before the task starts
    Requests,   \* request tasks
    Limit,      \* the route's quota
    MaxWrites,  \* bound: changes to the file
    MaxOutages, \* bound: reloads refused because the store cannot be probed
    None

ASSUME ReloadConfig ==
    /\ Boot \in Versions
    /\ Broken \notin Versions /\ Missing \notin Versions \cup {Broken}
    /\ Limit \in Nat \ {0} /\ MaxWrites \in Nat /\ MaxOutages \in Nat
    /\ None \notin Nat \cup Versions

VARIABLES
    file,      \* what the path holds now, with its mtime
    last,      \* RouteReloader::start's `last`
    current,   \* its `current`, while a tick is handled
    loaded,    \* the table provider.load() returned
    pc,        \* where the task is
    public,    \* the public listener's table
    machine,   \* the internal listener's table: its version
    limiters,  \* every limiter built: requests counted
    snap,      \* the table a request holds
    outages,   \* failed probes so far
    spent      \* history: admissions in each era, an unbroken stretch of
               \* published tables that agree on the route's policy

vars == <<file, last, current, loaded, pc, public, machine, limiters, snap,
          outages, spent>>

Contents == Versions \cup {Broken, Missing}
Times == 0..MaxWrites
Table == [version: Versions, limiter: Nat \ {0}, era: Nat \ {0}]

TypeOK ==
    /\ file \in [content: Contents, mtime: Times]
    /\ last \in {None} \cup Times
    /\ current \in {None} \cup Times
    /\ loaded \in {None} \cup Versions
    /\ pc \in {"idle", "load", "verify", "public", "machine", "done"}
    /\ public \in Table
    /\ public.limiter \in DOMAIN limiters
    /\ machine \in Versions
    /\ limiters \in Seq(Nat)
    /\ snap \in [Requests -> {None} \cup Table]
    /\ outages \in 0..MaxOutages
    /\ spent \in Seq(Nat)

(* Runtime::run has loaded, validated and published the boot version; the  *)
(* file may have changed since.                                            *)
Init ==
    /\ file \in [content: Contents, mtime: Times]
    /\ last = None
    /\ current = None
    /\ loaded = None
    /\ pc = "idle"
    /\ public = [version |-> Boot, limiter |-> 1, era |-> 1]
    /\ machine = Boot
    /\ limiters = <<0>>
    /\ snap = [q \in Requests |-> None]
    /\ outages = 0
    /\ spent = <<0>>

-----------------------------------------------------------------------------
(* The file, written in place or replaced; every change moves its mtime.   *)

Write(content) ==
    /\ file.mtime < MaxWrites
    /\ content # file.content
    /\ file' = [content |-> content, mtime |-> file.mtime + 1]
    /\ UNCHANGED <<last, current, loaded, pc, public, machine, limiters, snap,
                   outages, spent>>

-----------------------------------------------------------------------------
(* RouteReloader::start, one step per await.                               *)

Mtime == IF file.content = Missing THEN None ELSE file.mtime

(* A tick: an unchanged mtime ends it. *)
Stat ==
    /\ pc = "idle"
    /\ Mtime # last
    /\ current' = Mtime
    /\ pc' = "load"
    /\ UNCHANGED <<file, last, loaded, public, machine, limiters, snap,
                   outages, spent>>

(* provider.load(), then validate_table and the registry check: a failure  *)
(* of either leaves `last` alone.                                          *)
Load ==
    /\ pc = "load"
    /\ IF file.content \in Versions
       THEN /\ loaded' = file.content
            /\ pc' = "verify"
            /\ UNCHANGED current
       ELSE /\ pc' = "idle"
            /\ current' = None
            /\ UNCHANGED loaded
    /\ UNCHANGED <<file, last, public, machine, limiters, snap, outages, spent>>

(* verify_shared_counters: the table is published or, when the counter     *)
(* store cannot be probed, given up until the next tick.                   *)
Verify ==
    /\ pc = "verify"
    /\ pc' = "public"
    /\ UNCHANGED <<file, last, current, loaded, public, machine, limiters,
                   snap, outages, spent>>

VerifyFails ==
    /\ pc = "verify"
    /\ outages < MaxOutages
    /\ outages' = outages + 1
    /\ pc' = "idle"
    /\ loaded' = None
    /\ current' = None
    /\ UNCHANGED <<file, last, public, machine, limiters, snap, spent>>

Unchanged(version) == Policy[version] = Policy[public.version]

(* A plausible bug: every reload starts with the limiters it built. *)
KeptLimiterNever(version) == Len(limiters) + 1

(* SharedRoutes::store: the old limiter when nothing about the route       *)
(* changed, the new table's own otherwise.                                 *)
KeptLimiter(version) ==
    IF Unchanged(version) THEN public.limiter ELSE Len(limiters) + 1

(* publish_reload, first half: the public table.  Building the table made  *)
(* a limiter for its route.                                                *)
PublishPublic ==
    /\ pc = "public"
    /\ public' = [version |-> loaded,
                  limiter |-> KeptLimiter(loaded),
                  era |-> IF Unchanged(loaded) THEN public.era
                                               ELSE Len(spent) + 1]
    /\ limiters' = IF KeptLimiter(loaded) = public.limiter THEN limiters
                                                 ELSE Append(limiters, 0)
    /\ spent' = IF Unchanged(loaded) THEN spent ELSE Append(spent, 0)
    /\ pc' = "machine"
    /\ UNCHANGED <<file, last, current, loaded, machine, snap, outages>>

(* publish_reload, second half: the internal table. *)
PublishMachine ==
    /\ pc = "machine"
    /\ machine' = loaded
    /\ pc' = "done"
    /\ UNCHANGED <<file, last, current, loaded, public, limiters, snap,
                   outages, spent>>

(* A plausible bug: the mtime is read again once the table is published. *)
AdvanceRestat ==
    /\ pc = "done"
    /\ last' = Mtime
    /\ current' = None
    /\ loaded' = None
    /\ pc' = "idle"
    /\ UNCHANGED <<file, public, machine, limiters, snap, outages, spent>>

(* `last` advances, to the mtime from before the load. *)
Advance ==
    /\ pc = "done"
    /\ last' = current
    /\ current' = None
    /\ loaded' = None
    /\ pc' = "idle"
    /\ UNCHANGED <<file, public, machine, limiters, snap, outages, spent>>

Reloader == Stat \/ Load \/ Verify \/ VerifyFails \/ PublishPublic
                \/ PublishMachine \/ Advance

-----------------------------------------------------------------------------
(* Requests on the public listener.                                        *)

(* request_filter takes the table. *)
Snapshot(q) ==
    /\ snap[q] = None
    /\ snap' = [snap EXCEPT ![q] = public]
    /\ UNCHANGED <<file, last, current, loaded, pc, public, machine, limiters,
                   outages, spent>>

(* check_rate_limit counts with the limiter of that table. *)
Count(q) ==
    /\ snap[q] # None
    /\ LET limiter == snap[q].limiter
           allowed == limiters[limiter] < Limit
       IN  /\ limiters' = IF allowed THEN [limiters EXCEPT ![limiter] = @ + 1]
                                     ELSE limiters
           /\ spent' = IF allowed THEN [spent EXCEPT ![snap[q].era] = @ + 1]
                                  ELSE spent
    /\ snap' = [snap EXCEPT ![q] = None]
    /\ UNCHANGED <<file, last, current, loaded, pc, public, machine, outages>>

Next ==
    \/ \E content \in Contents : Write(content)
    \/ Reloader
    \/ \E q \in Requests : Snapshot(q) \/ Count(q)

Spec == Init /\ [][Next]_vars

(* The task ticks forever and its awaits end. *)
FairSpec == Spec /\ WF_vars(Reloader)

-----------------------------------------------------------------------------

(* A reload that leaves a route alone does not hand out a second quota,    *)
(* neither to requests that still hold an older table nor to new ones.     *)
QuotaAcrossReloads == \A era \in DOMAIN spent : spent[era] <= Limit

=============================================================================
