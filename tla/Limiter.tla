------------------------------ MODULE Limiter ------------------------------
(***************************************************************************)
(* A rate limiter and where its counts live (ratelimit/mod.rs, Counters):  *)
(* in one exact window per key, in a sketch, or in counters shared with    *)
(* the other replicas.  The counter is fixed when the limiter is built, so *)
(* a behaviour is one of RateWindow or one of SharedCounters.              *)
(***************************************************************************)
EXTENDS RateWindow

CONSTANTS Replicas, SharedKeys, SharedLimit, Batch, Progress, MaxBucket,
          MaxIncarnations, Budgets  \* those of SharedCounters

ASSUME SharedConfig ==
    /\ IsFiniteSet(Replicas) /\ IsFiniteSet(SharedKeys)
    /\ SharedLimit \in Nat \ {0} /\ Batch \in Nat \ {0}
    /\ Progress \in Nat \ {0} /\ MaxBucket \in Nat \ {0}
    /\ MaxIncarnations \in Nat \ {0}
    /\ Budgets \subseteq [skew: Nat, evictions: Nat, failures: Nat]

VARIABLES bucketNow, shard, made, live, pass, batch, answer, late, fields,
          budget, counted  \* those of SharedCounters

sharedVars == <<bucketNow, shard, made, live, pass, batch, answer, late,
                fields, budget, counted>>

Shared == INSTANCE SharedCounters
    WITH Limit <- SharedLimit, Keys <- SharedKeys, clock <- bucketNow, admitted <- counted

LimiterTypeOK == LocalTypeOK /\ Shared!TypeOK

LimiterInit ==
    /\ LocalInit /\ Shared!Init
    /\ counter # "shared" => budget = CHOOSE x \in Budgets : TRUE

(* Limiter::check_at hands the request to its counters. *)
LimiterNext ==
    \/ LocalNext /\ UNCHANGED sharedVars
    \/ counter = "shared" /\ Shared!Next /\ UNCHANGED localVars

(* The task that reconciles shared counters runs in every configuration. *)
LimiterSpec ==
    /\ LimiterInit /\ [][LimiterNext]_<<localVars, sharedVars>>
    /\ counter = "shared" => Shared!Fairness

-----------------------------------------------------------------------------

(* Every count a shared limiter decides by is backed by requests that were *)
(* admitted in its window: its own exactly, the others' never beyond.      *)
CountsBacked == Shared!OwnExact /\ Shared!NoPhantomUsage

(* Every replica comes to know what the others admitted. *)
Converges == counter = "shared" => Shared!Converges

=============================================================================
