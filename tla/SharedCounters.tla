--------------------------- MODULE SharedCounters ---------------------------
(***************************************************************************)
(* Cluster-wide rate limits, approximate mode (ratelimit/shared.rs with    *)
(* the store of ratelimit/resp.rs): replicas decide requests from local    *)
(* counters and publish those counters in the background, reading back     *)
(* what the others published.                                              *)
(*                                                                         *)
(* A round trip can time out before or after the store executed it, and a  *)
(* command given up on may still be executed later, also after a younger   *)
(* one when the connection was replaced in between.  Wall clocks differ,   *)
(* and keys are evicted from the local store while their shard is still    *)
(* held by the running pass or by a request.  How much of each happens in  *)
(* a behaviour is its budget, picked at the start.                         *)
(***************************************************************************)
EXTENDS RateDecision, Sequences, FiniteSets, FiniteSetsExt, SequencesExt

CONSTANTS
    Replicas,         \* gateway processes
    Keys,             \* limiter keys
    Limit,            \* cfg.requests
    Batch,            \* shared.max_keys_per_sync
    Progress,         \* a window's position is 0..Progress-1 of Progress
    MaxBucket,        \* bound: the last window
    MaxIncarnations,  \* bound: shards a replica makes for one key
    Budgets           \* bound: the budgets a behaviour may start with

Buckets == 0..MaxBucket

(* A shard's uuid: the n-th shard a replica made for a key. *)
Sources == Replicas \X Keys \X (1..MaxIncarnations)
Key(s) == s[2]

Shard == [bucket: Buckets, own_current: Nat, own_previous: Nat,
          remote_current: Nat, remote_previous: Nat]

Publish == [source: Sources, bucket: Buckets, own_current: Nat,
            own_previous: Nat]

Totals == [current: Nat, previous: Nat]

VARIABLES
    clock,     \* the bucket of true time
    shard,     \* every shard made, by source
    made,      \* how many shards a replica has made for a key
    live,      \* the one in the local store, 0 if none
    pass,      \* SharedCounters.pass: the sources still to visit
    batch,     \* the publishes awaiting an answer, <<>> when no sync runs
    answer,    \* the totals the store answered with, <<>> until it did
    late,      \* batches given up on, which may still reach the store
    fields,    \* the store: field of a source in the hash of its key's bucket
    budget,    \* bound: the skew of the clocks; evictions, failures to come
    admitted   \* history: requests each source admitted into each bucket

vars == <<clock, shard, made, live, pass, batch, answer, late, fields,
          budget, admitted>>

NewShard == [bucket |-> 0, own_current |-> 0, own_previous |-> 0,
             remote_current |-> 0, remote_previous |-> 0]

\* The shape of the state.
TypeOK ==
    /\ clock \in Buckets
    /\ shard \in [Sources -> Shard]
    /\ made \in [Replicas \X Keys -> 0..MaxIncarnations]
    /\ live \in [Replicas \X Keys -> 0..MaxIncarnations]
    /\ pass \in [Replicas -> Seq(Sources)]
    /\ batch \in [Replicas -> Seq(Publish)]
    /\ answer \in [Replicas -> Seq(Totals)]
    /\ late \subseteq Seq(Publish)
    /\ fields \in [Buckets -> [Sources -> Nat]]
    /\ budget \in [skew: Nat, evictions: Nat, failures: Nat]
    /\ admitted \in [Buckets -> [Sources -> Nat]]

Init ==
    /\ clock = 1
    /\ shard = [s \in Sources |-> NewShard]
    /\ made = [rk \in Replicas \X Keys |-> 0]
    /\ live = [rk \in Replicas \X Keys |-> 0]
    /\ pass = [r \in Replicas |-> <<>>]
    /\ batch = [r \in Replicas |-> <<>>]
    /\ answer = [r \in Replicas |-> <<>>]
    /\ late = {}
    /\ fields = [b \in Buckets |-> [s \in Sources |-> 0]]
    /\ budget \in Budgets
    /\ admitted = [b \in Buckets |-> [s \in Sources |-> 0]]

-----------------------------------------------------------------------------
(* The bookkeeping of one shard.                                           *)

SaturatingSub(a, b) == IF a > b THEN a - b ELSE 0

(* Shard::roll_to. *)
RollTo(sh, bucket) ==
    IF bucket <= sh.bucket THEN sh
    ELSE IF bucket = sh.bucket + 1
    THEN [bucket |-> bucket,
          own_current |-> 0, own_previous |-> sh.own_current,
          remote_current |-> 0, remote_previous |-> sh.remote_current]
    ELSE [NewShard EXCEPT !.bucket = bucket]

(* A plausible bug: an answer is applied whatever window it is about. *)
AppliedAnyBucket(sh, publish, total) ==
    [sh EXCEPT
        !.remote_current = SaturatingSub(total.current, publish.own_current),
        !.remote_previous = SaturatingSub(total.previous, publish.own_previous)]

(* SharedCounters::apply for one publish, its shard and its totals. *)
Applied(sh, publish, total) ==
    IF sh.bucket = publish.bucket + 1
    THEN [sh EXCEPT !.remote_previous =
             SaturatingSub(total.current, publish.own_current)]
    ELSE IF sh.bucket # publish.bucket THEN sh
    ELSE [sh EXCEPT
        !.remote_current = SaturatingSub(total.current, publish.own_current),
        !.remote_previous = SaturatingSub(total.previous, publish.own_previous)]

-----------------------------------------------------------------------------
(* Requests.                                                               *)

(* The bucket of `position` at a replica: its clock may lag or step back.  *)
Readings == {b \in Buckets : b <= clock /\ b >= clock - budget.skew}

(* SharedCounters::check_at on a shard, at `progress` through `bucket`. *)
Decide(s, sh, bucket, progress) ==
    LET now == RollTo(sh, bucket)
        refused == Refuses(now.own_previous + now.remote_previous,
                           now.own_current + now.remote_current,
                           progress, Progress, Limit)
    IN  IF refused
        THEN /\ shard' = [shard EXCEPT ![s] = now]
             /\ UNCHANGED admitted
        ELSE /\ shard' = [shard EXCEPT ![s] =
                             [now EXCEPT !.own_current = @ + 1]]
             /\ admitted' = [admitted EXCEPT ![now.bucket][s] = @ + 1]

(* A request for a key with a shard: the one in the store, or an evicted   *)
(* one the request looked up before.                                       *)
Check(r, k) ==
    /\ \E n \in 1..made[<<r, k>>], b \in Readings, p \in 0..(Progress - 1) :
           Decide(<<r, k, n>>, shard[<<r, k, n>>], b, p)
    /\ UNCHANGED <<clock, made, live, pass, batch, answer, late, fields,
                   budget>>

(* A request for a key the store does not hold: get_with_by_ref makes a    *)
(* shard with a source of its own.                                         *)
CheckNew(r, k) ==
    /\ live[<<r, k>>] = 0
    /\ made[<<r, k>>] < MaxIncarnations
    /\ LET n == made[<<r, k>>] + 1
           s == <<r, k, n>>
       IN  /\ \E b \in Readings, p \in 0..(Progress - 1) :
                  Decide(s, NewShard, b, p)
           /\ made' = [made EXCEPT ![<<r, k>>] = n]
           /\ live' = [live EXCEPT ![<<r, k>>] = n]
    /\ UNCHANGED <<clock, pass, batch, answer, late, fields, budget>>

(* The local store drops a key, for want of room or after two idle windows. *)
Evict(r, k) ==
    /\ live[<<r, k>>] # 0
    /\ made[<<r, k>>] < MaxIncarnations
    /\ budget.evictions > 0
    /\ budget' = [budget EXCEPT !.evictions = @ - 1]
    /\ live' = [live EXCEPT ![<<r, k>>] = 0]
    /\ UNCHANGED <<clock, shard, made, pass, batch, answer, late, fields,
                   admitted>>

-----------------------------------------------------------------------------
(* Reconciliation, one at a time per replica (sync_lock).                  *)

LiveSources(r) ==
    {<<r, k, live[<<r, k>>]>> : k \in {k \in Keys : live[<<r, k>>] # 0}}

(* The pass a tick takes its batch from: the rest of the last one, or the  *)
(* whole store in the order its iterator happens to yield.                 *)
Refill(r) ==
    IF pass[r] # <<>> THEN {pass[r]} ELSE SetToSeqs(LiveSources(r))

PublishOf(s, sh) ==
    [source |-> s, bucket |-> sh.bucket, own_current |-> sh.own_current,
     own_previous |-> sh.own_previous]

(* SharedCounters::pending: the last Batch entries of the pass, rolled to  *)
(* the bucket of the clock and snapshotted.                                *)
SyncStart(r) ==
    /\ batch[r] = <<>>
    /\ \E full \in Refill(r), b \in Readings :
         LET keep == SaturatingSub(Len(full), Batch)
             entries == SubSeq(full, keep + 1, Len(full))
             rolled == [s \in Sources |-> IF s \in ToSet(entries)
                                          THEN RollTo(shard[s], b)
                                          ELSE shard[s]]
         IN  /\ entries # <<>>
             /\ pass' = [pass EXCEPT ![r] = SubSeq(full, 1, keep)]
             /\ shard' = rolled
             /\ batch' = [batch EXCEPT ![r] =
                   [i \in DOMAIN entries |->
                        PublishOf(entries[i], rolled[entries[i]])]]
    /\ UNCHANGED <<clock, made, live, answer, late, fields, budget, admitted>>

(* A plausible bug: only the current window is published. *)
WrittenCurrent(publishes) ==
    [b \in Buckets |-> [s \in Sources |->
        LET same == {i \in DOMAIN publishes : publishes[i].source = s}
            pub == publishes[CHOOSE i \in same : TRUE]
        IN  IF same # {} /\ b = pub.bucket /\ pub.own_current # 0
            THEN pub.own_current ELSE fields[b][s]]]

(* The HSETs of RespBackend::reconcile: a replica's whole count under its  *)
(* source, for the bucket and the one before, zeros left out.              *)
Written(publishes) ==
    [b \in Buckets |-> [s \in Sources |->
        LET same == {i \in DOMAIN publishes : publishes[i].source = s}
            pub == publishes[CHOOSE i \in same : TRUE]
        IN  IF same = {} THEN fields[b][s]
            ELSE IF b = pub.bucket /\ pub.own_current # 0
            THEN pub.own_current
            ELSE IF b = pub.bucket - 1 /\ pub.own_previous # 0
            THEN pub.own_previous
            ELSE fields[b][s]]]

(* HVALS of one bucket's hash, summed. *)
SumOf(fs, bucket, k) ==
    MapThenSumSet(LAMBDA s : fs[bucket][s], {s \in Sources : Key(s) = k})

(* The answers of RespBackend::reconcile; bucket 0 has no previous one. *)
TotalsOf(fs, publishes) ==
    [i \in DOMAIN publishes |->
        LET pub == publishes[i] IN
        [current |-> SumOf(fs, pub.bucket, Key(pub.source)),
         previous |-> IF pub.bucket = 0 THEN 0
                      ELSE SumOf(fs, pub.bucket - 1, Key(pub.source))]]

(* The store executes the pipeline.  Its keys are independent hashes, so   *)
(* executing all of it at once loses no outcome.                           *)
Execute(r) ==
    /\ batch[r] # <<>>
    /\ answer[r] = <<>>
    /\ fields' = Written(batch[r])
    /\ answer' = [answer EXCEPT ![r] = TotalsOf(fields', batch[r])]
    /\ UNCHANGED <<clock, shard, made, live, pass, batch, late, budget,
                   admitted>>

(* sync_once, the answer in time: apply, then the lock is released. *)
SyncApply(r) ==
    /\ answer[r] # <<>>
    /\ shard' = [s \in Sources |->
           LET same == {i \in DOMAIN batch[r] : batch[r][i].source = s}
               i == CHOOSE i \in same : TRUE
           IN  IF same = {} THEN shard[s]
               ELSE Applied(shard[s], batch[r][i], answer[r][i])]
    /\ batch' = [batch EXCEPT ![r] = <<>>]
    /\ answer' = [answer EXCEPT ![r] = <<>>]
    /\ UNCHANGED <<clock, made, live, pass, late, fields, budget, admitted>>

(* sync_once, timeout or a broken connection: the entries go back to the   *)
(* end the next batch is taken from.  What was sent may still arrive.      *)
SyncFail(r) ==
    /\ batch[r] # <<>>
    /\ budget.failures > 0
    /\ budget' = [budget EXCEPT !.failures = @ - 1]
    /\ pass' = [pass EXCEPT ![r] =
           @ \o [i \in DOMAIN batch[r] |-> batch[r][i].source]]
    /\ late' = IF answer[r] = <<>> THEN late \cup {batch[r]} ELSE late
    /\ batch' = [batch EXCEPT ![r] = <<>>]
    /\ answer' = [answer EXCEPT ![r] = <<>>]
    /\ UNCHANGED <<clock, shard, made, live, fields, admitted>>

(* A batch given up on is executed after all; nobody reads its answer. *)
ExecuteLate(publishes) ==
    /\ fields' = Written(publishes)
    /\ late' = late \ {publishes}
    /\ UNCHANGED <<clock, shard, made, live, pass, batch, answer, budget,
                   admitted>>

(* Or it was lost with its connection. *)
Lose(publishes) ==
    /\ late' = late \ {publishes}
    /\ UNCHANGED <<clock, shard, made, live, pass, batch, answer, fields,
                   budget, admitted>>

(* A hash expires two windows after it was last touched at the earliest.   *)
Expire(b) ==
    /\ clock >= b + 2
    /\ fields[b] # [s \in Sources |-> 0]
    /\ fields' = [fields EXCEPT ![b] = [s \in Sources |-> 0]]
    /\ UNCHANGED <<clock, shard, made, live, pass, batch, answer, late,
                   budget, admitted>>

Tick ==
    /\ clock < MaxBucket
    /\ clock' = clock + 1
    /\ UNCHANGED <<shard, made, live, pass, batch, answer, late, fields,
                   budget, admitted>>

Next ==
    \/ Tick
    \/ \E r \in Replicas, k \in Keys :
           Check(r, k) \/ CheckNew(r, k) \/ Evict(r, k)
    \/ \E r \in Replicas :
           SyncStart(r) \/ Execute(r) \/ SyncApply(r) \/ SyncFail(r)
    \/ \E publishes \in late : ExecuteLate(publishes) \/ Lose(publishes)
    \/ \E b \in Buckets : Expire(b)

Spec == Init /\ [][Next]_vars

(* The background task of runtime.rs ticks for as long as the process      *)
(* runs, and a round trip ends: with an answer or, as often as the *)
(* budget says, without one.                                               *)
Fairness ==
    /\ \A r \in Replicas : /\ WF_vars(SyncStart(r))
                           /\ WF_vars(Execute(r))
                           /\ WF_vars(SyncApply(r))
    /\ WF_vars(\E publishes \in late :
                    ExecuteLate(publishes) \/ Lose(publishes))

FairSpec == Spec /\ Fairness

-----------------------------------------------------------------------------

Others(s) == {t \in Sources : Key(t) = Key(s) /\ t # s}

OthersAdmitted(s, bucket) ==
    MapThenSumSet(LAMBDA t : admitted[bucket][t], Others(s))

Previous(bucket, count(_)) == IF bucket = 0 THEN 0 ELSE count(bucket - 1)

(* "A request is always counted into some bucket exactly once"             *)
(* (docs/rate-limiting.md): a shard's own counters are what it admitted,   *)
(* in its window and in the one before, across clock steps and evictions.  *)
OwnExact ==
    \A s \in Sources :
        /\ shard[s].own_current = admitted[shard[s].bucket][s]
        /\ shard[s].own_previous =
               Previous(shard[s].bucket, LAMBDA b : admitted[b][s])

(* "Nothing can be lost or counted twice": what a replica holds against a  *)
(* key on behalf of others never exceeds what the others admitted in that  *)
(* very window, whatever was retried, executed late or answered late.  A   *)
(* 429 is then always backed by requests that were really admitted.        *)
NoPhantomUsage ==
    \A s \in Sources :
        /\ shard[s].remote_current <= OthersAdmitted(s, shard[s].bucket)
        /\ shard[s].remote_previous <=
               Previous(shard[s].bucket, LAMBDA b : OthersAdmitted(s, b))

(* The source is the one its replica's store holds for the key. *)
InStore(s) == live[<<s[1], s[2]>>] = s[3]

(* Every replica comes to know what every other one admitted in the window *)
(* it is in: no key is starved by the cap on a batch, and usage admitted   *)
(* just before the other replica's window rolled is still published.       *)
Converges ==
    <>[](\A s \in Sources : InStore(s) =>
           (\A t \in Others(s) :
               InStore(t) /\ shard[t].bucket - shard[s].bucket \in {0, 1} =>
                   shard[s].remote_current >= admitted[shard[s].bucket][t]))

=============================================================================
