------------------------------ MODULE Exchange ------------------------------
(***************************************************************************)
(* Exchanges and the clocks they run against: the header deadline and the  *)
(* budget of the whole exchange (downstream.rs), the deadlines of policy   *)
(* hooks and of their chain (ext.rs), and the names upstream_peer resolves *)
(* (dns.rs).  One of them, Main, goes on to the attempts of                *)
(* UpstreamAttempts, each round with the addresses the resolver hands out; *)
(* the others compete for hook permits and share its lookups.              *)
(*                                                                         *)
(* An exchange is one task.  What wakes it (bytes, a hook's result, an     *)
(* answer) and its timers become ready at any time, and a poll decides.    *)
(* Time does not pass a timer that is due, except while a hook keeps its   *)
(* thread busy.                                                            *)
(***************************************************************************)
EXTENDS UpstreamAttempts, Integers, FiniteSets

CONSTANTS
    Exchanges,      \* exchanges under way
    Main,           \* the one whose attempts are followed
    HeaderTimeout,  \* timeouts.downstream_header
    Settings,       \* what a behaviour may start with: timeouts.request_total
                    \* (None if unset), the resolver's TTL (0 turns its cache
                    \* off), how many extensions the route has and, as bounds,
                    \* which exchanges there are besides Main and how often the
                    \* DNS record changes
    HookBudget,     \* timeouts.extension
    ChainBudget,    \* timeouts.extension_chain
    Inflight,       \* limits.extension_inflight, None if unset
    LookupTimeout,  \* timeouts.connect
    MaxTime         \* bound: end of the run

ASSUME ExchangeConfig ==
    /\ Main \in Exchanges
    /\ HeaderTimeout \in Nat \ {0} 
    /\ Settings \subseteq [total: (Nat \ {0}) \cup {None}, ttl: Nat, hooks: Nat,
                           others: SUBSET Exchanges, repoints: Nat]
    /\ HookBudget \in Nat \ {0} /\ ChainBudget \in Nat /\ HookBudget <= ChainBudget
    /\ Inflight \in (Nat \ {0}) \cup {None}
    /\ LookupTimeout \in Nat \ {0}
    /\ MaxTime \in Nat

VARIABLES
    clock,    \* Instant::now()
    cfg,      \* the setting of this behaviour
    ex,       \* where an exchange is
    record,   \* what the name resolves to, <<>> for no address
    cache,    \* the resolver's entry: None or [addrs, at]
    lookups,  \* lookups under way
    \* History and bounds.
    repoints, \* changes of the record to come
    current   \* when the record last was a given answer, -1 if never

exVars == <<clock, cfg, ex, record, cache, lookups, repoints, current>>

Stages == {"idle", "header", "chain", "hook", "judge", "upstream", "over"}

Task == [stage: Stages, start: Nat, arrived: BOOLEAN, done: Nat,
         chain: Nat, limit: Nat, outcome: {"none", "ok", "rejected", "elapsed"},
         overran: BOOLEAN]

NewTask == [stage |-> "idle", start |-> 0, arrived |-> FALSE, done |-> 0,
            chain |-> 0, limit |-> 0, outcome |-> "none",
            overran |-> FALSE]

Lookup == [lead: Exchanges, since: Nat, seen: Answers \cup {<<>>},
           joined: SUBSET Exchanges]

\* The shape of the state.
ExchangeTypeOK ==
    /\ TypeOK
    /\ clock \in 0..MaxTime
    /\ cfg \in Settings
    /\ ex \in [Exchanges -> Task]
    /\ record \in Answers \cup {<<>>}
    /\ cache = None \/ cache \in [addrs: Answers, at: 0..MaxTime]
    /\ lookups \subseteq Lookup
    /\ repoints \in Nat
    /\ current \in [Answers -> -1..MaxTime]

ExchangeInit ==
    /\ Init
    /\ clock = 0
    /\ cfg \in Settings
    /\ repoints = cfg.repoints
    /\ ex = [x \in Exchanges |-> NewTask]
    /\ record \in Answers
    /\ cache = None
    /\ lookups = {}
    /\ current = [s \in Answers |-> IF s = record THEN 0 ELSE -1]

Becomes(x, task) == ex' = [ex EXCEPT ![x] = task]

\* Nothing of the task is left.
Ended == [NewTask EXCEPT !.stage = "over"]

\* On to the upstream: only the budget still counts from the start.
Upstream(x, overran) ==
    [NewTask EXCEPT !.stage = "upstream", !.overran = overran,
                    !.start = IF cfg.total = None THEN 0 ELSE ex[x].start]

Active(x) == ex[x].stage \notin {"idle", "over"}

-----------------------------------------------------------------------------
(* The exchange and its deadlines (downstream.rs).                         *)

\* process_new_http: both deadlines count from here.
Dispatch(x) ==
    /\ ex[x].stage = "idle"
    /\ x \in cfg.others \cup {Main}
    /\ Becomes(x, [NewTask EXCEPT !.stage = "header", !.start = clock])
    /\ UNCHANGED <<vars, clock, cfg, record, cache, lookups, repoints,
                   current>>

\* The last byte of the header is in the socket.
HeaderArrives(x) ==
    /\ ex[x].stage = "header"
    /\ ~ex[x].arrived
    /\ Becomes(x, [ex[x] EXCEPT !.arrived = TRUE])
    /\ UNCHANGED <<vars, clock, cfg, record, cache, lookups, repoints,
                   current>>

HeaderDue(x) == ex[x].stage = "header" /\ clock >= ex[x].start + HeaderTimeout

Running == {x \in Exchanges : ex[x].stage \in {"chain", "hook", "judge"}}

\* The biased select: the timer counts only if the header is not there.
HeaderExpires(x) == HeaderDue(x) /\ ~ex[x].arrived

\* wait_for_header: the header is parsed and the filters run up to the chain of
\* hooks, which must find a permit; from here on the header timer is gone.
Parse(x) ==
    /\ ex[x].stage = "header"
    /\ ex[x].arrived
    /\ \/ /\ cfg.hooks = 0
          /\ Becomes(x, Upstream(x, FALSE))
       \/ /\ cfg.hooks > 0
          /\ Inflight # None /\ Cardinality(Running) >= Inflight
          /\ Becomes(x, Ended)
       \/ /\ cfg.hooks > 0
          /\ Inflight = None \/ Cardinality(Running) < Inflight
          /\ Becomes(x, [ex[x] EXCEPT !.stage = "chain", !.arrived = FALSE,
                                      !.chain = clock + ChainBudget])
    /\ UNCHANGED <<vars, clock, cfg, record, cache, lookups, repoints,
                   current>>

HeaderTimesOut(x) ==
    /\ HeaderExpires(x)
    /\ Becomes(x, Ended)
    /\ UNCHANGED <<vars, clock, cfg, record, cache, lookups, repoints,
                   current>>

-----------------------------------------------------------------------------
(* The chain of hooks (ext.rs).                                            *)

MinOf(a, b) == IF a <= b THEN a ELSE b

\* Faulty variant: a hook may use its whole budget.
HookLimitAlone(chain) == clock + HookBudget

HookLimit(chain) == MinOf(clock + HookBudget, chain)

\* run_chain's loop: the next hook, unless the chain is out of time.
StartHook(x) ==
    /\ ex[x].stage = "chain"
    /\ \/ /\ clock >= ex[x].chain
          /\ Becomes(x, Ended)
       \/ /\ clock < ex[x].chain
          /\ Becomes(x, [ex[x] EXCEPT !.stage = "hook",
                                      !.limit = HookLimit(ex[x].chain)])
    /\ UNCHANGED <<vars, clock, cfg, record, cache, lookups, repoints,
                   current>>

\* timeout_at: the hook's own result, or the timer.
HookEnds(x) ==
    /\ ex[x].stage = "hook"
    /\ \E result \in {"ok", "rejected"}
                     \cup (IF clock >= ex[x].limit THEN {"elapsed"} ELSE {}) :
          Becomes(x, [ex[x] EXCEPT !.stage = "judge", !.outcome = result])
    /\ UNCHANGED <<vars, clock, cfg, record, cache, lookups, repoints,
                   current>>

\* The clock is read again: a result that came too late is a timeout.
Judge(x) ==
    /\ ex[x].stage = "judge"
    /\ LET expired == clock >= ex[x].limit
           passed == ~expired /\ ex[x].outcome = "ok"
           last == ex[x].done + 1 = cfg.hooks
       IN  \/ /\ passed /\ last
              /\ Becomes(x, Upstream(x, clock >= ex[x].chain))
           \/ /\ passed /\ ~last
              /\ Becomes(x, [ex[x] EXCEPT !.stage = "chain", !.done = @ + 1,
                                          !.limit = 0, !.outcome = "none"])
           \/ /\ ~passed
              /\ Becomes(x, Ended)
    /\ UNCHANGED <<vars, clock, cfg, record, cache, lookups, repoints,
                   current>>

-----------------------------------------------------------------------------
(* Name resolution (dns.rs).                                               *)

\* Faulty variant: time to idle; a hit keeps the entry alive.
AfterHitIdle(entry) == [entry EXCEPT !.at = clock]

\* Time to live: reading an entry does not extend it.
AfterHit(entry) == entry

Hit == cache # None /\ clock < cache.at + cfg.ttl

Waiting == UNION {l.joined : l \in lookups}

\* Who takes part in name resolution next.
Asks(x) ==
    /\ ex[x].stage = "upstream"
    /\ x = Main => pc = "select"
    /\ x \notin Waiting

\* The addresses go to upstream_peer; an exchange not followed further ends.
HandOut(who, addrs) ==
    /\ ex' = [x \in Exchanges |-> IF x \in who \ {Main} THEN Ended
                                                       ELSE ex[x]]
    /\ IF Main \in who THEN UpstreamPeer /\ answer' = addrs ELSE UNCHANGED vars

\* Resolver::addresses, from the cache or, for an address literal or a pool
\* member, without asking anyone.
Resolved(x) ==
    /\ Asks(x)
    /\ \/ /\ Hit
          /\ HandOut({x}, cache.addrs)
          /\ cache' = AfterHit(cache)
       \/ /\ \E s \in Answers : Len(s) = 1 /\ HandOut({x}, s)
          /\ UNCHANGED cache
    /\ UNCHANGED <<clock, cfg, record, lookups, repoints, current>>

\* A miss: a lookup of its own, or the one under way for the same name.
StartLookup(x) ==
    /\ Asks(x)
    /\ ~Hit
    /\ \/ /\ cfg.ttl # 0 /\ lookups # {}
          /\ lookups' = {[l EXCEPT !.joined = @ \cup {x}] : l \in lookups}
       \/ /\ cfg.ttl = 0 \/ lookups = {}
          /\ lookups' = lookups \cup
                {[lead |-> x, since |-> clock, seen |-> record, joined |-> {x}]}
    /\ UNCHANGED <<vars, clock, cfg, ex, record, cache, repoints, current>>

\* lookup: the record as it was when asked, or as it is when answered.
LookupAnswers(l) ==
    /\ \E addrs \in {l.seen, record} \ {<<>>} :
          /\ HandOut(l.joined, addrs)
          /\ cache' = IF cfg.ttl = 0 THEN None ELSE [addrs |-> addrs, at |-> clock]
    /\ lookups' = lookups \ {l}
    /\ UNCHANGED <<clock, cfg, record, repoints, current>>

\* An error, no address or no answer in time: every waiter is told, and
\* nothing is kept.
LookupFails(l) ==
    /\ lookups' = lookups \ {l}
    /\ ex' = [x \in Exchanges |-> IF x \in l.joined THEN Ended
                                                    ELSE ex[x]]
    /\ IF Main \in l.joined THEN NoPeer ELSE UNCHANGED vars
    /\ UNCHANGED <<clock, cfg, record, cache, repoints, current>>

Repoint ==
    /\ repoints > 0
    /\ repoints' = repoints - 1
    /\ record' \in (Answers \cup {<<>>}) \ {record}
    /\ current' = [s \in Answers |-> IF s \in {record, record'} THEN clock
                                     ELSE current[s]]
    /\ UNCHANGED <<vars, clock, cfg, ex, cache, lookups>>

-----------------------------------------------------------------------------
(* Main's attempts, its end, the budget, and time.                         *)

Attempt ==
    /\ ex[Main].stage = "upstream"
    /\ FailToConnect \/ Connected \/ BufferTruncated \/ Answered \/ ErrorWhileProxy
    /\ ex' = IF pc' \in {"answered", "failed"}
             THEN [ex EXCEPT ![Main] = Ended] ELSE ex
    /\ UNCHANGED <<clock, cfg, record, cache, lookups, repoints, current>>

BudgetDue(x) == Active(x) /\ cfg.total # None /\ clock >= ex[x].start + cfg.total

\* A lookup goes with the exchange that leads it; a waiter starts it over.
Without(x) ==
    {IF l.lead # x THEN [l EXCEPT !.joined = @ \ {x}]
     ELSE [lead |-> CHOOSE y \in l.joined \ {x} : TRUE, since |-> clock,
           seen |-> record, joined |-> l.joined \ {x}] :
        l \in {l \in lookups : l.joined # {x}}}

\* request_budget: the exchange is dropped where it stands.
BudgetExpires(x) ==
    /\ BudgetDue(x)
    /\ ex[x].stage # "judge"
    /\ Becomes(x, Ended)
    /\ lookups' = Without(x)
    /\ UNCHANGED <<vars, clock, cfg, record, cache, repoints, current>>

LookupDue == \E l \in lookups : clock >= l.since + LookupTimeout

Tick ==
    /\ clock < MaxTime
    /\ ~LookupDue
    /\ \A x \in Exchanges :
          /\ ~HeaderDue(x)
          /\ BudgetDue(x) => ex[x].stage \in {"hook", "judge"}
    /\ clock' = clock + 1
    /\ current' = IF record = <<>> THEN current
                  ELSE [current EXCEPT ![record] = clock']
    /\ UNCHANGED <<vars, cfg, ex, record, cache, lookups, repoints>>

ExchangeNext ==
    \/ Tick \/ Repoint \/ Attempt
    \/ \E x \in Exchanges :
          \/ Dispatch(x) \/ HeaderArrives(x) \/ Parse(x) \/ HeaderTimesOut(x)
          \/ StartHook(x) \/ HookEnds(x) \/ Judge(x)
          \/ Resolved(x) \/ StartLookup(x) \/ BudgetExpires(x)
    \/ \E l \in lookups : LookupAnswers(l) \/ LookupFails(l)

ExchangeSpec == ExchangeInit /\ [][ExchangeNext]_<<vars, exVars>>

-----------------------------------------------------------------------------
(***************************************************************************)
(* Properties                                                              *)
(***************************************************************************)

(***************************************************************************)
(* A request reaches its upstream only if its hooks were done within the   *)
(* budget of the chain, however long each of them blocked its thread and   *)
(* whenever its result was looked at.                                      *)
(***************************************************************************)
PolicyInBudget ==
    \A x \in Exchanges : ~ex[x].overran

(***************************************************************************)
(* "A name that is constantly in use must still be re-resolved": the       *)
(* addresses a round is given by name were the record's at most a TTL and  *)
(* a lookup ago, whoever's lookup they came from.                          *)
(***************************************************************************)
AddressesFresh ==
    [][pc = "select" /\ pc' = "connecting" /\ Len(answer') > 1 =>
          clock - current[answer'] <= cfg.ttl + LookupTimeout]_vars

=============================================================================
