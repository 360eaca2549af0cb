# A verification project for the Lagos gateway

Lagos is an HTTP edge gateway in Rust on top of Pingora. This directory models
the parts of it whose correctness depends on interleavings, failures and time:
TLA+ modules translated from `src/crates/lagos-core/src`, TLC configurations that
check them on small instances, and TLAPS proofs of the properties that matter
most. `PROJECT.json` maps every definition to the source lines it stands for.

Paths below are relative to `src/crates/lagos-core/src` unless they start with
`src/`.

## 1. The system

A request passes through the gateway in this order: accept-time limiter,
`request_filter` (path, deny list, preflight, route match, machine secret, rate
limit, client key, token, rate limit by identity, bindings, header plan,
extensions, cap key), `proxy_upstream_filter` (concurrency cap, then breaker),
Pingora's attempt loop (`upstream_peer`, `fail_to_connect`, `error_while_proxy`),
`response_filter`, the response cache around it, and `logging`. Pingora runs many
requests at once on several threads; background services reload the route file,
reconcile shared counters and discover pool members. Before any of this, a command
reads the configuration (with `${VAR}` references into the environment) and a route
file, and either refuses or starts the listeners and the background services.

| Component | State it keeps | Operations | Interacts with | What is hard | What makes it correct |
|---|---|---|---|---|---|
| Circuit breaker (`breaker.rs`) | one `Inner` per upstream behind a mutex | `allow`, `record_success`, `record_failure`, `cancel` | `proxy_upstream_filter`, `logging` | clock read before the lock; reports of requests admitted in an earlier state | no trial slot leaks, opens only on a burst, the cooldown holds, half-open does not last |
| Upstream attempts (`retry.rs`, `dns.rs`, `proxy.rs`) | counters in the request context | pick address, retry or not after a failed connect or exchange | Pingora's loop and retry buffer | which failures may be repeated without acting twice | budgets, no replay of a truncated body, every address tried |
| Concurrency caps (`concurrency.rs`) | a counter per route, a sketch for callers | `take`, drop of the slot | breaker (cap first) | first requests of a route race for its counter; callers are counted in the sketch's rows one after the other; slots on every exit path | counters equal holders, a route's cap holds, no count leaks |
| Signing-key cache (`auth/jwks.rs`) | cached set, in-flight sender | `key_for`, `refresh`, `LeaderGuard::drop` | key endpoint, token verification | leader cancelled in the middle; refresh finishing between check and lock | one fetch, nobody waits for ever, no older set, bounded staleness |
| Local rate limiter (`ratelimit/mod.rs`, `accept.rs`) | one window per key | `check` | `request_filter`, accept | stale clock readings racing for the lock, window boundaries | burst bound, Retry-After is enough |
| Shared counters (`ratelimit/shared.rs`, `ratelimit/resp.rs`) | shards, the running pass, fields in the store | `check_at`, `sync_once` | store, background task | lost, late and reordered batches, eviction, clock skew | counted once, no phantom usage, replicas converge |
| Route reload (`runtime.rs`, `routes/mod.rs`) | published tables, last mtime | stat, load, verify, publish | requests holding old tables, limiters | file written during a reload, counter store down | the file is eventually served, quotas survive |
| Cache storage (`cache/storage.rs`) | entries, in-flight fill bytes | fill, finish, abandon, purge, update | Pingora's cache | cancelled and refused fills; a revalidation's metadata meets a body that was replaced since its lookup | whole objects only, a header on its own body, budget conserved |
| Request pipeline (`proxy.rs`) | the request context, the response cache | `request_filter` ... `fail_to_proxy` | all of the above | reloads in the middle of a request, order of some twenty refusals, responses shared through the cache | one table permits all of it, honest identity headers, denied paths look unknown, cached responses stay with their table and credential |
| Extension chain (`ext.rs`) | a semaphore of permits | `run_chain` | pipeline, the budget of the exchange | a deadline racing a result, hooks that block their thread, waiting for a permit | a result counts only within both deadlines, permits return |
| Resolver (`dns.rs`) | answers with their expiry, lookups in flight | `resolve` | upstream attempts | coalesced lookups whose leader fails or is dropped, age of an answer | addresses come from the record of a TTL ago at most, errors are not remembered |
| Token verification (`auth/mod.rs`, `jwt.rs`, `firebase.rs`) | none of its own | choose the verifier, get the key, decode | signing-key cache | unverified text picks verifier and key; the keys rotate while the token waits | an identity only for a live token of the chosen issuer, signed by a key that issuer published recently |
| Pool discovery (`upstream.rs`) | member sets, owners | `discover`, `select` | balancer | failed and moving answers | last good set is kept |
| Downstream deadlines (`downstream.rs`) | none | header deadline, request budget | Pingora, everything an exchange holds | deadline racing the header; the exchange is dropped wherever it waits | no hook result counts after its deadline; what was held is given back |
| Routing (`routes/`, `path.rs`, route checks of `config/mod.rs`) | a table per listener, a trie over large ones | `build_with`, `validate_table`, `is_denied`, `match_request`, `upstream_path` | pipeline, `lagos test`, `explain` and `diff` | two ways to look a route up, precedence of hosts and prefixes, layers of encoding, code written twice for the command line | the best route whatever the order of the file, the upstream resolves what was matched, the tools tell the truth |
| Policies (`cors.rs`, `csrf.rs`, `binding.rs`, `identity.rs`, `headers.rs`, `cache/policy.rs`) | none | pure functions | pipeline | their order | see the pipeline |
| Configuration (`config/interpolate.rs`, `config/mod.rs`) | the document, the environment, the route file | `expand`, `parse`, `resolve` | every component takes its parameters from it | a value that closes its entry and adds another; one check of many missing | no environment value is printed, no client key touches a header another section vouches for |
| Commands and start-up (`cli.rs`, `cli/`, `runtime.rs`) | the supervisor of `dev`: last document, child process | `validate`, `vars`, `config --effective`, `run`, `dev` | configuration, route reload | the route file changes between two reads; `validate` and `Runtime::run` check different things; `dev` sees only modification times | reports are what a start shows, `dev` comes to run the last edit that loads |
| Observability, error envelope | counters | sequential | | | |

## 2. Modules

| Module | Models | Notes |
|---|---|---|
| `Pipeline` | `request_filter` to `fail_to_proxy`, the cache policy and `publish_reload`, with the decisions of `cors.rs`, `csrf.rs`, `binding.rs`, `identity.rs` and `cache/policy.rs` as operators | a step ends at an await or a shared read; limiters, caps, breaker and token keys may decide either way here and are modelled below |
| `CircuitBreaker` | the methods of `Breaker` as operators on the `Inner` record | one critical section each |
| `BreakerCallers` | concurrent requests calling them | the clock is read in one step and the lock taken in a later one, as in the code |
| `SlotPool` | what a concurrency cap promises, whatever counts behind it | the abstract specification of `Admission`; exact for routes, and for callers what an estimate that is not taken in one step can promise |
| `Admission` | `proxy_upstream_filter`, `InFlight`, `logging`, the drop of the context by its end or by `request_total`; uses `CircuitBreaker` | every access to shared memory is one step, so a caller is counted, and given back, row by row; `Pool == INSTANCE SlotPool WITH ...` is the refinement mapping |
| `UpstreamAttempts` | `upstream_peer`, `fail_to_connect`, `error_while_proxy`, the retry policy | Pingora's loop, its bound on rounds and its retry buffer are external |
| `Exchange` | `header_deadline` and `request_budget`, `run_chain` with its permits and two deadlines, `resolve` with coalesced lookups, around `UpstreamAttempts` | a poll decides between what is ready and what is due, in the order of the code's biased selects |
| `CertCache` | `CertCache::key_for` and `refresh` | one step per lock section, fetch or receive; the endpoint answers in one step and the leader has read the answer in a later one; a verification can be cancelled at every await |
| `TokenVerify` | the issuer router, the checks of the `jwt` and `firebase` verifiers around `CertCache` | what the first checks cannot see of a token is chosen when it is decoded |
| `RateDecision` | `decide`, the formula both limiters use | multiplied out, so it stays in the integers; rounding of `f64` is left out |
| `RateWindow` | `Limiter::check` on one exact window, and on the sketch, whose read and increment are two steps | |
| `SharedCounters` | `SharedCounters` and the store behind it | approximate mode; round trips can fail before or after execution, and late batches execute in any order or are lost |
| `Limiter` | `Counters`: the exact window, the sketch or the shared counters; extends `RateWindow`, instantiates `SharedCounters` | |
| `RouteReload` | the reload service, `publish_reload`, the limiters a table inherits, requests on snapshots | |
| `ConfigText` | `${VAR}` expansion and its three readers: the loader, `vars`, `config --effective` | a text gives each place a scalar may stand its form: absent, a literal, escaped, in a comment, malformed, or a reference |
| `ConfigRules` | the settings and the checks of `resolve` | a duration is a number of ticks, a name a model value with its spelling |
| `HeaderPlan` | the headers an upstream gets under given settings: `HeaderPlan`, `base_header_plan`, `identity::apply` and `strip_all`, the client key's turn, `upstream_request_filter`; extends `ConfigRules` | a value is named for who vouches for it; extensions, which may override the plan, are left out |
| `Startup` | `validate`, `vars`, `config --effective`, `run`, `dev` and `Runtime::run`; extends `RouteReload`, `ConfigText`, `HeaderPlan` | the route file may be written between any two reads of a command |
| `Pools` | `build_pool`, `DnsDiscovery`, `member_set`, the health thresholds and `Upstream::select` | names are looked up one by one while their records change; the balancer's set swap is external |
| `CacheStorage` | `MemoryStorage`, `Miss` and their byte budget, and revalidations from their lookup to `update_meta` | a header, like a body, is known by the response it is of; `update_meta` brings the header its caller looked up |
| `RouteTable` | paths, hosts, `build_with`, `validate_table`, the scan and the trie, the client key rule, as operators | text is a sequence of characters, each with the number of percent encodings around it in a raw path |
| `RouteRules` | the gateway from the mount to the upstream's path, and `lagos test`, `explain` and `diff` about the same file and request; uses `RouteTable` | the copies of mount stripping in `proxy.rs` and `cli.rs` are translated separately |
| `MC*` | instances for TLC | constants and symmetry only |
| `*Proofs` | theorems and proofs | extend the modules they are about: `BreakerProofs` (`BreakerCallers`), `AdmissionProofs`, `AttemptsProofs` (`Exchange`, and with it `UpstreamAttempts`), `CertCacheProofs` (`TokenVerify`, `CertCache`), `PipelineProofs`, `ReloadProofs` (`Startup`, `RouteReload` and the configuration), `SelectionProofs` (`Pools`, `RouteRules` with `RouteTable`), `CountingProofs` (`CacheStorage`, `Limiter` with `RateWindow` and `SharedCounters`) |

Every action carries the guard, assignments and early returns of its code lines;
data are model values (a token is valid or not, a body is a number of chunks).
History variables, marked as such, are read by properties only. Operators
introduced by "A plausible bug" or "Faulty variant" are never used by a
specification: they are alternatives to the definition that follows them, kept
to show that the properties notice the difference.

In `CertCache`, the receive branch for a vanished leader (`Err(_)`) cannot be
reached: the slot is cleared before the sender is dropped, on every path.
A fetch takes up to `FetchTimeout`, the timeout of the code's HTTP client: the
endpoint's answer (`Answered`) holds the keys as published then, and the expiry is
counted from the later moment at which the leader has read all of it. From there to
its publication, which awaits nothing, time does not advance.

`RouteTable` compares methods and hosts up to case, as the code does after folding
them. The entries of `internal:` in its instance are written in canonical form; the
code trims their slashes and checks nothing else. Sorting and filtering are written
with `InOrder` and `Kept`, which number the members of a set by how many come before:
the recursive operators of the community modules would keep the provers out.
`RouteRules` starts after the
CORS preflight, which `Pipeline` has. `lagos test` is not told the health path, so
it is compared with the gateway on every other request.

## 3. Runs

| Run | Instance | Shows |
|---|---|---|
| `pipeline` | 2 requests out of 21, 3 route files, one reload, both listeners | one table permits what gets through; honest identity headers; limits charged once and before a signature check; denied paths look unknown; cached responses stay with their table and credential |
| `breaker` | 3 requests, clock to 4, one tick of preemption, 2 failures to open, cooldown 2 | slots never leak; opens only on a burst; half-open at its cap resolves |
| `breaker_evidence` | same | finding, section 6 |
| `attempts` | an exchange and a rival, answers of 1 or 2 addresses, two retry policies and none, hook budget 2 in a chain of 3, one permit, header timeout 1, `request_total` 4 or unset, TTL 2 or 0, clock to 5 | no hook result counts after its deadline; fresh addresses; attempt and delivery budgets; no duplicate delivery of a non-idempotent request by the policy; no truncated replay; failover reaches every address |
| `admission` | 3 requests, a route with a cap of 1, two callers that share a cell in one of two sketch rows, one with a cap of 1 and one whose cap changes between 1 and 2, a breaker that opens on its first failure, with and without `request_total` | the counters implement the abstract slot pool; without a deadline every half-open trial has a reporter |
| `admission_deadline` | same | finding, section 6 |
| `certcache` | 2 verifications, one kid, max-ages none, 0 and 2, stale grace 1, a fetch of up to 1, skew 1, clock to 4, one key rotation, both verifiers, tokens that differ from a good one in one or two claims | single flight, monotone cache, every verification ends, an identity is proven by a recent key of its issuer |
| `limiter` | local: 3 requests (one honours Retry-After), limit 2, interval 5, a second of 2 ticks, clock to 10, lag up to 2; shared: 2 replicas, 1 key, and one of three budgets of skew, evictions and failed round trips | burst bound; Retry-After suffices; n racing requests cost the sketch a limit that is n-1 higher, no more; every count is backed by requests, also across incarnations of a key; replicas converge |
| `reload` | 16 texts of a document in every environment of two variables with five states of the route file; some sixty documents that differ from a good one in one setting; six documents for `dev`, edited twice; then 3 file versions, 2 of one policy, 3 writes, 1 outage, 2 requests | reports are what a start shows; no environment value is printed; a client key changes no header but its own two, on either listener and in whatever spelling; `dev` follows; quotas survive; the file is served |
| `pools` | 2 targets, 4 addresses, 8 zones, 2 changes of the records, 1 failed lookup, thresholds 1 and 2 | addresses dialled under their own name; failing members leave rotation and return; settled records are followed |
| `routes` | every file of up to 3 routes out of 10, single invalid routes, 42 revisions for `diff`; 51 requests with plain, cased, encoded and dotted paths, 4 hosts, 2 methods; 2 mounts; tables of more than 2 routes are indexed (32 in the code) | scan and trie give the one route that outranks the others, whatever the order of the file; the upstream resolves what was matched; the offline tools agree with the gateway |
| `cache_storage` | 2 fills and 2 revalidations that race for one key, objects of up to 3, a budget of 4 | budget exact and held; only whole responses; a stored header is of the response its body is of, unless the key was written between a revalidation's lookup and its `update_meta` |

No run checks `TypeOK`: it is proved for the breaker, the caps, the attempts and
exchanges, the key cache, the pipeline, the reload task, the pools and the cache
storage and the limiter. `RouteRules` keeps what its tables are made of in its
invariant, `RulesInv`.

Why the bounds are enough: three requests let one that started earlier report
while a second holds what it releases and a third asks for it; two replicas are
the smallest number with "another one", and each pair of them runs independently
of the rest; the clocks run through at least two windows or two cooldowns, so that
every boundary is crossed with something left over from before; in `attempts` the
clock outlasts `request_total`, and the rival can hold the one permit, or lead the
lookup, that `main` waits for; in `pipeline` two requests are what a fill and a hit,
or a denied and an unknown path, need, and one reload suffices because every request
loads one table; in `routes` three routes are a candidate, one that outranks it and
one in between, and the pool has each way two of them can overlap; in `reload` each
document breaks one rule, so that a missing check is not hidden behind another, and
the file changes once between two reads of a command; every failure counter allows
a failure followed by a recovery. Runs that check liveness use no symmetry
reduction. `attempts` is followed until the exchange `main` is over.

`ImplementsSlotPool` is a refinement: `Admission`'s counters, cells and pending steps
are mapped to the status of each request, and every step is shown to be one of
`SlotPool` or a stutter. It replaces the invariants about sums and caps that the
counters would need one by one, and says more: a route slot is refused only
when the cap is really used up, and a caller only while as many requests as its cap
are counted beside it, so that no path leaks a count. For callers `SlotPool` promises
less than a cap: the rows of the sketch are counted one after the other, and requests
that ask at the same time can pass together (section 6), at most as many as the cap
through each row.

## 4. Fairness

* breaker: weak fairness of each request's own steps. No step waits for
  another request, and Pingora calls `logging` and drops the context at the end of
  every request (`BreakerCallers` assumes `request_total` unset; `Admission` shows
  what happens when it is set).
* signing-key cache and token verification: weak fairness of each verification and
  of the fetch it leads, which the HTTP client bounds by a timeout. Cancellation is
  never required.
* shared counters: the background task ticks for as long as the process runs, and
  a round trip ends; failures are bounded by the `budget` the run starts with.
* pools: weak fairness of the balancer's background task and of a lookup, which a
  timeout ends; changes of the records and failures are bounded.
* reload: weak fairness of the reload task, a loop on a timer, and of the supervisor
  of `dev`, a loop that sleeps 400 ms. Writes, edits and outages are not required and
  are bounded, so the files are eventually left alone.

The other runs check safety (or a refinement of a specification without fairness)
and assume none.

## 5. Proofs

All theorems hold for every value of the constants that satisfies the named
`ASSUME`s, which state what the configuration's validation lets through (the checks
are in `ConfigRules`; section 6 has two values they do not refuse). Each rests on an
inductive invariant, `Init => Inv` and `Inv /\ [Next]_vars => Inv'`, with one step
per action. Bounds that only keep TLC finite (clocks, numbers of changes, tables or
reloads) are constants too, so the theorems hold for any of them.

* `BreakerProofs`: `TypeCorrect`; `TrialSlotsNeverLeak` (the trial counter never
  exceeds the requests still to report; needs that each request is in one place);
  `CooldownCorrect` (needs that a reading is never older than the preemption bound,
  and that `opened_at` is close to the time the circuit really opened);
  `BurstOpens` (the failure counter equals the length of the recorded run of
  failures, all inside one window).
* `AdmissionProofs`: `CapsAreSlotPool`, the refinement of `SlotPool`, for any number
  of requests, keys, sketch rows and caps and any hash. The invariant backs every
  counter by what counts in it: the counter of a route is the number of its
  holders, also between two steps of a request that races for a missing entry, and
  a cell of the sketch is exactly the number of requests counted in it at that moment
  (`CellInv`), half-counted and half-released ones included. Of any
  of a caller's requests counted in a row, the last one counted saw no less there than
  their number (`LaneInv`), so those that saw at most n are at most n; a row in which
  a holder saw no more than its cap is its lane. A holder from before a request asked
  is in every count the request takes (`AheadInv`). An action then maps to a step of
  `SlotPool` or a stutter.
  `TrialsReport`: while no exchange has a deadline, every trial the breaker counts
  belongs to a request that will report.
* `AttemptsProofs`: for `UpstreamAttempts`, `AttemptsTypeCorrect`,
  `NeverReplaysTruncated`, `WithinBudget`, `DeliveredOnce` and `FailoverExhausts`.
  The last needs that the failover index goes round the answer: after `n` failed
  rounds on a steady answer the `n` addresses before the index, counted
  cyclically, have failed, so after as many rounds as addresses all have.
  For `Exchange`, `ExchangeMakesAttempts`: every step is one of
  `UpstreamAttempts` or leaves its state alone, which carries the five theorems over
  (`ExchangeKeepsPromises`); `PolicyWithinBudget`; and
  `RoundsGetFreshAddresses`, whose invariant bounds the age of a cached answer by
  its TTL, of a lookup by its timeout, and says that every waiter's lookup has a
  leader.
* `CertCacheProofs`: `CertTypeCorrect`, `OneFetchAtATime`, `CacheNeverOlder`,
  `NoOrphanedWaiter`. The invariant ties the in-flight slot to the one verification
  that leads it; everything else follows from that ownership. For `TokenVerify`,
  `TokensUseTheCache` carries them over, and `IdentitiesAreProven` adds how old a key
  can be: an entry expires at most the longest TTL after its fetch ended, which is at
  most `FetchTimeout` after the endpoint published its keys, a failed refresh extends
  nothing, and a verification that was told `ok`
  finds an entry that had not expired when it began.
* `PipelineProofs`: `OneTableDecides`, `IdentityIsVerified`, `LimitsChargeOnce`,
  `DeniedLooksUnknown`, from an invariant that says for each stage of
  `request_filter` what is settled about the request once it is past it.
  `CacheKeepsHome` needs a second one about the cache: a namespace belongs to one
  table for ever (`stores` only grows), a key names the table and the route it was
  made under, and in an accepted table a route's id is its own.
* `ReloadProofs`: for `RouteReload`, `ReloadTypeCorrect` and `QuotaSurvivesReloads`.
  The invariant says that a limiter has counted exactly what its era spent, and that
  the public table and every held snapshot agree on which limiter belongs to an era.
  For `Startup`: `KeysOverwriteNothing` (by the checks a start has passed at each of
  its steps; a name that no writer of the gateway has is not in the plan before the
  client key's turn, and of every other name the plan says the same after it);
  `ServingTypeCorrect` and `QuotaFromStart` (a start hands a checked version to the
  reload task, in a state where its invariant holds); `EffectiveHides` (a field is
  printed only when the masked text, which no environment moves, agrees with the
  expanded one); `ReportsAreHonest` (a write gives the file a new modification time,
  so two readings with the same one are of the same content, and the inventory of
  `vars` decides whether the strict expansion of the same texts succeeds).
* `CountingProofs`, on sums: that the library's sum over a finite set exists, and
  changes by what one of its terms changes, is proved first, by induction on the size
  of the set (the least number for which a statement fails cannot exist). Three
  parts of the code count with it:
  * `CacheStorage`: `StoredWhole`, `StoredPairs`, `WithinFillBudget`,
    `FillsAreAccounted`, `CacheTypeCorrect`. The byte counter is the sum of the buffers.
    A revalidation that nothing has overtaken looked up the header that the entry it
    will find, or has found, still has (`LookupsCurrent`, `UpdatesWhole`).
  * `RateWindow`: `BurstsAreBounded`, `RetryAfterIsEnough`, `RacesAreBounded`. The
    invariant relates the window to the history of admissions by sums over every span:
    what was admitted since the window's start is its `current`, what was admitted
    in the interval before it its `previous` and the older rest is idle, each up to
    what a stale reading within `MaxLag` may have placed on the other side of the start;
    and every span inside two windows already satisfies the bound, so that an
    admission, which passed `Refuses` at its own reading, extends it. For
    Retry-After, a client that was refused finds, from the moment it may come back,
    a window in which the same or fewer requests weigh less, however many refused
    ones rolled it. For the sketch each request between its two steps is charged
    in advance (`Cardinality(Waiting(reading))`).
  * `SharedCounters` in `Limiter`: `CountsAreBacked`, `LimiterTypeCorrect`.
    `NoPhantomUsage` alone is not inductive: an answer is charged less what the publish
    said of its own source, so it must be known that the store, when it answered, held no
    more of that source than the publish said. `SharedInv` therefore also says that
    a batch says what its shards counted when it was taken and nothing a source never
    admitted (`StoreBacked`), that neither the store nor a batch given up on says more
    of a source than its replica's youngest batch does (`Freshest`: why a late
    execution of an older batch cannot make the store exceed what a younger one
    subtracts), and that an answer is at most the publish and what the others admitted
    (`AnswersFit`); sources no shard uses have admitted nothing (`NothingUnmade`).
* `SelectionProofs`, for `Pools`: `PoolsTypeCorrect`, `NeverUnderAnotherName`,
  `RefreshesApplyWhole`, `SickMembersShunned`. The balancer
  keeps its members when a new set has the same addresses and weights; because
  `owners` says of every address in service what its member says, a set that was
  accepted and looks the same is the same. A health record that disagrees with the
  last result has counted exactly the results in a row, fewer than it takes to flip.
* `SelectionProofs`, for the routes. The invariant `RulesInv` is short: the tables are
  those of an accepted file, the answer is the gateway's to the request, and a
  report is what the tool computes. The work is in the operators it applies.
  * `RequestsGetTheRightRoute`. An element's place in an order is the number of
    those before it, so a sorted list holds every element once, in order (`Ranks`,
    `Listed`); with it, a listener's table holds exactly the enabled routes of its
    tier group (`TableRows`). A prefix fits a path exactly if its segments begin
    the path's (`SplitPrefix`), so the walk down the trie meets the routes a scan
    would hit, and as `consider` only ever improves the position, both return the
    first hit (`ScanIs`, `FindIs`). Two hits on one path with prefixes of the same length have
    the same prefix, and their hosts overlap because one host matches both: so in an
    accepted table they conflict, unless one of them outranks the other, and the
    first one outranks the rest (`EarlierOutranks`).
  * `UpstreamsSeeWhatWasMatched`. Splitting and joining undo each other (`SplitJoin`,
    `JoinSplit`), and a text with a slash in it splits into the segments on both sides
    (`SplitSlashed`). So no segment of a canonical path is empty or a dot segment, what
    remains of it after a prefix is canonical again (`RestOf`), and below a base it
    adds exactly its own segments; encoding leaves no character that could start a
    query. A configured base may hold dot segments of its own: the code does not
    look at them, and the property excepts them.
  * `ToolsSayWhatHappens`. `strip_base` and `strip_mount` agree on every path
    (`MountsAgree`), and what is shown is what the upstream sees below its base
    (`ShownIsSeen`). If `diff` is silent, every row of one table has a twin in the
    other that reports the same. The first hits of a request are twins too, because
    which row comes first is decided by what the report shows (`TwinsChosen`).

  `RulesConfig` says what the configuration guarantees: `base_path` is trimmed and
  comes from `uri.path()`, so it holds no `?` (`upstream.rs:56`), every upstream has
  one, there is at least one mount, a request's path
  ends where its query starts, and `None` is none of the values it stands beside.

`CooldownHolds`, `WholeSet` and `FillBudgetHolds` are proved and have no run
of their own (`FillsAccounted` includes the last).

Checked by TLC only:

* liveness (`HalfOpenResolves`, `VerificationEnds`, `Converges`, `ServesTheFile`,
  `DevFollows`, `FollowsDns`): the provers have no rules for fairness and `ENABLED`.

Every invariant and every action property of a passing run is proved.

## 6. Findings

* `breaker_evidence`: successes of requests admitted before the circuit opened
  count as successful trials and can close it.
* `admission_deadline`: `request_total` drops an exchange before `logging`, the only
  place that reports a half-open trial. The circuit keeps counting the trial.

Details and quotations are in `PROJECT.json`.

Met while modelling, without a run:

* Per-caller caps can be exceeded for a moment, where `src/README.md:1042` says "It
  never admits more than the cap" and `concurrency.rs:9` that the sketch "never
  under-counts". With a cap of 1, request A is counted in the first row (1), B in the
  first (2) and in the others (1), then A in the others (2): each compares the smallest
  count it saw, 1, with the cap, and both are admitted. `SlotPool` therefore promises
  no more than it does.
* The configuration accepts `interval: 0` of a rate limit with local counters and
  thresholds of 0 in a health check, which `RateWindow` and `Pools` assume away.
* `validate` does not look at duplicate issuers, the names of a pool, the syntax of a
  health path or the counter store; `ReportsHonest` says what it promises without
  them. `dev` asks `load` only, so it replaces a working child by one that refuses to
  start (an unregistered extension, two providers of one issuer), and it does not
  retry a document that was refused because of its route file.
* `update_meta` puts the metadata of its caller's lookup on the body it finds. When
  another request has stored a newer response in between, the entry becomes an old
  header with a new body, where the comment at `cache/storage.rs:203` is concerned for
  "a consistent meta/body pair"; `PairsAreOfOneResponse` marks such entries
  (`overtaken`) and speaks of the others.
* The lifetime of a signing key starts when the fetch has been read, so a key can be
  used for up to the 10 s of the client's timeout longer than its TTL and grace.
* `vars` reports inline routes when a value splices in `routes.file`.
* `fail_to_proxy` and the health answer use `send`, which adds no CORS headers.
* A `graceful_shutdown` of less than a second is truncated to zero.

## 7. Plan

Done: breaker, attempts, caps, signing-key cache, rate limits, reload, cache
storage, pipeline, pools, routes; then deadlines, extensions and resolver, token
verification, the sketch, the refinement of `SlotPool`, configuration, start-up and
commands. Next:

1. The exact mode of the shared counters, and more keys than a batch.
2. Pure operators against reference definitions: the forwarded-for chain of the
   header plan, cache keys, the expectations and fixtures of `lagos test`.
3. The accept-time limiter together with the connection it belongs to.

## 8. Not modelled

Metrics, traces and logs, the bodies of error answers, `init`, `schema` and the
listing of `routes`: sequential output without later state. The syntax of durations,
sizes, addresses and URLs and the JSON schema: `ConfigRules` starts after parsing.
Draining and socket options, TLS, HTTP parsing, connection pools, the cache lock and
eviction order: Pingora's. Signature verification: the `jsonwebtoken` crate's. The moka
caches are modelled from their use (lookup, insertion, coalesced loading, expiry).
Eviction of rate-limit windows under key flooding forgets counts on purpose and is
left out. The granularity of file timestamps is the file system's: `RouteReload` gives
every write its own, so a file that is written twice within one timestamp
(`runtime.rs:457`), whose second content a reload never notices, is outside the model.
