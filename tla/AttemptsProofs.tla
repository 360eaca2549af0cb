--------------------------- MODULE AttemptsProofs ---------------------------
(***************************************************************************)
(* Proofs about UpstreamAttempts for every policy, every set of answers    *)
(* and every bound of Pingora's loop.                                      *)
(***************************************************************************)
EXTENDS Exchange, TLAPS

\* The address chosen is one of the answer's.
LEMMA ChosenAddress ==
    ASSUME NEW s \in Answers, NEW m \in Nat, NEW n \in Nat
    PROVE  ChooseDnsAddress(s, m, n) \in Addrs
<1>1. s \in Seq(Addrs) /\ Len(s) \in Nat /\ Len(s) > 0
  BY AttemptsConfig
<1>2. (m + n) % Len(s) \in 0..(Len(s) - 1)
  BY <1>1
<1>3. ((m + n) % Len(s)) + 1 \in 1..Len(s)
  BY <1>1, <1>2
<1> QED BY <1>1, <1>3 DEF ChooseDnsAddress

\* No step of the loop leaves the types.
LEMMA AttemptsTypeStep == TypeOK /\ [Next]_vars => TypeOK'
<1> SUFFICES ASSUME TypeOK, [Next]_vars PROVE TypeOK'
  OBVIOUS
<1> USE DEF TypeOK
<1>t. ctx \in Ctx /\ ctx.attempts + 1 \in Nat /\ ctx.dns_failovers + 1 \in Nat
      /\ ctx.dns_attempts + 1 \in Nat
  BY DEF Ctx
<1>1. CASE NoPeer
  BY <1>1 DEF NoPeer
<1>2. CASE UpstreamPeer
  <2>1. PICK s \in Answers :
           /\ answer' = s
           /\ ctx' = [ctx EXCEPT !.dns_candidates = Len(s)]
           /\ addr' = ChooseDnsAddress(s, ctx.dns_start, ctx.dns_attempts)
           /\ steady' = (steady /\ (answer = <<>> \/ answer = s))
    BY <1>2 DEF UpstreamPeer
  <2>2. ctx' \in Ctx
    BY <2>1, AttemptsConfig DEF Ctx
  <2>3. addr' \in Addrs
    BY <2>1, ChosenAddress DEF Ctx
  <2>4. steady' \in BOOLEAN /\ cut' \in BOOLEAN
    BY <1>2, <2>1 DEF UpstreamPeer
  <2>5. answer' \in Answers
    BY <2>1
  <2> QED BY <1>2, <2>2, <2>3, <2>4, <2>5 DEF UpstreamPeer
<1>3. CASE FailToConnect
  <2>1. ctx' \in Ctx
    BY <1>3, <1>t DEF FailToConnect, CountFailover, Ctx
  <2>2. pc' \in {"select", "failed"}
    BY <1>3, Zenon DEF FailToConnect, Round
  <2>3. failed' \in SUBSET (Addrs \cup {None})
    BY <1>3 DEF FailToConnect
  <2> QED BY <1>3, <2>1, <2>2, <2>3 DEF FailToConnect
<1>4. CASE Connected
  BY <1>4 DEF Connected
<1>5. CASE BufferTruncated
  BY <1>5 DEF BufferTruncated
<1>6. CASE Answered
  BY <1>6 DEF Answered
<1>7. CASE ErrorWhileProxy
  <2>1. ctx' \in Ctx
    BY <1>7, <1>t DEF ErrorWhileProxy, Ctx
  <2>2. pc' \in {"select", "failed"}
    BY <1>7, Zenon DEF ErrorWhileProxy, Round
  <2> QED BY <1>7, <2>1, <2>2 DEF ErrorWhileProxy
<1>8. CASE UNCHANGED vars
  BY <1>8 DEF vars
<1> QED BY <1>1, <1>2, <1>3, <1>4, <1>5, <1>6, <1>7, <1>8 DEF Next

\* Requests begin well-typed.
LEMMA AttemptsTypeInit == Init => TypeOK
<1> SUFFICES ASSUME Init PROVE TypeOK
  OBVIOUS
<1>1. PICK n \in Starts :
         ctx = [attempts |-> 0, dns_failovers |-> 0, dns_attempts |-> 0,
                dns_candidates |-> 0, dns_start |-> n]
  BY DEF Init
<1>2. ctx \in Ctx
  BY <1>1, AttemptsConfig DEF Ctx
<1> QED BY <1>2, Zenon DEF Init, TypeOK

\* The request context, the loop and the history keep their types whatever the
\* callbacks decide.
THEOREM AttemptsTypeCorrect == Spec => []TypeOK
BY AttemptsTypeInit, AttemptsTypeStep, PTL DEF Spec

-----------------------------------------------------------------------------
\* A round is begun only while the whole body can be replayed.
LEMMA ReplayCorrect == Spec => []ReplayInv
<1>1. Init => ReplayInv
  BY DEF Init, ReplayInv
<1>2. TypeOK /\ ReplayInv /\ [Next]_vars => ReplayInv'
  <2> SUFFICES ASSUME TypeOK, ReplayInv, [Next]_vars PROVE ReplayInv'
    OBVIOUS
  <2> USE DEF ReplayInv
  <2>1. CASE NoPeer
    BY <2>1 DEF NoPeer
  <2>2. CASE UpstreamPeer
    BY <2>2 DEF UpstreamPeer, TypeOK
  <2>3. CASE FailToConnect
    BY <2>3 DEF FailToConnect
  <2>4. CASE Connected \/ BufferTruncated \/ Answered
    BY <2>4 DEF Connected, BufferTruncated, Answered
  <2>5. CASE ErrorWhileProxy
    \* Both Pingora's rule and should_retry ask for a replayable body.
    <3>1. pc' = "select" => replayable
      BY <2>5, Zenon DEF ErrorWhileProxy, Round, DecideReuse, ShouldRetryTransport, MayRetry
    <3>2. pc' # "connecting"
      BY <2>5 DEF ErrorWhileProxy, Round
    <3> QED BY <2>5, <3>1, <3>2 DEF ErrorWhileProxy
  <2>6. CASE UNCHANGED vars
    BY <2>6 DEF vars
  <2> QED BY <2>1, <2>2, <2>3, <2>4, <2>5, <2>6 DEF Next
<1> QED BY <1>1, <1>2, AttemptsTypeCorrect, PTL DEF Spec

\* No upstream receives a truncated body.
THEOREM NeverReplaysTruncated == Spec => []NoTruncatedReplay
<1>1. ReplayInv => NoTruncatedReplay
  BY DEF ReplayInv, NoTruncatedReplay
<1> QED BY <1>1, ReplayCorrect, PTL

-----------------------------------------------------------------------------
\* Every round beyond the first, and every delivery beyond the first, is paid for
\* by a counter that has a limit.
LEMMA BudgetCorrect == Spec => []BudgetInv
<1>1. Init => BudgetInv
  <2> SUFFICES ASSUME Init PROVE BudgetInv
    OBVIOUS
  <2>1. ctx.attempts = 0 /\ ctx.dns_failovers = 0 /\ ctx.dns_candidates = 0
    BY DEF Init
  <2>2. req.retry # None => req.retry.attempts \in Nat
    BY AttemptsConfig DEF Init, Policy
  <2> QED BY <2>1, <2>2, AttemptsConfig DEF Init, BudgetInv, Sending
<1>2. TypeOK /\ BudgetInv /\ [Next]_vars => BudgetInv'
  <2> SUFFICES ASSUME TypeOK, BudgetInv, [Next]_vars PROVE BudgetInv'
    OBVIOUS
  <2> USE DEF BudgetInv, Sending
  <2>t. /\ ctx \in Ctx /\ tries \in Nat /\ sent \in Nat /\ MaxAddrs \in Nat \ {0}
        /\ ctx.attempts \in Nat /\ ctx.dns_failovers \in Nat /\ ctx.dns_candidates \in Nat
        /\ (req.retry # None => req.retry.attempts \in Nat)
    BY AttemptsConfig DEF TypeOK, Ctx, Policy
  <2>1. CASE NoPeer
    BY <2>1, <2>t DEF NoPeer
  <2>2. CASE UpstreamPeer
    <3>1. PICK s \in Answers : ctx' = [ctx EXCEPT !.dns_candidates = Len(s)]
      BY <2>2 DEF UpstreamPeer
    <3>2. /\ ctx'.attempts = ctx.attempts /\ ctx'.dns_failovers = ctx.dns_failovers
          /\ ctx'.dns_candidates <= MaxAddrs
      BY <3>1, <2>t, AttemptsConfig DEF Ctx
    <3> QED BY <2>2, <3>2, <2>t DEF UpstreamPeer
  <2>3. CASE FailToConnect
    <3>1. pc = "connecting" /\ pc' \in {"select", "failed"} /\ req' = req
          /\ tries' = tries /\ sent' = sent
      BY <2>3, Zenon DEF FailToConnect, Round
    <3>2. CASE DnsFailover /\ ctx' = CountFailover(ctx)
      <4>1. /\ ctx'.attempts = ctx.attempts
            /\ ctx'.dns_failovers = ctx.dns_failovers + 1
            /\ ctx'.dns_candidates = ctx.dns_candidates
            /\ ctx.dns_failovers + 1 < ctx.dns_candidates
        BY <3>2, <2>t DEF DnsFailover, CountFailover, Ctx
      <4> QED BY <3>1, <4>1, <2>t
    <3>3. CASE /\ ShouldRetryConnect(req.retry, ctx.attempts)
               /\ ctx' = [ctx EXCEPT !.attempts = @ + 1, !.dns_attempts = @ + 1]
      <4>1. /\ ctx'.attempts = ctx.attempts + 1
            /\ ctx'.dns_failovers = ctx.dns_failovers
            /\ ctx'.dns_candidates = ctx.dns_candidates
        BY <3>3, <2>t DEF Ctx
      <4>2. req.retry # None /\ ctx.attempts < req.retry.attempts
        BY <3>3 DEF ShouldRetryConnect, MayRetry
      <4> QED BY <3>1, <4>1, <4>2, <2>t
    <3>4. CASE ctx' = ctx /\ pc' = "failed"
      BY <3>1, <3>4, <2>t
    <3> QED BY <2>3, <3>2, <3>3, <3>4 DEF FailToConnect, Round
  <2>4. CASE Connected \/ BufferTruncated \/ Answered
    BY <2>4, <2>t DEF Connected, BufferTruncated, Answered
  <2>5. CASE ErrorWhileProxy
    <3>1. pc = "proxying" /\ pc' \in {"select", "failed"} /\ req' = req
          /\ tries' = tries /\ sent' = sent
      BY <2>5, Zenon DEF ErrorWhileProxy, Round
    <3>2. CASE /\ ShouldRetryTransport(req.retry, ctx.attempts)
               /\ ctx' = [ctx EXCEPT !.attempts = @ + 1]
      <4>1. /\ ctx'.attempts = ctx.attempts + 1
            /\ ctx'.dns_failovers = ctx.dns_failovers
            /\ ctx'.dns_candidates = ctx.dns_candidates
        BY <3>2, <2>t DEF Ctx
      <4>2. /\ req.retry # None /\ ctx.attempts < req.retry.attempts
            /\ req.idempotent \/ req.retry.non_idempotent
        BY <3>2, Zenon DEF ShouldRetryTransport, MayRetry
      <4> QED BY <3>1, <4>1, <4>2, <2>t
    <3>3. CASE ctx' = ctx /\ (pc' = "failed" \/ req.retry = None)
      BY <3>1, <3>3, <2>t
    <3> QED BY <2>5, <3>2, <3>3, Zenon DEF ErrorWhileProxy, Round
  <2>6. CASE UNCHANGED vars
    BY <2>6 DEF vars
  <2> QED BY <2>1, <2>2, <2>3, <2>4, <2>5, <2>6 DEF Next
<1> QED BY <1>1, <1>2, AttemptsTypeCorrect, PTL DEF Spec

\* A request with a policy stays within its budget of rounds and of deliveries.
THEOREM WithinBudget == Spec => []AttemptBudget
<1>1. TypeOK /\ BudgetInv => AttemptBudget
  <2> SUFFICES ASSUME TypeOK, BudgetInv, req.retry # None
               PROVE  /\ tries <= req.retry.attempts + MaxAddrs
                      /\ sent <= 1 + req.retry.attempts
    BY DEF AttemptBudget
  <2>1. /\ tries \in Nat /\ sent \in Nat /\ MaxAddrs \in Nat \ {0}
        /\ ctx.attempts \in Nat /\ ctx.dns_failovers \in Nat
        /\ req.retry.attempts \in Nat
    BY AttemptsConfig DEF TypeOK, Ctx, Policy
  <2> QED BY <2>1 DEF BudgetInv, Sending
<1> QED BY <1>1, AttemptsTypeCorrect, BudgetCorrect, PTL

\* A request that must not be repeated is delivered at most once.
THEOREM DeliveredOnce == Spec => []NoDuplicateDelivery
<1>1. TypeOK /\ BudgetInv => NoDuplicateDelivery
  BY DEF TypeOK, BudgetInv, Sending, NoDuplicateDelivery
<1> QED BY <1>1, AttemptsTypeCorrect, BudgetCorrect, PTL

-----------------------------------------------------------------------------
(***************************************************************************)
(* The failover set                                                        *)
(***************************************************************************)

\* From any start, the n steps of a ring of n come by every place.
LEMMA RingCovers ==
    ASSUME NEW n \in Nat \ {0}, NEW start \in Nat, NEW j \in 0..(n - 1)
    PROVE  \E i \in 0..(n - 1) : (start + i) % n = j
<1> DEFINE s == start % n
           d == start \div n
<1>1. /\ s \in 0..(n - 1) /\ d \in Nat /\ start = n * d + s
  OBVIOUS
<1> HIDE DEF s, d
<1>2. ASSUME NEW q \in Nat PROVE (n * q + j) % n = j
  OBVIOUS
<1>3. CASE j >= s
  <2>1. j - s \in 0..(n - 1) /\ start + (j - s) = n * d + j
    BY <1>1, <1>3
  <2> QED BY <1>1, <1>2, <2>1
<1>4. CASE j < s
  <2>1. n * (d + 1) = n * d + n
    BY <1>1
  <2>2. n + j - s \in 0..(n - 1) /\ start + (n + j - s) = n * (d + 1) + j
    BY <1>1, <1>4, <2>1
  <2>3. (n * (d + 1) + j) % n = j
    <3>1. d + 1 \in Nat
      BY <1>1
    <3> QED BY <3>1, <1>2
  <2> QED BY <2>2, <2>3
<1> QED BY <1>1, <1>3, <1>4

\* Every address before the current one of the ring refused a connection, and the
\* counter that ends the failover does not run ahead of the place in the ring.
FailoverInv ==
    /\ ctx.dns_failovers <= ctx.dns_attempts
    /\ answer = <<>> => ctx.dns_attempts = 0
    /\ steady /\ answer # <<>> =>
          \A i \in Nat : i < ctx.dns_attempts =>
              ChooseDnsAddress(answer, ctx.dns_start, i) \in failed
    /\ pc = "connecting" =>
          /\ answer # <<>>
          /\ ctx.dns_candidates = Len(answer)
          /\ addr = ChooseDnsAddress(answer, ctx.dns_start, ctx.dns_attempts)

\* The failover set is walked in order, one address per failure.
LEMMA FailoverCorrect == Spec => []FailoverInv
<1>1. Init => FailoverInv
  <2> SUFFICES ASSUME Init PROVE FailoverInv
    OBVIOUS
  <2>1. ctx.dns_attempts = 0 /\ ctx.dns_failovers = 0
    BY DEF Init
  <2> QED BY <2>1 DEF Init, FailoverInv
<1>2. TypeOK /\ FailoverInv /\ [Next]_vars => FailoverInv'
  <2> SUFFICES ASSUME TypeOK, FailoverInv, [Next]_vars PROVE FailoverInv'
    OBVIOUS
  <2>t. /\ ctx \in Ctx /\ ctx.dns_failovers \in Nat /\ ctx.dns_attempts \in Nat
        /\ ctx.dns_start \in Nat /\ ctx.dns_candidates \in Nat
    BY DEF TypeOK, Ctx
  <2>1. CASE NoPeer \/ Connected \/ BufferTruncated \/ Answered
    BY <2>1 DEF NoPeer, Connected, BufferTruncated, Answered, FailoverInv
  <2>2. CASE UpstreamPeer
    <3>1. PICK x \in Answers :
            /\ answer' = x
            /\ ctx' = [ctx EXCEPT !.dns_candidates = Len(x)]
            /\ addr' = ChooseDnsAddress(x, ctx.dns_start, ctx.dns_attempts)
            /\ steady' = (steady /\ (answer = <<>> \/ answer = x))
      BY <2>2 DEF UpstreamPeer
    <3>2. /\ ctx'.dns_failovers = ctx.dns_failovers /\ ctx'.dns_attempts = ctx.dns_attempts
          /\ ctx'.dns_start = ctx.dns_start /\ ctx'.dns_candidates = Len(x)
      BY <3>1, <2>t DEF Ctx
    <3>3. x # <<>>
      BY AttemptsConfig
    <3>4. failed' = failed
      BY <2>2 DEF UpstreamPeer
    <3>5. ASSUME steady', NEW i \in Nat, i < ctx.dns_attempts
          PROVE  ChooseDnsAddress(x, ctx.dns_start, i) \in failed
      <4>0. steady /\ (answer = <<>> \/ answer = x)
        BY <3>1, <3>5, Zenon
      <4>1. answer = x /\ answer # <<>> /\ steady
        BY <3>5, <4>0, <2>t DEF FailoverInv
      <4> QED BY <3>5, <4>1 DEF FailoverInv
    <3> QED BY <3>1, <3>2, <3>3, <3>4, <3>5 DEF FailoverInv
  <2>3. CASE FailToConnect
    <3>1. /\ pc = "connecting" /\ pc' # "connecting" /\ failed' = failed \cup {addr}
          /\ answer' = answer /\ steady' = steady
      BY <2>3 DEF FailToConnect, Round
    <3>2. CASE ctx' = ctx
      BY <3>1, <3>2 DEF FailoverInv
    <3>3. CASE \/ ctx' = CountFailover(ctx)
               \/ ctx' = [ctx EXCEPT !.attempts = @ + 1, !.dns_attempts = @ + 1]
      <4>1. /\ ctx'.dns_attempts = ctx.dns_attempts + 1 /\ ctx'.dns_start = ctx.dns_start
            /\ ctx'.dns_failovers \in {ctx.dns_failovers, ctx.dns_failovers + 1}
        <5>1. CASE ctx' = CountFailover(ctx)
          BY <5>1, <2>t DEF CountFailover, Ctx
        <5>2. CASE ctx' = [ctx EXCEPT !.attempts = @ + 1, !.dns_attempts = @ + 1]
          BY <5>2, <2>t DEF Ctx
        <5> QED BY <3>3, <5>1, <5>2
      <4>2. ctx'.dns_failovers \in Nat
        BY <4>1, <2>t
      <4>3. ctx'.dns_failovers <= ctx'.dns_attempts
        BY <4>1, <4>2, <2>t DEF FailoverInv
      <4>4. ASSUME steady, NEW i \in Nat, i < ctx'.dns_attempts
            PROVE  ChooseDnsAddress(answer, ctx.dns_start, i) \in failed'
        <5>1. i < ctx.dns_attempts \/ i = ctx.dns_attempts
          BY <4>1, <4>4, <2>t
        <5> QED BY <3>1, <4>4, <5>1 DEF FailoverInv
      <4>5. answer # <<>>
        BY <3>1 DEF FailoverInv
      <4> QED BY <3>1, <4>1, <4>3, <4>4, <4>5 DEF FailoverInv
    <3> QED BY <2>3, <3>2, <3>3 DEF FailToConnect
  <2>4. CASE ErrorWhileProxy
    <3>1. /\ pc' # "connecting" /\ failed' = failed /\ answer' = answer /\ steady' = steady
      BY <2>4 DEF ErrorWhileProxy, Round
    <3>2. ctx' = ctx \/ ctx' = [ctx EXCEPT !.attempts = @ + 1]
      BY <2>4 DEF ErrorWhileProxy
    <3>3. /\ ctx'.dns_attempts = ctx.dns_attempts /\ ctx'.dns_start = ctx.dns_start
          /\ ctx'.dns_failovers = ctx.dns_failovers
      BY <3>2, <2>t DEF Ctx
    <3> QED BY <3>1, <3>3 DEF FailoverInv
  <2>5. CASE UNCHANGED vars
    BY <2>5 DEF vars, FailoverInv
  <2> QED BY <2>1, <2>2, <2>3, <2>4, <2>5 DEF Next
<1> QED BY <1>1, <1>2, AttemptsTypeCorrect, PTL DEF Spec

\* While the answer stays the same, a connect failure ends the request only after
\* every address of it refused.
THEOREM FailoverExhausts == Spec => FailoverTriesAll
<1>1. TypeOK /\ ReplayInv /\ FailoverInv /\ [Next]_vars =>
         [pc = "connecting" /\ pc' = "failed" /\ steady /\ tries < MaxTries =>
             \A i \in 1..Len(answer) : answer[i] \in failed']_vars
  <2> SUFFICES ASSUME TypeOK, ReplayInv, FailoverInv, Next, pc = "connecting", pc' = "failed",
                      steady, tries < MaxTries, NEW k \in 1..Len(answer)
               PROVE  answer[k] \in failed'
    OBVIOUS
  <2>t. /\ ctx.dns_failovers \in Nat /\ ctx.dns_attempts \in Nat /\ ctx.dns_start \in Nat
        /\ ctx.dns_candidates \in Nat
    BY DEF TypeOK, Ctx
  <2>1. FailToConnect
    BY DEF Next, NoPeer, UpstreamPeer, Connected, BufferTruncated, Answered, ErrorWhileProxy
  <2>2. /\ failed' = failed \cup {addr} /\ ~DnsFailover
    BY <2>1 DEF FailToConnect, Round
  <2>3. replayable
    BY DEF ReplayInv
  <2>4. /\ answer \in Answers /\ answer # <<>> /\ ctx.dns_candidates = Len(answer)
        /\ addr = ChooseDnsAddress(answer, ctx.dns_start, ctx.dns_attempts)
    BY DEF FailoverInv, TypeOK
  <2> DEFINE n == Len(answer)
  <2>5. n \in Nat \ {0}
    BY <2>4, AttemptsConfig
  <2>6. n <= ctx.dns_failovers + 1
    BY <2>2, <2>3, <2>4, <2>5, <2>t DEF DnsFailover
  <2>7. PICK i \in 0..(n - 1) : (ctx.dns_start + i) % n = k - 1
    <3>1. k - 1 \in 0..(n - 1)
      BY <2>5
    <3> QED BY <2>5, <2>t, <3>1, RingCovers
  <2>8. ChooseDnsAddress(answer, ctx.dns_start, i) = answer[k]
    BY <2>7 DEF ChooseDnsAddress
  <2>9. i \in Nat /\ (i < ctx.dns_attempts \/ i = ctx.dns_attempts)
    BY <2>5, <2>6, <2>7, <2>t DEF FailoverInv
  <2> QED BY <2>2, <2>4, <2>8, <2>9 DEF FailoverInv
<1> QED BY <1>1, AttemptsTypeCorrect, ReplayCorrect, FailoverCorrect, PTL
        DEF Spec, FailoverTriesAll

-----------------------------------------------------------------------------
(***************************************************************************)
(* The attempts inside an exchange                                         *)
(***************************************************************************)

\* What an exchange does to the attempts is a step of theirs, or nothing.
LEMMA ExchangeStep == ExchangeNext => [Next]_vars
<1> SUFFICES ASSUME ExchangeNext PROVE [Next]_vars
  OBVIOUS
<1>h. ASSUME NEW who, NEW addrs, HandOut(who, addrs) PROVE [Next]_vars
  BY <1>h DEF HandOut, Next
<1>1. CASE Tick \/ Repoint
  BY <1>1 DEF Tick, Repoint
<1>2. CASE Attempt
  BY <1>2 DEF Attempt, Next
<1>3. ASSUME NEW x \in Exchanges,
             Dispatch(x) \/ HeaderArrives(x) \/ Parse(x) \/ HeaderTimesOut(x)
                \/ StartHook(x) \/ HookEnds(x) \/ Judge(x)
      PROVE  [Next]_vars
  BY <1>3 DEF Dispatch, HeaderArrives, Parse, HeaderTimesOut, StartHook, HookEnds, Judge
<1>4. ASSUME NEW x \in Exchanges, Resolved(x) PROVE [Next]_vars
  BY <1>4, <1>h DEF Resolved
<1>5. ASSUME NEW x \in Exchanges, StartLookup(x) \/ BudgetExpires(x) PROVE [Next]_vars
  BY <1>5 DEF StartLookup, BudgetExpires
<1>6. ASSUME NEW l \in lookups, LookupAnswers(l) PROVE [Next]_vars
  BY <1>6, <1>h DEF LookupAnswers
<1>7. ASSUME NEW l \in lookups, LookupFails(l) PROVE [Next]_vars
  BY <1>7 DEF LookupFails, Next
<1> QED BY <1>1, <1>2, <1>3, <1>4, <1>5, <1>6, <1>7 DEF ExchangeNext

\* With the clocks, the hooks and the resolver around them, the attempts of a
\* request are still the attempts of UpstreamAttempts.
THEOREM ExchangeMakesAttempts == ExchangeSpec => Spec
<1>1. ExchangeInit => Init
  BY DEF ExchangeInit
<1>2. [ExchangeNext]_<<vars, exVars>> => [Next]_vars
  BY ExchangeStep
<1> QED BY <1>1, <1>2, PTL DEF ExchangeSpec, Spec

\* So every promise about the attempts holds of them, whatever the resolver answers
\* and the deadlines cut off.
THEOREM ExchangeKeepsPromises ==
    ExchangeSpec => /\ [](NoDuplicateDelivery /\ AttemptBudget /\ NoTruncatedReplay)
                    /\ FailoverTriesAll
BY ExchangeMakesAttempts, DeliveredOnce, WithinBudget, NeverReplaysTruncated,
   FailoverExhausts, PTL

-----------------------------------------------------------------------------
(***************************************************************************)
(* The clocks                                                              *)
(***************************************************************************)

\* A hook's limit is never later than the chain's, and no exchange went on past the
\* chain's.
TaskInv(x) ==
    /\ ex[x].stage \in {"hook", "judge"} => ex[x].limit <= ex[x].chain
    /\ ~ex[x].overran

\* The record is current, a lookup saw what was current when it began, has not been
\* under way for too long and has a leader, and an entry was current a lookup before
\* it was stored.
LookupInv(l) ==
    /\ l.since <= clock /\ clock <= l.since + LookupTimeout
    /\ l.seen # <<>> => l.since <= current[l.seen]
    /\ l.lead \in l.joined

\* An entry was current at most one lookup before it was stored.
EntryInv ==
    cache # None => /\ cache.at <= clock
                    /\ cache.at <= current[cache.addrs] + LookupTimeout

\* What every step of an exchange, a lookup or the clock preserves.
ExchangeInv ==
    /\ \A x \in Exchanges : TaskInv(x)
    /\ record # <<>> => current[record] = clock
    /\ \A l \in lookups : LookupInv(l)
    /\ EntryInv

\* A task that may follow.
Sound(task) ==
    /\ task \in Task
    /\ task.stage \in {"hook", "judge"} => task.limit <= task.chain
    /\ ~task.overran

\* What a step of an exchange preserves.
Tasks == ex \in [Exchanges -> Task] /\ \A x \in Exchanges : TaskInv(x)

\* A task that becomes a sound one.
LEMMA BecomesSound ==
    ASSUME Tasks, NEW x \in Exchanges, NEW task, Sound(task), Becomes(x, task)
    PROVE  Tasks'
BY DEF Tasks, TaskInv, Sound, Becomes

\* An exchange that is over, and one on its way to the upstream.
LEMMA EndsSound ==
    ASSUME Tasks, ExchangeTypeOK, NEW x \in Exchanges
    PROVE  Sound(Ended) /\ Sound(Upstream(x, FALSE))
<1>1. Sound(Ended)
  BY DEF Sound, Ended, NewTask, Task, Stages
<1>2. (IF cfg.total = None THEN 0 ELSE ex[x].start) \in Nat
  BY DEF Tasks, Task
<1>3. Sound(Upstream(x, FALSE))
  BY <1>2 DEF Sound, Upstream, NewTask, Task, Stages
<1> QED BY <1>1, <1>3

\* An exchange's own steps, up to the upstream.
LEMMA TaskStep ==
    ASSUME ExchangeTypeOK, Tasks, NEW x \in Exchanges,
           Dispatch(x) \/ HeaderArrives(x) \/ Parse(x) \/ HeaderTimesOut(x)
              \/ StartHook(x) \/ HookEnds(x) \/ Judge(x)
    PROVE  Tasks'
<1>t. /\ ex[x] \in Task /\ clock \in Nat /\ ChainBudget \in Nat /\ HookBudget \in Nat
      /\ ex[x].chain \in Nat /\ ex[x].limit \in Nat /\ ex[x].done \in Nat
      /\ ex[x].arrived \in BOOLEAN /\ ~ex[x].overran
  BY ExchangeConfig DEF Tasks, TaskInv, Task, ExchangeTypeOK
<1>e. Sound(Ended) /\ Sound(Upstream(x, FALSE))
  BY EndsSound
<1>1. CASE Dispatch(x)
  <2>1. Sound([NewTask EXCEPT !.stage = "header", !.start = clock])
    BY <1>t DEF Sound, NewTask, Task, Stages
  <2> QED BY <1>1, <2>1, BecomesSound DEF Dispatch
<1>2. CASE HeaderArrives(x)
  <2>1. Sound([ex[x] EXCEPT !.arrived = TRUE])
    BY <1>2, <1>t DEF Sound, Task, HeaderArrives
  <2> QED BY <1>2, <2>1, BecomesSound DEF HeaderArrives
<1>3. CASE Parse(x)
  <2>1. Sound([ex[x] EXCEPT !.stage = "chain", !.arrived = FALSE, !.chain = clock + ChainBudget])
    <3>1. clock + ChainBudget \in Nat
      BY <1>t
    <3> QED BY <3>1, <1>t DEF Sound, Task, Stages
  <2> QED BY <1>3, <1>e, <2>1, BecomesSound DEF Parse
<1>4. CASE HeaderTimesOut(x)
  BY <1>4, <1>e, BecomesSound DEF HeaderTimesOut
<1>5. CASE StartHook(x)
  <2>1. /\ HookLimit(ex[x].chain) \in Nat
        /\ HookLimit(ex[x].chain) <= ex[x].chain
    BY <1>t DEF HookLimit, MinOf
  <2>2. Sound([ex[x] EXCEPT !.stage = "hook", !.limit = HookLimit(ex[x].chain)])
    BY <2>1, <1>t DEF Sound, Task, Stages
  <2> QED BY <1>5, <1>e, <2>2, BecomesSound DEF StartHook
<1>6. CASE HookEnds(x)
  <2>1. PICK result \in {"ok", "rejected", "elapsed"} :
          Becomes(x, [ex[x] EXCEPT !.stage = "judge", !.outcome = result])
    BY <1>6 DEF HookEnds
  <2>2. ex[x].limit <= ex[x].chain
    BY <1>6 DEF HookEnds, Tasks, TaskInv
  <2>3. Sound([ex[x] EXCEPT !.stage = "judge", !.outcome = result])
    BY <2>2, <1>t DEF Sound, Task, Stages
  <2> QED BY <2>1, <2>3, BecomesSound
<1>7. CASE Judge(x)
  <2>1. ex[x].limit <= ex[x].chain
    BY <1>7 DEF Judge, Tasks, TaskInv
  \* What passed was looked at before the hook's limit, hence before the chain's.
  <2>2. clock < ex[x].limit => (clock >= ex[x].chain) = FALSE
    BY <2>1, <1>t
  <2>3. Sound([ex[x] EXCEPT !.stage = "chain", !.done = @ + 1, !.limit = 0, !.outcome = "none"])
    <3>1. ex[x].done + 1 \in Nat
      BY <1>t
    <3> QED BY <3>1, <1>t DEF Sound, Task, Stages
  <2>4. CASE clock < ex[x].limit /\ Becomes(x, Upstream(x, clock >= ex[x].chain))
    BY <2>2, <2>4, <1>e, BecomesSound
  <2>5. CASE Becomes(x, [ex[x] EXCEPT !.stage = "chain", !.done = @ + 1,
                                      !.limit = 0, !.outcome = "none"])
    BY <2>3, <2>5, BecomesSound
  <2>6. CASE Becomes(x, Ended)
    BY <2>6, <1>e, BecomesSound
  <2>7. ~(clock >= ex[x].limit) => clock < ex[x].limit
    BY <1>t
  <2> QED BY <1>7, <2>4, <2>5, <2>6, <2>7 DEF Judge
<1> QED BY <1>1, <1>2, <1>3, <1>4, <1>5, <1>6, <1>7

\* The end of some exchanges.
LEMMA EndingKeeps ==
    ASSUME ExchangeTypeOK, Tasks, NEW who,
           ex' = [x \in Exchanges |-> IF x \in who THEN Ended ELSE ex[x]]
    PROVE  Tasks'
<1>1. \A x \in Exchanges : Sound(Ended)
  BY EndsSound
<1> QED BY <1>1 DEF Tasks, TaskInv, Sound

\* Every step of an exchange keeps the tasks sound.
LEMMA TasksStep ==
    ASSUME ExchangeTypeOK, Tasks, [ExchangeNext]_<<vars, exVars>>
    PROVE  Tasks'
<1>s. ex' = ex => Tasks'
  BY DEF Tasks, TaskInv
<1>h. ASSUME NEW who, NEW addrs, HandOut(who, addrs) PROVE Tasks'
  <2>1. ex' = [x \in Exchanges |-> IF x \in who \ {Main} THEN Ended ELSE ex[x]]
    BY <1>h DEF HandOut
  <2> DEFINE others == who \ {Main}
  <2>2. ex' = [x \in Exchanges |-> IF x \in others THEN Ended ELSE ex[x]]
    BY <2>1
  <2> HIDE DEF others
  <2> QED BY <2>2, EndingKeeps
<1>1. CASE Tick \/ Repoint
  BY <1>1, <1>s DEF Tick, Repoint
<1>2. CASE Attempt
  <2>1. Main \in Exchanges
    BY ExchangeConfig
  <2>2. CASE ex' = [ex EXCEPT ![Main] = Ended]
    BY <2>1, <2>2, EndsSound, BecomesSound DEF Becomes
  <2> QED BY <1>2, <1>s, <2>2 DEF Attempt
<1>3. ASSUME NEW x \in Exchanges,
             Dispatch(x) \/ HeaderArrives(x) \/ Parse(x) \/ HeaderTimesOut(x)
                \/ StartHook(x) \/ HookEnds(x) \/ Judge(x)
      PROVE  Tasks'
  BY <1>3, TaskStep
<1>4. ASSUME NEW x \in Exchanges, Resolved(x) PROVE Tasks'
  BY <1>4, <1>h DEF Resolved
<1>5. ASSUME NEW x \in Exchanges, StartLookup(x) PROVE Tasks'
  BY <1>5, <1>s DEF StartLookup
<1>6. ASSUME NEW x \in Exchanges, BudgetExpires(x) PROVE Tasks'
  BY <1>6, EndsSound, BecomesSound DEF BudgetExpires
<1>7. ASSUME NEW l \in lookups, LookupAnswers(l) PROVE Tasks'
  BY <1>7, <1>h DEF LookupAnswers
<1>8. ASSUME NEW l \in lookups, LookupFails(l) PROVE Tasks'
  <2>1. ex' = [x \in Exchanges |-> IF x \in l.joined THEN Ended ELSE ex[x]]
    BY <1>8 DEF LookupFails
  <2> QED BY <2>1, EndingKeeps
<1>9. CASE UNCHANGED <<vars, exVars>>
  BY <1>9, <1>s DEF exVars
<1> QED BY <1>1, <1>2, <1>3, <1>4, <1>5, <1>6, <1>7, <1>8, <1>9 DEF ExchangeNext

\* What the resolver keeps, and the clock it is measured by.
Names ==
    /\ clock \in 0..MaxTime
    /\ cfg \in Settings
    /\ record \in Answers \cup {<<>>}
    /\ cache = None \/ cache \in [addrs: Answers, at: 0..MaxTime]
    /\ lookups \subseteq Lookup
    /\ repoints \in Nat
    /\ current \in [Answers -> -1..MaxTime]
    /\ record # <<>> => current[record] = clock
    /\ \A l \in lookups : LookupInv(l)
    /\ EntryInv

\* A lookup begun now.
LEMMA FreshLookup ==
    ASSUME Names, NEW x \in Exchanges, NEW who \in SUBSET Exchanges, x \in who
    PROVE  LET l == [lead |-> x, since |-> clock, seen |-> record, joined |-> who]
           IN  l \in Lookup /\ LookupInv(l)
<1>1. clock \in Nat /\ LookupTimeout \in Nat
  BY ExchangeConfig DEF Names
<1> QED BY <1>1 DEF Names, Lookup, LookupInv

\* Time, the record, the lookups and the cache keep one another's promises: only
\* the record's own past is ever handed out or stored.
LEMMA NamesStep ==
    ASSUME Names, [ExchangeNext]_<<vars, exVars>>
    PROVE  Names'
<1>t. /\ clock \in Nat /\ MaxTime \in Nat /\ LookupTimeout \in Nat /\ clock <= MaxTime
      /\ \A s \in Answers : current[s] \in Int
      /\ \A l \in lookups : l \in Lookup /\ l.since \in Nat
      /\ <<>> \notin Answers
  BY ExchangeConfig, AttemptsConfig DEF Names, Lookup
<1>s. UNCHANGED <<clock, cfg, record, cache, lookups, repoints, current>> => Names'
  BY DEF Names, LookupInv, EntryInv
<1>l. ASSUME UNCHANGED <<clock, cfg, record, cache, repoints, current>>,
             \A l \in lookups' : l \in Lookup /\ LookupInv(l)
      PROVE  Names'
  BY <1>l DEF Names, LookupInv, EntryInv
<1>1. CASE Tick
  <2>1. clock' = clock + 1 /\ clock' \in 0..MaxTime /\ UNCHANGED <<cfg, record, cache, lookups, repoints>>
    BY <1>1, <1>t DEF Tick
  <2>2. /\ current' \in [Answers -> -1..MaxTime]
        /\ record # <<>> => current'[record] = clock'
        /\ \A s \in Answers : current'[s] >= current[s] \/ current'[s] = clock'
    BY <1>1, <1>t, <2>1 DEF Tick, Names
  <2>3. ASSUME NEW l \in lookups PROVE LookupInv(l)'
    <3>1. LookupInv(l) /\ l \in Lookup /\ clock < l.since + LookupTimeout
      BY <1>1, <1>t DEF Tick, LookupDue, Names
    <3>2. l.seen # <<>> => l.since <= current'[l.seen]
      <4> SUFFICES ASSUME l.seen # <<>> PROVE l.since <= current'[l.seen]
        OBVIOUS
      <4>1. l.seen \in Answers /\ l.since <= current[l.seen] /\ l.since <= clock
        BY <3>1 DEF Lookup, LookupInv
      <4>2. current'[l.seen] \in Int
        BY <2>2, <4>1
      <4> QED BY <1>t, <2>1, <2>2, <4>1, <4>2
    <3> QED BY <1>t, <2>1, <3>1, <3>2 DEF LookupInv
  <2>4. EntryInv'
    <3> SUFFICES ASSUME cache # None PROVE cache.at <= clock' /\ cache.at <= current'[cache.addrs] + LookupTimeout
      BY <2>1 DEF EntryInv
    <3>1. cache.addrs \in Answers /\ cache.at \in Nat
          /\ cache.at <= clock /\ cache.at <= current[cache.addrs] + LookupTimeout
      BY DEF Names, EntryInv
    <3>2. current'[cache.addrs] \in Int
      BY <2>2, <3>1
    <3> QED BY <1>t, <2>1, <2>2, <3>1, <3>2
  <2> QED BY <2>1, <2>2, <2>3, <2>4 DEF Names
<1>2. CASE Repoint
  <2>1. /\ UNCHANGED <<clock, cfg, cache, lookups>>
        /\ repoints' \in Nat
        /\ record' \in Answers \cup {<<>>}
        /\ current' = [s \in Answers |-> IF s \in {record, record'} THEN clock ELSE current[s]]
    BY <1>2 DEF Repoint, Names
  <2>2. /\ current' \in [Answers -> -1..MaxTime]
        /\ record' # <<>> => current'[record'] = clock
        /\ \A s \in Answers : current'[s] = current[s] \/ current'[s] = clock
    BY <1>t, <2>1 DEF Names
  <2>3. ASSUME NEW l \in lookups PROVE LookupInv(l)'
    <3>1. LookupInv(l) /\ l \in Lookup
      BY DEF Names
    <3>2. l.seen # <<>> => l.seen \in Answers
      BY <3>1 DEF Lookup
    <3> QED BY <1>t, <2>1, <2>2, <3>1, <3>2 DEF LookupInv
  <2>4. EntryInv'
    <3> SUFFICES ASSUME cache # None PROVE cache.at <= clock /\ cache.at <= current'[cache.addrs] + LookupTimeout
      BY <2>1 DEF EntryInv
    <3>1. cache.addrs \in Answers /\ cache.at \in Nat
          /\ cache.at <= clock /\ cache.at <= current[cache.addrs] + LookupTimeout
      BY DEF Names, EntryInv
    <3> QED BY <1>t, <2>2, <3>1
  <2> QED BY <2>1, <2>2, <2>3, <2>4 DEF Names
<1>3. CASE Attempt
  BY <1>3, <1>s DEF Attempt
<1>4. ASSUME NEW x \in Exchanges,
             Dispatch(x) \/ HeaderArrives(x) \/ Parse(x) \/ HeaderTimesOut(x)
                \/ StartHook(x) \/ HookEnds(x) \/ Judge(x)
      PROVE  Names'
  BY <1>4, <1>s DEF Dispatch, HeaderArrives, Parse, HeaderTimesOut, StartHook, HookEnds, Judge
<1>5. ASSUME NEW x \in Exchanges, Resolved(x) PROVE Names'
  BY <1>5, <1>s DEF Resolved, AfterHit
<1>6. ASSUME NEW x \in Exchanges, StartLookup(x) PROVE Names'
  <2>1. CASE lookups' = {[l EXCEPT !.joined = @ \cup {x}] : l \in lookups}
    <3>1. ASSUME NEW l \in lookups
          PROVE  LET j == [l EXCEPT !.joined = @ \cup {x}] IN j \in Lookup /\ LookupInv(j)
      BY <1>t DEF Names, LookupInv, Lookup
    <3> QED BY <1>6, <1>l, <2>1, <3>1 DEF StartLookup
  <2>2. CASE lookups' = lookups \cup
                {[lead |-> x, since |-> clock, seen |-> record, joined |-> {x}]}
    <3>1. LET l == [lead |-> x, since |-> clock, seen |-> record, joined |-> {x}]
          IN  l \in Lookup /\ LookupInv(l)
      BY FreshLookup
    <3>2. \A l \in lookups : l \in Lookup /\ LookupInv(l)
      BY DEF Names
    <3> QED BY <1>6, <1>l, <2>2, <3>1, <3>2 DEF StartLookup
  <2> QED BY <1>6, <2>1, <2>2 DEF StartLookup
<1>7. ASSUME NEW x \in Exchanges, BudgetExpires(x) PROVE Names'
  <2>1. ASSUME NEW l \in lookups, l.joined # {x}, l.lead # x
        PROVE  LET j == [l EXCEPT !.joined = @ \ {x}] IN j \in Lookup /\ LookupInv(j)
    BY <2>1, <1>t DEF Names, LookupInv, Lookup
  <2>2. ASSUME NEW l \in lookups, l.joined # {x}, l.lead = x
        PROVE  LET j == [lead |-> CHOOSE y \in l.joined \ {x} : TRUE, since |-> clock,
                         seen |-> record, joined |-> l.joined \ {x}]
               IN  j \in Lookup /\ LookupInv(j)
    <3> DEFINE y == CHOOSE y \in l.joined \ {x} : TRUE
               who == l.joined \ {x}
    <3>1. who \in SUBSET Exchanges /\ who # {}
      BY <2>2, <1>t DEF Names, LookupInv, Lookup
    <3>2. y \in who
      BY <3>1
    <3>3. y \in Exchanges
      BY <3>1, <3>2
    <3> HIDE DEF y, who
    <3>4. LET j == [lead |-> y, since |-> clock, seen |-> record, joined |-> who]
          IN  j \in Lookup /\ LookupInv(j)
      BY <3>1, <3>2, <3>3, FreshLookup
    <3> QED BY <3>4 DEF y, who
  <2>3. \A l \in lookups' : l \in Lookup /\ LookupInv(l)
    BY <1>7, <2>1, <2>2 DEF BudgetExpires, Without
  <2> QED BY <1>7, <1>l, <2>3 DEF BudgetExpires
<1>8. ASSUME NEW l \in lookups, LookupAnswers(l) PROVE Names'
  <2>1. PICK addrs \in {l.seen, record} \ {<<>>} :
          cache' = IF cfg.ttl = 0 THEN None ELSE [addrs |-> addrs, at |-> clock]
    BY <1>8 DEF LookupAnswers
  <2>2. /\ lookups' = lookups \ {l}
        /\ UNCHANGED <<clock, cfg, record, repoints, current>>
    BY <1>8 DEF LookupAnswers
  <2>3. LookupInv(l) /\ l \in Lookup /\ l.since \in Nat
    BY <1>t DEF Names
  <2>4. addrs \in Answers
    BY <2>1, <2>3 DEF Names, Lookup
  <2>5. clock <= current[addrs] + LookupTimeout
    <3>1. addrs = record => current[addrs] = clock
      BY <2>1 DEF Names
    <3>2. addrs = l.seen => l.since <= current[addrs] /\ clock <= l.since + LookupTimeout
      BY <2>1, <2>3 DEF LookupInv
    <3> QED BY <1>t, <2>1, <2>3, <2>4, <3>1, <3>2
  <2>6. EntryInv'
    BY <1>t, <2>1, <2>2, <2>5 DEF EntryInv
  <2>7. cache' = None \/ cache' \in [addrs: Answers, at: 0..MaxTime]
    BY <1>t, <2>1, <2>4
  <2>8. \A m \in lookups' : LookupInv(m)'
    BY <2>2 DEF Names, LookupInv
  <2> QED BY <2>2, <2>6, <2>7, <2>8 DEF Names
<1>9. ASSUME NEW l \in lookups, LookupFails(l) PROVE Names'
  BY <1>9, <1>l DEF LookupFails, Names
<1>10. CASE UNCHANGED <<vars, exVars>>
  BY <1>10, <1>s DEF exVars
<1> QED BY <1>1, <1>2, <1>3, <1>4, <1>5, <1>6, <1>7, <1>8, <1>9, <1>10 DEF ExchangeNext

\* The tasks and the resolver make up the types and the invariant.
LEMMA ExchangeParts == (ExchangeTypeOK /\ ExchangeInv) <=> (TypeOK /\ Tasks /\ Names)
BY DEF ExchangeTypeOK, ExchangeInv, Tasks, Names

\* The clocks' invariant holds throughout.
LEMMA ExchangeCorrect == ExchangeSpec => [](ExchangeTypeOK /\ ExchangeInv)
<1>1. ExchangeInit => TypeOK /\ Tasks /\ Names
  <2> SUFFICES ASSUME ExchangeInit, TypeOK PROVE Tasks /\ Names
    BY AttemptsTypeInit DEF ExchangeInit
  <2>1. NewTask \in Task
    BY DEF NewTask, Task, Stages
  <2>2. Tasks
    BY <2>1 DEF ExchangeInit, Tasks, TaskInv, NewTask
  <2>3. /\ cfg \in Settings /\ repoints \in Nat /\ 0 \in 0..MaxTime /\ clock \in 0..MaxTime
        /\ 0 \in -1..MaxTime /\ -1 \in -1..MaxTime
    BY ExchangeConfig DEF ExchangeInit
  <2>4. Names
    BY <2>3 DEF ExchangeInit, Names, LookupInv, EntryInv
  <2> QED BY <2>2, <2>4
<1>2. TypeOK /\ Tasks /\ Names /\ [ExchangeNext]_<<vars, exVars>> => (TypeOK /\ Tasks /\ Names)'
  <2> SUFFICES ASSUME TypeOK, Tasks, Names, [ExchangeNext]_<<vars, exVars>>
               PROVE  (TypeOK /\ Tasks /\ Names)'
    OBVIOUS
  <2>1. ExchangeTypeOK
    BY ExchangeParts
  <2>2. TypeOK'
    BY ExchangeStep, AttemptsTypeStep
  <2> QED BY <2>1, <2>2, TasksStep, NamesStep
<1>3. ExchangeSpec => [](TypeOK /\ Tasks /\ Names)
  BY <1>1, <1>2, PTL DEF ExchangeSpec
<1> QED BY <1>3, ExchangeParts, PTL

\* Exchanges, timers, lookups and the resolver's entry keep their types.
THEOREM ExchangeTypeCorrect == ExchangeSpec => []ExchangeTypeOK
BY ExchangeCorrect, PTL

\* No request goes on to its upstream after the budget of its chain of hooks, for
\* any budgets: a hook's limit is capped by the chain's, and the clock is read
\* again once the hook has returned.
THEOREM PolicyWithinBudget == ExchangeSpec => []PolicyInBudget
<1>1. ExchangeInv => PolicyInBudget
  BY DEF ExchangeInv, TaskInv, PolicyInBudget
<1> QED BY <1>1, ExchangeCorrect, PTL

\* A round that is given several addresses got an answer that was the record's at
\* most a TTL and a lookup ago, for any TTL, lookup timeout and number of waiters:
\* a cached entry is as old as its TTL allows and was a lookup old when stored.
THEOREM RoundsGetFreshAddresses == ExchangeSpec => AddressesFresh
<1> DEFINE Fresh == pc = "select" /\ pc' = "connecting" /\ Len(answer') > 1 =>
                       clock - current[answer'] <= cfg.ttl + LookupTimeout
<1>1. TypeOK /\ Tasks /\ Names /\ [ExchangeNext]_<<vars, exVars>> => [Fresh]_vars
  <2> SUFFICES ASSUME Names, ExchangeNext, pc = "select", pc' = "connecting",
                      Len(answer') > 1
               PROVE  clock - current[answer'] <= cfg.ttl + LookupTimeout
    BY DEF exVars, vars
  <2>t. /\ clock \in Nat /\ LookupTimeout \in Nat /\ cfg.ttl \in Nat
        /\ \A s \in Answers : current[s] \in Int
    BY ExchangeConfig DEF Names
  <2>1. CASE Tick \/ Repoint \/ Attempt
    BY <2>1 DEF Tick, Repoint, Attempt, vars, FailToConnect, Connected, BufferTruncated,
                Answered, ErrorWhileProxy
  <2>2. ASSUME NEW x \in Exchanges,
               Dispatch(x) \/ HeaderArrives(x) \/ Parse(x) \/ HeaderTimesOut(x)
                  \/ StartHook(x) \/ HookEnds(x) \/ Judge(x) \/ StartLookup(x)
                  \/ BudgetExpires(x)
        PROVE  FALSE
    BY <2>2 DEF Dispatch, HeaderArrives, Parse, HeaderTimesOut, StartHook, HookEnds, Judge,
                StartLookup, BudgetExpires, vars
  <2>3. ASSUME NEW x \in Exchanges, Resolved(x)
        PROVE  clock - current[answer'] <= cfg.ttl + LookupTimeout
    <3>1. CASE Hit /\ HandOut({x}, cache.addrs)
      <4>1. answer' = cache.addrs
        BY <3>1 DEF HandOut, vars
      <4>2. /\ cache.addrs \in Answers /\ cache.at \in Nat /\ clock < cache.at + cfg.ttl
            /\ cache.at <= current[cache.addrs] + LookupTimeout
        BY <3>1 DEF Hit, Names, EntryInv
      <4> QED BY <2>t, <4>1, <4>2
    <3>2. ASSUME NEW s \in Answers, Len(s) = 1, HandOut({x}, s) PROVE FALSE
      <4>1. answer' = s
        BY <3>2 DEF HandOut, vars
      <4>2. Len(answer') = 1
        BY <3>2, <4>1, Zenon
      <4> QED BY <4>2
    <3> QED BY <2>3, <3>1, <3>2 DEF Resolved
  <2>4. ASSUME NEW l \in lookups, LookupAnswers(l)
        PROVE  clock - current[answer'] <= cfg.ttl + LookupTimeout
    <3>1. PICK addrs \in {l.seen, record} \ {<<>>} : HandOut(l.joined, addrs)
      BY <2>4 DEF LookupAnswers
    <3>2. answer' = addrs
      BY <3>1 DEF HandOut, vars
    <3>3. LookupInv(l) /\ l \in Lookup /\ l.since \in Nat
      BY DEF Names, Lookup
    <3>4. addrs \in Answers
      BY <3>1, <3>3 DEF Names, Lookup
    <3>5. addrs = record => current[addrs] = clock
      BY <3>1 DEF Names
    <3>6. addrs = l.seen => l.since <= current[addrs] /\ clock <= l.since + LookupTimeout
      BY <3>1, <3>3 DEF LookupInv
    <3> QED BY <2>t, <3>1, <3>2, <3>3, <3>4, <3>5, <3>6
  <2>5. ASSUME NEW l \in lookups, LookupFails(l) PROVE FALSE
    BY <2>5 DEF LookupFails, NoPeer, vars
  <2> QED BY <2>1, <2>2, <2>3, <2>4, <2>5 DEF ExchangeNext
<1>2. TypeOK /\ Tasks /\ Names <=> ExchangeTypeOK /\ ExchangeInv
  BY ExchangeParts
<1> QED BY <1>1, <1>2, ExchangeCorrect, PTL DEF ExchangeSpec, AddressesFresh

=============================================================================
