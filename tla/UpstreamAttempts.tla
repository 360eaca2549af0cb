-------------------------- MODULE UpstreamAttempts --------------------------
(***************************************************************************)
(* The attempts Pingora and the gateway make for one request to reach its  *)
(* upstream: upstream_peer picks an address, fail_to_connect and           *)
(* error_while_proxy (src/crates/lagos-core/src/proxy.rs) decide whether   *)
(* Pingora tries again, by the route's retry policy (retry.rs).            *)
(*                                                                         *)
(* Pingora's loop is external and modelled from how the callbacks use it:  *)
(* it calls upstream_peer, dials or reuses a pooled connection, and after  *)
(* a failure starts over when the error says `retry` and fewer than        *)
(* MaxTries rounds were made.                                              *)
(***************************************************************************)
EXTENDS Naturals, Sequences

CONSTANTS
    Addrs,        \* socket addresses
    Answers,      \* what name resolution can return; a pool member is a
                  \* one-address answer, since the balancer picked it
    MaxAddrs,     \* the longest of them
    Retries,      \* the retry policies of the routes
    Starts,       \* values of the rotating counter dns_next
    MaxTries,     \* Pingora's own bound on the rounds of one request
    None          \* the absent Option: no retry policy, no address yet

Policy == [attempts: Nat, on_connect: BOOLEAN, on_transport: BOOLEAN,
           non_idempotent: BOOLEAN]

ASSUME AttemptsConfig ==
    /\ Answers \subseteq Seq(Addrs)
    /\ MaxAddrs \in Nat \ {0}
    /\ \A s \in Answers : Len(s) \in 1..MaxAddrs
    /\ Retries \subseteq Policy
    /\ None \notin Policy
    /\ Starts \subseteq Nat
    /\ MaxTries \in Nat \ {0}

VARIABLES
    req,     \* the request: [idempotent, retry]
    ctx,     \* the request context's counters
    pc,      \* select -> connecting -> proxying -> done, or back to select
    tries,   \* rounds of Pingora's loop begun
    replayable,  \* the body read so far is still in Pingora's retry buffer
    answer,  \* the addresses the last upstream_peer saw
    addr,    \* the address it chose
    \* History variables.
    sent,    \* rounds in which the request went out on a connection
    cut,     \* a round began with part of the body no longer replayable
    failed,  \* addresses that refused a connection
    steady   \* every upstream_peer so far saw the same answer

vars == <<req, ctx, pc, tries, replayable, answer, addr, sent, cut, failed, steady>>

Ctx == [attempts: Nat, dns_failovers: Nat, dns_attempts: Nat,
        dns_candidates: Nat, dns_start: Nat]

TypeOK ==
    /\ req \in [idempotent: BOOLEAN, retry: Retries \cup {None}]
    /\ ctx \in Ctx
    /\ pc \in {"select", "connecting", "proxying", "answered", "failed"}
    /\ tries \in Nat
    /\ replayable \in BOOLEAN
    /\ answer \in Answers \cup {<<>>}
    /\ addr \in Addrs \cup {None}
    /\ sent \in Nat
    /\ cut \in BOOLEAN
    /\ failed \in SUBSET (Addrs \cup {None})
    /\ steady \in BOOLEAN

Init ==
    /\ req \in [idempotent: BOOLEAN, retry: Retries \cup {None}]
    /\ \E n \in Starts :
          ctx = [attempts |-> 0, dns_failovers |-> 0, dns_attempts |-> 0,
                 dns_candidates |-> 0, dns_start |-> n]
    /\ pc = "select"
    /\ tries = 0
    /\ replayable = TRUE
    /\ answer = <<>>
    /\ addr = None
    /\ sent = 0
    /\ cut = FALSE
    /\ failed = {}
    /\ steady = TRUE

-----------------------------------------------------------------------------
\* Policy::should_retry.
MayRetry(p, made) == p # None /\ made < p.attempts /\ replayable

ShouldRetryConnect(p, made) == MayRetry(p, made) /\ p.on_connect

\* Faulty variant: the method is not looked at.
RetryAnyMethod(p, made) == MayRetry(p, made) /\ p.on_transport

ShouldRetryTransport(p, made) ==
    /\ MayRetry(p, made)
    /\ p.on_transport
    /\ p.non_idempotent \/ req.idempotent

\* Faulty variant: always the first address from the rotation's start.
ChooseAlwaysStart(addrs, start, n) == addrs[(start % Len(addrs)) + 1]

\* choose_dns_address: the answer read as a ring, from `start`.
ChooseDnsAddress(addrs, start, n) == addrs[((start + n) % Len(addrs)) + 1]

-----------------------------------------------------------------------------
\* upstream_peer: a pool with no healthy backend or a name that does not resolve
\* ends the request; nothing was sent.
NoPeer ==
    /\ pc = "select"
    /\ pc' = "failed"
    /\ UNCHANGED <<req, ctx, tries, replayable, answer, addr, sent, cut, failed, steady>>

UpstreamPeer ==
    /\ pc = "select"
    /\ pc' = "connecting"
    /\ tries' = tries + 1
    /\ cut' = (cut \/ ~replayable)
    /\ \E s \in Answers :
          /\ answer' = s
          /\ ctx' = [ctx EXCEPT !.dns_candidates = Len(s)]
          /\ addr' = ChooseDnsAddress(s, ctx.dns_start, ctx.dns_attempts)
          /\ steady' = (steady /\ (answer = <<>> \/ answer = s))
    /\ UNCHANGED <<req, replayable, sent, failed>>

\* Pingora goes round again when the error says so and its own bound allows.
Round(retry) == pc' = IF retry /\ tries < MaxTries THEN "select" ELSE "failed"

\* Faulty variant: gives up one address early.
FailoverStopsEarly == replayable /\ ctx.dns_failovers + 2 < ctx.dns_candidates

\* The answer holds an address fail_to_connect has not moved on to yet.
DnsFailover == replayable /\ ctx.dns_failovers + 1 < ctx.dns_candidates

\* Faulty variant: the failover is not counted.
FailoverUncounted(c) == [c EXCEPT !.dns_attempts = @ + 1]

CountFailover(c) == [c EXCEPT !.dns_failovers = @ + 1, !.dns_attempts = @ + 1]

\* fail_to_connect: the next address of the answer first, the policy second.
FailToConnect ==
    /\ pc = "connecting"
    /\ failed' = failed \cup {addr}
    /\ \/ /\ DnsFailover
          /\ ctx' = CountFailover(ctx)
          /\ Round(TRUE)
       \/ /\ ~DnsFailover
          /\ ShouldRetryConnect(req.retry, ctx.attempts)
          /\ ctx' = [ctx EXCEPT !.attempts = @ + 1, !.dns_attempts = @ + 1]
          /\ Round(TRUE)
       \/ /\ ~DnsFailover
          /\ ~ShouldRetryConnect(req.retry, ctx.attempts)
          /\ UNCHANGED ctx
          /\ Round(FALSE)
    /\ UNCHANGED <<req, tries, replayable, answer, addr, sent, cut, steady>>

\* A fresh or pooled connection is up and the request goes out on it.
Connected ==
    /\ pc = "connecting"
    /\ pc' = "proxying"
    /\ sent' = sent + 1
    /\ UNCHANGED <<req, ctx, tries, replayable, answer, addr, cut, failed, steady>>

\* More of the body was streamed than Pingora's retry buffer holds.
BufferTruncated ==
    /\ pc = "proxying"
    /\ replayable
    /\ replayable' = FALSE
    /\ UNCHANGED <<req, ctx, pc, tries, answer, addr, sent, cut, failed, steady>>

Answered ==
    /\ pc = "proxying"
    /\ pc' = "answered"
    /\ UNCHANGED <<req, ctx, tries, replayable, answer, addr, sent, cut, failed, steady>>

\* Faulty variant: Pingora's decision ignores the retry buffer.
DecideReuseAlways(reused_only, client_reused) == reused_only /\ client_reused

\* e.retry.decide_reuse(client_reused && replayable): of an error Pingora marked
\* "on a reused connection only"; every other error stays not retryable.
DecideReuse(reused_only, client_reused) == reused_only /\ client_reused /\ replayable

\* error_while_proxy: the policy only narrows Pingora's decision.
ErrorWhileProxy ==
    /\ pc = "proxying"
    /\ \E reused_only, client_reused \in BOOLEAN :
          LET retry == DecideReuse(reused_only, client_reused)
              policy == ShouldRetryTransport(req.retry, ctx.attempts)
          IN  \/ req.retry = None /\ Round(retry) /\ UNCHANGED ctx
              \/ req.retry # None /\ ~retry /\ Round(FALSE) /\ UNCHANGED ctx
              \/ /\ req.retry # None /\ retry /\ policy
                 /\ ctx' = [ctx EXCEPT !.attempts = @ + 1]
                 /\ Round(TRUE)
              \/ /\ req.retry # None /\ retry /\ ~policy
                 /\ UNCHANGED ctx
                 /\ Round(FALSE)
    /\ UNCHANGED <<req, tries, replayable, answer, addr, sent, cut, failed, steady>>

Next ==
    \/ NoPeer \/ UpstreamPeer \/ FailToConnect \/ Connected
    \/ BufferTruncated \/ Answered \/ ErrorWhileProxy

Spec == Init /\ [][Next]_vars

-----------------------------------------------------------------------------
(***************************************************************************)
(* Properties                                                              *)
(***************************************************************************)

(***************************************************************************)
(* On a route with a retry policy, a request whose method is not           *)
(* idempotent goes out on at most one connection unless the policy says    *)
(* `non_idempotent`, however connect retries, address failovers, reused    *)
(* connections and transport errors follow one another.                    *)
(***************************************************************************)
NoDuplicateDelivery ==
    req.retry # None /\ ~req.idempotent =>
        req.retry.non_idempotent \/ sent <= 1

(***************************************************************************)
(* The rounds of a request with a policy stay within its budget: the       *)
(* original one, `attempts` retries, and one failover per further address  *)
(* of an answer, even when connect and transport failures alternate and    *)
(* the answer changes from round to round; and `attempts: 2` permits three *)
(* deliveries in total (Policy::should_retry).                             *)
(***************************************************************************)
AttemptBudget ==
    req.retry # None =>
        /\ tries <= req.retry.attempts + MaxAddrs
        /\ sent <= 1 + req.retry.attempts

(***************************************************************************)
(* A request is never sent again once part of its body has left the retry  *)
(* buffer: no upstream receives a truncated body.                          *)
(***************************************************************************)
NoTruncatedReplay == ~cut

(***************************************************************************)
(* "A DNS answer with multiple addresses is itself a failover set": while  *)
(* the answer does not change, a connect failure ends the request only     *)
(* after every address of the answer refused it (or Pingora's own bound    *)
(* stopped the loop).                                                      *)
(***************************************************************************)
FailoverTriesAll ==
    [][pc = "connecting" /\ pc' = "failed" /\ steady /\ tries < MaxTries =>
          \A i \in 1..Len(answer) : answer[i] \in failed']_vars

(***************************************************************************)
(* The inductive strengthening.  Outside of "proxying" the rounds, and     *)
(* outside of a round the deliveries, are paid for by the counters; a new  *)
(* round is only begun while the whole body can be replayed.               *)
(***************************************************************************)
Sending == pc \in {"proxying", "answered", "failed"}

BudgetInv ==
    /\ ctx.dns_failovers < MaxAddrs
    /\ ctx.dns_candidates <= MaxAddrs
    /\ req.retry # None =>
          /\ ctx.attempts <= req.retry.attempts
          /\ tries <= ctx.attempts + ctx.dns_failovers + (IF pc = "select" THEN 0 ELSE 1)
          /\ sent <= ctx.attempts + (IF Sending THEN 1 ELSE 0)
          /\ ~req.idempotent /\ ~req.retry.non_idempotent =>
                sent <= IF Sending THEN 1 ELSE 0

ReplayInv ==
    /\ ~cut
    /\ pc \in {"select", "connecting"} => replayable

=============================================================================
