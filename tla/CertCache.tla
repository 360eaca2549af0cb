------------------------------ MODULE CertCache ------------------------------
(***************************************************************************)
(* The signing-key cache of one token issuer, src/crates/lagos-core/src/   *)
(* auth/jwks.rs: CertCache::key_for and refresh, as run by concurrent      *)
(* token verifications whose futures may be dropped at any await.          *)
(*                                                                         *)
(* One refresh is in flight at a time: its leader owns the broadcast       *)
(* sender in `inflight`, the others subscribe.  A sender is named by the   *)
(* verification that created it, and a message is put directly into the    *)
(* mailboxes of its subscribers: all of them subscribed while the sender   *)
(* was in the slot, before the one send.                                   *)
(***************************************************************************)
EXTENDS Naturals, FiniteSets

CONSTANTS
    Verifiers,    \* token verifications in progress
    Kids,         \* key ids
    MinTtl,       \* min_ttl
    MaxKeyTtl,    \* MAX_KEY_TTL
    MaxAges,      \* Cache-Control max-age values the endpoint may send
    StaleIfError, \* stale_if_error; 0 disables stale use
    FetchTimeout, \* the HTTP client's timeout, body included
    MaxTime,      \* bound: the last clock tick explored
    MaxRotations, \* bound: how often the issuer changes its keys
    None          \* the absent Option

VARIABLES
    now,
    inner,      \* the cached key set, or None
    inflight,   \* the sender in the slot, or None
    pc,         \* where each verification is
    kid,        \* the key id its token names
    asked,      \* when a leader sent its request
    got,        \* what the endpoint answered it, until it is written
    outcome,    \* a leader's outcome, until it has sent it
    tx,         \* the sender a leader took out of the slot, or None
    sub,        \* the sender a waiter is subscribed to, or None
    mail,       \* the message a waiter has been sent, or None
    published,  \* the issuer's keys at its endpoint (external)
    version,    \* how often they changed
    \* History variables.
    began,      \* when each verification in progress began
    lastPub     \* when each key was last at the endpoint

vars == <<now, inner, inflight, pc, kid, asked, got, outcome, tx, sub, mail,
          published, version, began, lastPub>>

\* key_set_ttl: the endpoint's max-age, at least min_ttl and at most MAX_KEY_TTL
\* unless the configured minimum is higher.
KeySetTtl(age) ==
    LET cap == IF MaxKeyTtl >= MinTtl THEN MaxKeyTtl ELSE MinTtl
        ttl == IF age = None THEN MinTtl ELSE IF age <= cap THEN age ELSE cap
    IN  IF ttl >= MinTtl THEN ttl ELSE MinTtl

KeySet == [keys: SUBSET Kids, version: Nat]
Fetched == [set: KeySet, ttl: Nat]
Cached == [keys: SUBSET Kids, version: Nat, expires_at: Nat]

ASSUME CertConfig ==
    /\ IsFiniteSet(Verifiers)
    /\ None \notin Verifiers \cup Nat \cup {"ok", "err"} \cup Fetched \cup Cached
    /\ MinTtl \in Nat /\ MaxKeyTtl \in Nat /\ StaleIfError \in Nat
    /\ FetchTimeout \in Nat
    /\ MaxAges \subseteq Nat \cup {None}
    /\ MaxTime \in Nat /\ MaxRotations \in Nat

LongestTtl == IF MaxKeyTtl >= MinTtl THEN MaxKeyTtl ELSE MinTtl

Ended == {"idle", "accepted", "unknown", "unavailable"}
\* Await points: the future may be dropped here.
Awaiting == {"check", "recheck", "wait", "fetch", "read", "write", "reread", "fallback"}
Pc == Ended \cup Awaiting \cup {"slot", "publish", "send"}

TypeOK ==
    /\ now \in Nat
    /\ inner \in {None} \cup Cached
    /\ inflight \in {None} \cup Verifiers
    /\ pc \in [Verifiers -> Pc]
    /\ kid \in [Verifiers -> Kids]
    /\ asked \in [Verifiers -> Nat]
    /\ got \in [Verifiers -> {None} \cup Fetched]
    /\ \A v \in Verifiers : pc[v] \in {"read", "write"} => got[v] # None
    /\ outcome \in [Verifiers -> {"ok", "err"}]
    /\ tx \in [Verifiers -> Verifiers \cup {None}]
    /\ sub \in [Verifiers -> Verifiers \cup {None}]
    /\ mail \in [Verifiers -> {None, "ok", "err"}]
    /\ published \in SUBSET Kids
    /\ version \in Nat
    /\ began \in [Verifiers -> Nat]
    /\ lastPub \in [Kids -> Nat]

Init ==
    /\ now = 0
    /\ inner = None
    /\ inflight = None
    /\ pc = [v \in Verifiers |-> "idle"]
    /\ kid \in [Verifiers -> Kids]
    /\ asked = [v \in Verifiers |-> 0]
    /\ got = [v \in Verifiers |-> None]
    /\ outcome = [v \in Verifiers |-> "ok"]
    /\ tx = [v \in Verifiers |-> None]
    /\ sub = [v \in Verifiers |-> None]
    /\ mail = [v \in Verifiers |-> None]
    /\ published = Kids
    /\ version = 0
    /\ began = [v \in Verifiers |-> 0]
    /\ lastPub = [k \in Kids |-> 0]

Goto(v, l) == pc' = [pc EXCEPT ![v] = l]

\* Cached::is_fresh.
Fresh == inner # None /\ inner.expires_at > now

\* Cached::key: a missing kid is an invalid token, not a reason to refetch.
KeyResult(v) == IF kid[v] \in inner.keys THEN "accepted" ELSE "unknown"

-----------------------------------------------------------------------------
(***************************************************************************)
(* The environment.  A fetch takes as long as the client lets it.  Time    *)
(* does not pass while a leader is between the end of its fetch and its    *)
(* broadcast: no network wait lies between them.                           *)
(***************************************************************************)
Tick ==
    /\ now < MaxTime
    /\ \A v \in Verifiers : pc[v] \in {"fetch", "read"} => now < asked[v] + FetchTimeout
    /\ \A v \in Verifiers : pc[v] \notin {"write", "publish", "send"}
    /\ now' = now + 1
    /\ lastPub' = [k \in Kids |-> IF k \in published THEN now + 1 ELSE lastPub[k]]
    /\ UNCHANGED <<inner, inflight, pc, kid, asked, got, outcome, tx, sub, mail,
                   published, version, began>>

\* The issuer retires keys or brings them back, or changes keys the model does
\* not name.
Rotate ==
    /\ version < MaxRotations
    /\ version' = version + 1
    /\ \E s \in SUBSET Kids :
          /\ published' = s
          /\ lastPub' = [k \in Kids |-> IF k \in s THEN now ELSE lastPub[k]]
    /\ UNCHANGED <<now, inner, inflight, pc, kid, asked, got, outcome, tx, sub, mail, began>>

-----------------------------------------------------------------------------
\* A request with a bearer token asks for its key.
Begin(v) ==
    /\ pc[v] = "idle"
    /\ \E k \in Kids : kid' = [kid EXCEPT ![v] = k]
    /\ began' = [began EXCEPT ![v] = now]
    /\ Goto(v, "check")
    /\ UNCHANGED <<now, inner, inflight, asked, got, outcome, tx, sub, mail,
                   published, version, lastPub>>

\* key_for has returned to the verifier: the request goes on without the cache.
Return(v) ==
    /\ pc[v] \in Ended \ {"idle"}
    /\ began' = [began EXCEPT ![v] = 0]
    /\ Goto(v, "idle")
    /\ UNCHANGED <<now, inner, inflight, kid, asked, got, outcome, tx, sub, mail,
                   published, version, lastPub>>

\* key_for: a fresh cache answers.
CheckFresh(v) ==
    /\ pc[v] = "check"
    /\ Goto(v, IF Fresh THEN KeyResult(v) ELSE "recheck")
    /\ UNCHANGED <<now, inner, inflight, kid, asked, got, outcome, tx, sub, mail,
                   published, version, began, lastPub>>

\* refresh: looks again under a new read lock ...
Recheck(v) ==
    /\ pc[v] = "recheck"
    /\ Goto(v, IF Fresh THEN "reread" ELSE "slot")
    /\ UNCHANGED <<now, inner, inflight, kid, asked, got, outcome, tx, sub, mail,
                   published, version, began, lastPub>>

\* ... then, under the slot's mutex, subscribes or becomes the leader.
EnterSlot(v) ==
    /\ pc[v] = "slot"
    /\ \/ /\ inflight # None
          /\ sub' = [sub EXCEPT ![v] = inflight]
          /\ Goto(v, "wait")
          /\ UNCHANGED <<inflight, asked>>
       \/ /\ inflight = None
          /\ inflight' = v
          /\ asked' = [asked EXCEPT ![v] = now]
          /\ Goto(v, "fetch")
          /\ UNCHANGED sub
    /\ UNCHANGED <<now, inner, kid, got, outcome, tx, mail,
                   published, version, began, lastPub>>

\* rx.recv() returns.
Receive(v) ==
    /\ pc[v] = "wait"
    /\ mail[v] # None
    /\ mail' = [mail EXCEPT ![v] = None]
    /\ Goto(v, IF mail[v] = "ok" THEN "reread" ELSE "fallback")
    /\ UNCHANGED <<now, inner, inflight, kid, asked, got, outcome, tx, sub,
                   published, version, began, lastPub>>

\* The endpoint answers with the keys it has, and its headers arrive: the TTL is
\* known.
Answered(v) ==
    /\ pc[v] = "fetch"
    /\ \E age \in MaxAges :
          got' = [got EXCEPT ![v] =
                     [set |-> [keys |-> published, version |-> version],
                      ttl |-> KeySetTtl(age)]]
    /\ Goto(v, "read")
    /\ UNCHANGED <<now, inner, inflight, kid, asked, outcome, tx, sub, mail,
                   published, version, began, lastPub>>

\* The last chunk of that answer has arrived, and some key of it is usable.
FetchOk(v) ==
    /\ pc[v] = "read"
    /\ got[v].set.keys # {}
    /\ asked' = [asked EXCEPT ![v] = 0]
    /\ outcome' = [outcome EXCEPT ![v] = "ok"]
    /\ Goto(v, "write")
    /\ UNCHANGED <<now, inner, inflight, kid, got, tx, sub, mail,
                   published, version, began, lastPub>>

\* Timeout, refused, bad status, too large, not a key set, or no usable key.
FetchErr(v) ==
    /\ pc[v] \in {"fetch", "read"}
    /\ asked' = [asked EXCEPT ![v] = 0]
    /\ got' = [got EXCEPT ![v] = None]
    /\ outcome' = [outcome EXCEPT ![v] = "err"]
    /\ Goto(v, "publish")
    /\ UNCHANGED <<now, inner, inflight, kid, tx, sub, mail,
                   published, version, began, lastPub>>

\* Faulty variant: the expiry counts from the previous one.
NewExpiryAdds(ttl) == (IF inner = None THEN now ELSE inner.expires_at + now) + ttl

NewExpiry(ttl) == now + ttl

\* *self.inner.write().await = Some(...): the new set replaces the old one.
WriteInner(v) ==
    /\ pc[v] = "write"
    /\ inner' = [keys |-> got[v].set.keys, version |-> got[v].set.version,
                 expires_at |-> NewExpiry(got[v].ttl)]
    /\ got' = [got EXCEPT ![v] = None]
    /\ Goto(v, "publish")
    /\ UNCHANGED <<now, inflight, kid, asked, outcome, tx, sub, mail,
                   published, version, began, lastPub>>

\* Under the slot's mutex: disarm the guard and take the sender.
Publish(v) ==
    /\ pc[v] = "publish"
    /\ tx' = [tx EXCEPT ![v] = inflight]
    /\ inflight' = None
    /\ Goto(v, "send")
    /\ UNCHANGED <<now, inner, kid, asked, got, outcome, sub, mail,
                   published, version, began, lastPub>>

\* broadcast::Sender::send to the subscribers of `s`.
Deliver(s, msg) ==
    /\ mail' = [w \in Verifiers |-> IF s # None /\ sub[w] = s THEN msg ELSE mail[w]]
    /\ sub' = [w \in Verifiers |-> IF sub[w] = s THEN None ELSE sub[w]]

\* Faulty variant: the guard is still armed when it drops after the send, and
\* empties the slot a later leader may have filled.
SendStillArmed(v) ==
    /\ pc[v] = "send"
    /\ Deliver(tx[v], outcome[v])
    /\ inflight' = None
    /\ tx' = [tx EXCEPT ![v] = None]
    /\ Goto(v, IF outcome[v] = "ok" THEN "reread" ELSE "fallback")
    /\ UNCHANGED <<now, inner, kid, asked, got, outcome, published, version, began, lastPub>>

\* After the mutex: wake the subscribers and return the outcome.
Send(v) ==
    /\ pc[v] = "send"
    /\ Deliver(tx[v], outcome[v])
    /\ tx' = [tx EXCEPT ![v] = None]
    /\ outcome' = [outcome EXCEPT ![v] = "ok"]
    /\ Goto(v, IF outcome[v] = "ok" THEN "reread" ELSE "fallback")
    /\ UNCHANGED <<now, inner, inflight, kid, asked, got, published, version, began, lastPub>>

\* key_for after a refresh that succeeded.
Reread(v) ==
    /\ pc[v] = "reread"
    /\ Goto(v, IF inner = None THEN "unavailable" ELSE KeyResult(v))
    /\ UNCHANGED <<now, inner, inflight, kid, asked, got, outcome, tx, sub, mail,
                   published, version, began, lastPub>>

\* Faulty variant: a bound that moves with the clock.
StaleForever == TRUE

\* Stale keys are usable until the original expiry plus stale_if_error.
WithinStale == now < inner.expires_at + StaleIfError

\* key_for after a refresh that failed: bounded stale use, known kids only.
FallBack(v) ==
    /\ pc[v] = "fallback"
    /\ Goto(v, IF StaleIfError = 0 \/ inner = None THEN "unavailable"
               ELSE IF kid[v] \notin inner.keys THEN "unknown"
               ELSE IF WithinStale THEN "accepted" ELSE "unavailable")
    /\ UNCHANGED <<now, inner, inflight, kid, asked, got, outcome, tx, sub, mail,
                   published, version, began, lastPub>>

\* Faulty variant: no guard, so a dropped leader leaves its sender in the slot.
AbandonSlot(v) ==
    /\ UNCHANGED <<inflight, mail>>
    /\ sub' = [sub EXCEPT ![v] = None]

\* RefreshLeader::drop of a leader that never published.
ReleaseSlot(v) ==
    /\ inflight' = None
    /\ mail' = [w \in Verifiers |->
                   IF inflight # None /\ sub[w] = inflight THEN "err" ELSE mail[w]]
    /\ sub' = [w \in Verifiers |-> IF sub[w] = inflight THEN None ELSE sub[w]]

\* The client went away: Pingora drops the future at an await.
Cancelled(v) ==
    /\ pc[v] \in Awaiting
    /\ \/ pc[v] \in {"fetch", "read", "write"} /\ ReleaseSlot(v)
       \/ /\ pc[v] \notin {"fetch", "read", "write"}
          /\ sub' = [sub EXCEPT ![v] = None]
          /\ mail' = [mail EXCEPT ![v] = None]
          /\ UNCHANGED inflight
    /\ asked' = [asked EXCEPT ![v] = 0]
    /\ got' = [got EXCEPT ![v] = None]
    /\ began' = [began EXCEPT ![v] = 0]
    /\ Goto(v, "idle")
    /\ UNCHANGED <<now, inner, kid, outcome, tx, published, version, lastPub>>

Step(v) ==
    \/ CheckFresh(v) \/ Recheck(v) \/ EnterSlot(v) \/ Receive(v)
    \/ Answered(v) \/ FetchOk(v) \/ FetchErr(v) \/ WriteInner(v) \/ Publish(v) \/ Send(v)
    \/ Reread(v) \/ FallBack(v)

Next ==
    \/ Tick
    \/ Rotate
    \/ \E v \in Verifiers : Begin(v) \/ Step(v) \/ Return(v) \/ Cancelled(v)

Spec == Init /\ [][Next]_vars

(***************************************************************************)
(* The runtime polls every task that can make progress, and the HTTP       *)
(* client gives up after ten seconds, so a fetch ends.  No request need    *)
(* arrive or be cancelled, time need not pass.                             *)
(***************************************************************************)
FairSpec == Spec /\ \A v \in Verifiers : WF_vars(Step(v))

-----------------------------------------------------------------------------
(***************************************************************************)
(* Properties                                                              *)
(***************************************************************************)

Fetching == {v \in Verifiers : pc[v] \in {"fetch", "read", "write"}}

(***************************************************************************)
(* "Concurrent refreshers share one fetch": at most one verification       *)
(* fetches or is about to write, though leaders may be cancelled at any    *)
(* await and a new leader may enter between a take and a send.             *)
(***************************************************************************)
SingleFlight == Cardinality(Fetching) <= 1

(***************************************************************************)
(* "A successful refresh replaces the old set, so removed keys are not     *)
(* recovered from older material": the cached set never goes back to an    *)
(* older state of the endpoint.                                            *)
(***************************************************************************)
NeverOlder ==
    [][inner # None => inner' # None /\ inner'.version >= inner.version]_vars

(***************************************************************************)
(* "Waiters receive a bounded failure": nobody waits on a sender that is   *)
(* neither in the slot nor in the hands of a leader about to send.         *)
(***************************************************************************)
WaitersHaveSender ==
    \A w \in Verifiers :
        pc[w] = "wait" /\ mail[w] = None =>
            \/ /\ inflight = sub[w]
               /\ sub[w] \in Verifiers
               /\ pc[sub[w]] \in {"fetch", "read", "write", "publish"}
            \/ \E v \in Verifiers : pc[v] = "send" /\ tx[v] = sub[w]

(***************************************************************************)
(* "Cancellation releases refresh leadership and wakes waiters; it cannot  *)
(* leave later token verification waiting forever on an orphaned refresh": *)
(* every verification ends.                                                *)
(***************************************************************************)
VerificationEnds == \A v \in Verifiers : pc[v] \notin Ended ~> pc[v] \in Ended

(***************************************************************************)
(* The inductive strengthening: the slot names the one verification that   *)
(* leads a refresh, and what it fetched is no older than what the cache    *)
(* holds.                                                                  *)
(***************************************************************************)
Leading(v) == pc[v] \in {"fetch", "read", "write", "publish"}

FlightInv ==
    /\ \A v \in Verifiers : Leading(v) <=> inflight = v
    /\ inner # None => inner.version <= version
    /\ \A v \in Verifiers : pc[v] \in {"read", "write"} =>
          /\ got[v].set.version <= version
          /\ inner # None => inner.version <= got[v].set.version

\* A waiter without mail is subscribed to the leader in the slot, or to one that
\* has taken its own sender out and is about to send.
WaitInv ==
    /\ \A v \in Verifiers : pc[v] = "send" => tx[v] = v
    /\ \A w \in Verifiers : pc[w] = "wait" /\ mail[w] = None =>
          /\ sub[w] \in Verifiers
          /\ inflight = sub[w] \/ pc[sub[w]] = "send"

=============================================================================
