--------------------------- MODULE CertCacheProofs ---------------------------
(***************************************************************************)
(* Proofs about CertCache for any number of concurrent verifications, any  *)
(* TTLs and any behaviour of the key endpoint.                             *)
(***************************************************************************)
EXTENDS TokenVerify, FiniteSetTheorems, TLAPS

\* A TTL is a natural number whatever the endpoint sends.
LEMMA TtlTyped ==
    ASSUME NEW age \in MaxAges PROVE KeySetTtl(age) \in Nat
BY CertConfig DEF KeySetTtl

\* The cache, the slot and the verifications keep their types.
THEOREM CertTypeCorrect == Spec => []TypeOK
<1>1. Init => TypeOK
  <2> SUFFICES ASSUME Init PROVE TypeOK
    OBVIOUS
  <2> QED BY DEF Init, TypeOK, Pc, Ended
<1>2. TypeOK /\ [Next]_vars => TypeOK'
  <2> SUFFICES ASSUME TypeOK, [Next]_vars PROVE TypeOK'
    OBVIOUS
  <2> USE DEF TypeOK
  <2>g. ASSUME NEW v \in Verifiers, NEW l \in Pc, Goto(v, l)
        PROVE  /\ pc' \in [Verifiers -> Pc]
               /\ l \notin {"read", "write"} /\ got' = got =>
                     \A w \in Verifiers : pc'[w] \in {"read", "write"} => got'[w] # None
    BY <2>g DEF Goto
  <2>k. \A v \in Verifiers : KeyResult(v) \in {"accepted", "unknown"}
    BY DEF KeyResult
  <2>p. {"check", "recheck", "wait", "fetch", "read", "write", "reread", "fallback",
         "slot", "publish", "send", "idle", "unavailable", "unknown", "accepted"} \subseteq Pc
    BY DEF Pc, Ended, Awaiting
  <2>1. CASE Tick
    BY <2>1 DEF Tick
  <2>2. CASE Rotate
    BY <2>2 DEF Rotate
  <2>3. ASSUME NEW v \in Verifiers, Begin(v) \/ Return(v) PROVE TypeOK'
    BY <2>3, <2>g, <2>p DEF Begin, Return
  <2>4. ASSUME NEW v \in Verifiers, CheckFresh(v) \/ Recheck(v) \/ Reread(v) \/ FallBack(v)
        PROVE  TypeOK'
    <3>1. PICK l \in {"accepted", "unknown", "unavailable", "recheck", "reread", "slot"} :
             Goto(v, l)
      BY <2>4, <2>k DEF CheckFresh, Recheck, Reread, FallBack
    <3> QED BY <2>4, <3>1, <2>g, <2>p DEF CheckFresh, Recheck, Reread, FallBack
  <2>5. ASSUME NEW v \in Verifiers, EnterSlot(v) PROVE TypeOK'
    <3>1. PICK l \in {"wait", "fetch"} : Goto(v, l)
      BY <2>5 DEF EnterSlot
    <3> QED BY <2>5, <3>1, <2>g, <2>p DEF EnterSlot
  <2>6. ASSUME NEW v \in Verifiers, Receive(v) PROVE TypeOK'
    <3>1. PICK l \in {"reread", "fallback"} : Goto(v, l)
      BY <2>6 DEF Receive
    <3> QED BY <2>6, <3>1, <2>g, <2>p DEF Receive
  <2>7. ASSUME NEW v \in Verifiers, Answered(v) PROVE TypeOK'
    <3>1. PICK age \in MaxAges :
             got' = [got EXCEPT ![v] =
                        [set |-> [keys |-> published, version |-> version],
                         ttl |-> KeySetTtl(age)]]
      BY <2>7 DEF Answered
    <3>2. [set |-> [keys |-> published, version |-> version], ttl |-> KeySetTtl(age)]
             \in Fetched
      BY TtlTyped DEF KeySet, Fetched
    <3>3. got' \in [Verifiers -> {None} \cup Fetched]
      BY <3>1, <3>2
    <3>4. \A w \in Verifiers : pc'[w] \in {"read", "write"} => got'[w] # None
      <4>1. [set |-> [keys |-> published, version |-> version], ttl |-> KeySetTtl(age)] # None
        BY <3>2, CertConfig
      <4> QED BY <2>7, <3>1, <4>1 DEF Answered, Goto
    <3> QED BY <2>7, <3>3, <3>4, <2>g, <2>p DEF Answered
  <2>8. ASSUME NEW v \in Verifiers, FetchOk(v) \/ FetchErr(v) PROVE TypeOK'
    BY <2>8, <2>g, <2>p DEF FetchOk, FetchErr, Goto
  <2>9. ASSUME NEW v \in Verifiers, WriteInner(v) PROVE TypeOK'
    <3>1. got[v] \in Fetched
      BY <2>9 DEF WriteInner
    <3>2. inner' \in Cached
      BY <2>9, <3>1 DEF WriteInner, NewExpiry, KeySet, Cached, Fetched
    <3>3. \A w \in Verifiers : pc'[w] \in {"read", "write"} => got'[w] # None
      BY <2>9 DEF WriteInner, Goto
    <3> QED BY <2>9, <3>2, <3>3, <2>g, <2>p DEF WriteInner
  <2>10. ASSUME NEW v \in Verifiers, Publish(v) PROVE TypeOK'
    BY <2>10, <2>g, <2>p DEF Publish, Goto
  <2>11. ASSUME NEW v \in Verifiers, Send(v) PROVE TypeOK'
    <3>1. PICK l \in {"reread", "fallback"} : Goto(v, l)
      BY <2>11 DEF Send
    <3>2. mail' \in [Verifiers -> {None, "ok", "err"}] /\ sub' \in [Verifiers -> Verifiers \cup {None}]
      BY <2>11 DEF Send, Deliver
    <3>3. \A w \in Verifiers : pc'[w] \in {"read", "write"} => got'[w] # None
      BY <2>11, <3>1 DEF Send, Goto
    <3> QED BY <2>11, <3>1, <3>2, <3>3, <2>g, <2>p DEF Send
  <2>12. ASSUME NEW v \in Verifiers, Cancelled(v) PROVE TypeOK'
    <3>1. /\ mail' \in [Verifiers -> {None, "ok", "err"}]
          /\ sub' \in [Verifiers -> Verifiers \cup {None}]
          /\ inflight' \in {None} \cup Verifiers
      BY <2>12 DEF Cancelled, ReleaseSlot
    <3>2. \A w \in Verifiers : pc'[w] \in {"read", "write"} => got'[w] # None
      BY <2>12 DEF Cancelled, Goto
    <3> QED BY <2>12, <3>1, <3>2, <2>g, <2>p DEF Cancelled
  <2>13. CASE UNCHANGED vars
    BY <2>13 DEF vars
  <2> QED BY <2>1, <2>2, <2>3, <2>4, <2>5, <2>6, <2>7, <2>8, <2>9, <2>10, <2>11,
             <2>12, <2>13 DEF Next, Step
<1> QED BY <1>1, <1>2, PTL DEF Spec

-----------------------------------------------------------------------------
\* The slot names the one leader, and what it fetched is no older than the cache.
LEMMA FlightCorrect == Spec => []FlightInv
<1>1. Init => FlightInv
  BY CertConfig DEF Init, FlightInv, Leading
<1>2. TypeOK /\ FlightInv /\ [Next]_vars => FlightInv'
  <2> SUFFICES ASSUME TypeOK, FlightInv, [Next]_vars PROVE FlightInv'
    OBVIOUS
  <2> USE DEF FlightInv, Leading
  <2>n. None \notin Verifiers
    BY CertConfig
  <2>v. /\ version \in Nat
        /\ inner # None => inner.version \in Nat
        /\ \A v \in Verifiers : pc[v] \in {"read", "write"} => got[v].set.version \in Nat
    BY DEF TypeOK, Cached, Fetched, KeySet
  <2>1. CASE Tick
    BY <2>1 DEF Tick
  <2>2. CASE Rotate
    BY <2>2, <2>v DEF Rotate
  <2>3. ASSUME NEW v \in Verifiers, Begin(v) \/ Return(v) PROVE FlightInv'
    BY <2>3 DEF Begin, Return, Goto, Ended, TypeOK
  \* Steps that neither enter nor leave the lead.
  <2>q. ASSUME NEW v \in Verifiers, NEW l, Goto(v, l),
               ~Leading(v), l \notin {"fetch", "read", "write", "publish"},
               UNCHANGED <<inflight, inner, got, version>>
        PROVE  FlightInv'
    BY <2>q DEF Goto, TypeOK
  <2>4. ASSUME NEW v \in Verifiers, CheckFresh(v) \/ Recheck(v) \/ Reread(v) \/ FallBack(v)
        PROVE  FlightInv'
    <3>1. PICK l \in {"accepted", "unknown", "unavailable", "recheck", "reread", "slot"} :
             Goto(v, l)
      BY <2>4 DEF CheckFresh, Recheck, Reread, FallBack, KeyResult
    <3>2. /\ ~Leading(v) /\ UNCHANGED <<inflight, inner, got, version>>
      BY <2>4 DEF CheckFresh, Recheck, Reread, FallBack
    <3> QED BY <3>1, <3>2, <2>q
  <2>5. ASSUME NEW v \in Verifiers, EnterSlot(v) PROVE FlightInv'
    BY <2>5, <2>n DEF EnterSlot, Goto, TypeOK
  <2>6. ASSUME NEW v \in Verifiers, Receive(v) PROVE FlightInv'
    <3>1. PICK l \in {"reread", "fallback"} : Goto(v, l)
      BY <2>6 DEF Receive
    <3>2. ~Leading(v) /\ UNCHANGED <<inflight, inner, got, version>>
      BY <2>6 DEF Receive
    <3> QED BY <3>1, <3>2, <2>q
  <2>7. ASSUME NEW v \in Verifiers, Answered(v) PROVE FlightInv'
    <3>1. PICK age \in MaxAges :
             got' = [got EXCEPT ![v] =
                        [set |-> [keys |-> published, version |-> version],
                         ttl |-> KeySetTtl(age)]]
      BY <2>7 DEF Answered
    <3>2. got'[v].set.version = version
      BY <3>1 DEF TypeOK
    <3>3. \A w \in Verifiers : w # v => got'[w] = got[w]
      BY <3>1 DEF TypeOK
    <3>4. pc[v] = "fetch" /\ pc' = [pc EXCEPT ![v] = "read"]
          /\ UNCHANGED <<inflight, inner, version>>
      BY <2>7 DEF Answered, Goto
    <3> QED BY <3>2, <3>3, <3>4, <2>v DEF TypeOK
  <2>8. ASSUME NEW v \in Verifiers, FetchOk(v) \/ FetchErr(v) PROVE FlightInv'
    BY <2>8 DEF FetchOk, FetchErr, Goto, TypeOK
  <2>9. ASSUME NEW v \in Verifiers, WriteInner(v) PROVE FlightInv'
    \* No other verification can be writing: inflight = v.
    <3>1. pc[v] = "write" /\ pc' = [pc EXCEPT ![v] = "publish"]
          /\ UNCHANGED <<inflight, version>>
      BY <2>9 DEF WriteInner, Goto
    <3>2. \A w \in Verifiers : pc'[w] \notin {"read", "write"}
      BY <3>1 DEF TypeOK
    <3>3. inner'.version = got[v].set.version
      BY <2>9 DEF WriteInner
    <3> QED BY <3>1, <3>2, <3>3 DEF TypeOK
  <2>10. ASSUME NEW v \in Verifiers, Publish(v) PROVE FlightInv'
    BY <2>10, <2>n DEF Publish, Goto, TypeOK
  <2>11. ASSUME NEW v \in Verifiers, Send(v) PROVE FlightInv'
    <3>1. PICK l \in {"reread", "fallback"} : Goto(v, l)
      BY <2>11 DEF Send
    <3>2. ~Leading(v) /\ UNCHANGED <<inflight, inner, got, version>>
      BY <2>11 DEF Send
    <3> QED BY <3>1, <3>2, <2>q
  <2>12. ASSUME NEW v \in Verifiers, Cancelled(v) PROVE FlightInv'
    <3>1. /\ pc' = [pc EXCEPT ![v] = "idle"] /\ got' = [got EXCEPT ![v] = None]
          /\ UNCHANGED <<inner, version>>
          /\ inflight' = IF pc[v] \in {"fetch", "read", "write"} THEN None ELSE inflight
          /\ pc[v] # "publish"
      BY <2>12 DEF Cancelled, ReleaseSlot, Goto, Awaiting
    <3> QED BY <3>1, <2>n DEF TypeOK
  <2>13. CASE UNCHANGED vars
    BY <2>13 DEF vars
  <2> QED BY <2>1, <2>2, <2>3, <2>4, <2>5, <2>6, <2>7, <2>8, <2>9, <2>10, <2>11,
             <2>12, <2>13 DEF Next, Step
<1> QED BY <1>1, <1>2, CertTypeCorrect, PTL DEF Spec

\* At most one verification fetches at a time.
THEOREM OneFetchAtATime == Spec => []SingleFlight
<1>1. TypeOK /\ FlightInv => SingleFlight
  <2> SUFFICES ASSUME TypeOK, FlightInv PROVE Cardinality(Fetching) <= 1
    BY DEF SingleFlight
  <2>1. Fetching \subseteq {inflight}
    BY DEF Fetching, FlightInv, Leading
  <2>2. IsFiniteSet({inflight}) /\ Cardinality({inflight}) = 1
    BY FS_Singleton
  <2>3. Cardinality(Fetching) \in Nat /\ Cardinality(Fetching) <= Cardinality({inflight})
    BY <2>1, <2>2, FS_Subset, FS_CardinalityType
  <2> QED BY <2>2, <2>3
<1> QED BY <1>1, CertTypeCorrect, FlightCorrect, PTL

\* The cached set never goes back to an older state of the endpoint.
THEOREM CacheNeverOlder == Spec => NeverOlder
<1>1. TypeOK /\ FlightInv /\ [Next]_vars =>
        [inner # None => inner' # None /\ inner'.version >= inner.version]_vars
  <2> SUFFICES ASSUME TypeOK, FlightInv, Next, inner # None
               PROVE  inner' # None /\ inner'.version >= inner.version
    BY DEF vars
  <2>t. inner.version \in Nat
    BY DEF TypeOK, Cached
  <2>1. CASE inner' = inner
    BY <2>1, <2>t
  <2>2. ASSUME NEW v \in Verifiers, WriteInner(v)
        PROVE  inner' # None /\ inner'.version >= inner.version
    <3>1. got[v] \in Fetched /\ got[v].set.version \in Nat
      BY <2>2 DEF WriteInner, TypeOK, Fetched, KeySet
    <3>2. inner' \in Cached /\ inner'.version = got[v].set.version
      BY <2>2, <3>1 DEF WriteInner, NewExpiry, Cached, Fetched, KeySet, TypeOK
    <3>3. inner.version <= got[v].set.version
      BY <2>2 DEF WriteInner, FlightInv
    <3> QED BY <3>1, <3>2, <3>3, <2>t, CertConfig
  <2> QED BY <2>1, <2>2 DEF Next, Step, Tick, Rotate, Begin, Return, CheckFresh, Recheck, EnterSlot,
             Receive, Answered, FetchOk, FetchErr, Publish, Send, Reread, FallBack, Cancelled
<1> QED BY <1>1, CertTypeCorrect, FlightCorrect, PTL DEF Spec, NeverOlder

-----------------------------------------------------------------------------
\* A waiter without mail has a sender that will still send.
LEMMA WaitCorrect == Spec => []WaitInv
<1>1. Init => WaitInv
  BY DEF Init, WaitInv
<1>2. TypeOK /\ FlightInv /\ WaitInv /\ [Next]_vars => WaitInv'
  <2> SUFFICES ASSUME TypeOK, FlightInv, WaitInv, [Next]_vars PROVE WaitInv'
    OBVIOUS
  <2> USE DEF WaitInv
  <2>n. None \notin Verifiers
    BY CertConfig
  \* Steps that touch neither the slot nor the mail.
  <2>q. ASSUME NEW v \in Verifiers, NEW l, Goto(v, l), pc[v] # "send",
               l \notin {"send", "wait"}, UNCHANGED <<inflight, tx, sub, mail>>
        PROVE  WaitInv'
    BY <2>q DEF Goto, TypeOK
  <2>1. CASE Tick \/ Rotate
    BY <2>1 DEF Tick, Rotate
  <2>2. ASSUME NEW v \in Verifiers,
               \/ Begin(v) \/ Return(v) \/ CheckFresh(v) \/ Recheck(v) \/ Reread(v) \/ FallBack(v)
               \/ Answered(v) \/ FetchOk(v) \/ FetchErr(v) \/ WriteInner(v)
        PROVE  WaitInv'
    <3>1. PICK l \in {"accepted", "unknown", "unavailable", "idle", "check", "recheck",
                      "reread", "slot", "read", "write", "publish"} : Goto(v, l)
      BY <2>2 DEF Begin, Return, CheckFresh, Recheck, Reread, FallBack, Answered, FetchOk, FetchErr,
                  WriteInner, KeyResult
    <3>2. pc[v] # "send" /\ UNCHANGED <<inflight, tx, sub, mail>>
      BY <2>2 DEF Begin, Return, CheckFresh, Recheck, Reread, FallBack, Answered, FetchOk, FetchErr,
                  WriteInner, Ended
    <3> QED BY <3>1, <3>2, <2>q
  <2>3. ASSUME NEW v \in Verifiers, EnterSlot(v) PROVE WaitInv'
    <3>1. CASE inflight # None
      BY <2>3, <3>1 DEF EnterSlot, Goto, TypeOK
    <3>2. CASE inflight = None
      BY <2>3, <3>2, <2>n DEF EnterSlot, Goto, TypeOK
    <3> QED BY <3>1, <3>2
  <2>4. ASSUME NEW v \in Verifiers, Receive(v) PROVE WaitInv'
    <3>1. PICK l \in {"reread", "fallback"} : Goto(v, l)
      BY <2>4 DEF Receive
    <3> QED BY <2>4, <3>1 DEF Receive, Goto, TypeOK
  <2>5. ASSUME NEW v \in Verifiers, Publish(v) PROVE WaitInv'
    <3>1. inflight = v
      BY <2>5 DEF Publish, FlightInv, Leading
    <3> QED BY <2>5, <3>1 DEF Publish, Goto, TypeOK
  <2>6. ASSUME NEW v \in Verifiers, Send(v) PROVE WaitInv'
    <3>1. PICK l \in {"reread", "fallback"} : Goto(v, l)
      BY <2>6 DEF Send
    <3>2. tx[v] = v /\ outcome[v] # None
      BY <2>6, CertConfig DEF Send, TypeOK
    <3>3. \A w \in Verifiers : pc'[w] = "wait" /\ mail'[w] = None =>
             pc[w] = "wait" /\ mail[w] = None /\ sub[w] # v /\ sub'[w] = sub[w]
      BY <2>6, <3>1, <3>2, <2>n DEF Send, Deliver, Goto, TypeOK
    <3> QED BY <2>6, <3>1, <3>2, <3>3 DEF Send, Goto, TypeOK
  <2>7. ASSUME NEW v \in Verifiers, Cancelled(v) PROVE WaitInv'
    <3>1. CASE pc[v] \in {"fetch", "read", "write"}
      <4>1. inflight = v
        BY <3>1 DEF FlightInv, Leading
      <4>2. \A w \in Verifiers : pc'[w] = "wait" /\ mail'[w] = None =>
               pc[w] = "wait" /\ mail[w] = None /\ sub[w] # v /\ sub'[w] = sub[w]
        BY <2>7, <3>1, <4>1, <2>n, CertConfig DEF Cancelled, ReleaseSlot, Goto, TypeOK
      <4> QED BY <2>7, <3>1, <4>1, <4>2 DEF Cancelled, Goto, TypeOK
    <3>2. CASE pc[v] \notin {"fetch", "read", "write"}
      <4>1. pc[v] # "send"
        BY <2>7 DEF Cancelled, Awaiting
      <4> QED BY <2>7, <3>2, <4>1 DEF Cancelled, Goto, TypeOK
    <3> QED BY <3>1, <3>2
  <2>8. CASE UNCHANGED vars
    BY <2>8 DEF vars
  <2> QED BY <2>1, <2>2, <2>3, <2>4, <2>5, <2>6, <2>7, <2>8 DEF Next, Step
<1> QED BY <1>1, <1>2, CertTypeCorrect, FlightCorrect, PTL DEF Spec

\* Nobody waits on a sender that no longer exists.
THEOREM NoOrphanedWaiter == Spec => []WaitersHaveSender
<1>1. FlightInv /\ WaitInv => WaitersHaveSender
  BY DEF FlightInv, WaitInv, WaitersHaveSender, Leading
<1> QED BY <1>1, FlightCorrect, WaitCorrect, PTL

-----------------------------------------------------------------------------
(***************************************************************************)
(* The age of a key                                                        *)
(***************************************************************************)

\* An entry outlives the publication of its keys by the time of one fetch and the
\* longest TTL at most: what a leader carries from the endpoint to the cache was
\* published when it asked or later.
EntryAge ==
    /\ inner # None =>
          \A k \in inner.keys : inner.expires_at <= lastPub[k] + FetchTimeout + LongestTtl
    /\ \A v \in Verifiers : pc[v] \in {"fetch", "read"} =>
          asked[v] <= now /\ now <= asked[v] + FetchTimeout
    /\ \A v \in Verifiers : pc[v] = "read" => \A k \in got[v].set.keys : asked[v] <= lastPub[k]
    /\ \A v \in Verifiers : pc[v] \in {"read", "write"} => got[v].ttl <= LongestTtl
    /\ \A v \in Verifiers : pc[v] = "write" =>
          \A k \in got[v].set.keys : now <= lastPub[k] + FetchTimeout

\* Nobody but a waiter has mail, and nobody but a waiter without mail gets any.
MailInv ==
    \A v \in Verifiers :
        /\ sub[v] # None => pc[v] = "wait" /\ mail[v] = None
        /\ mail[v] # None => pc[v] = "wait"

\* Told that a refresh succeeded, a verification finds an entry that had not expired
\* when it began.
Usable(time) == inner # None /\ inner.expires_at >= time

\* How old what a verification relies on can be.
AgeInv ==
    /\ \A k \in Kids : lastPub[k] <= now /\ (k \in published => lastPub[k] = now)
    /\ \A v \in Verifiers : began[v] <= now
    /\ EntryAge
    /\ MailInv
    /\ \A v \in Verifiers :
          /\ pc[v] \in {"publish", "send"} /\ outcome[v] = "ok" => Usable(now)
          /\ mail[v] = "ok" \/ pc[v] = "reread" => Usable(began[v])
          /\ pc[v] = "accepted" => lastPub[kid[v]] + FetchTimeout + LongestTtl + StaleIfError >= began[v]

\* No max-age makes a TTL longer than the longest.
LEMMA TtlBounded ==
    ASSUME NEW age \in MaxAges PROVE KeySetTtl(age) <= LongestTtl
BY CertConfig DEF KeySetTtl, LongestTtl

\* A key found in the cache in time is young enough to be believed.
LEMMA YoungKey ==
    ASSUME TypeOK, AgeInv, NEW v \in Verifiers, inner # None, kid[v] \in inner.keys,
           inner.expires_at + StaleIfError >= began[v]
    PROVE  lastPub[kid[v]] + FetchTimeout + LongestTtl + StaleIfError >= began[v]
<1>1. /\ inner.expires_at \in Nat /\ began[v] \in Nat /\ lastPub[kid[v]] \in Nat
      /\ LongestTtl \in Nat /\ StaleIfError \in Nat /\ FetchTimeout \in Nat
  BY CertConfig DEF TypeOK, Cached, LongestTtl
<1>2. inner.expires_at <= lastPub[kid[v]] + FetchTimeout + LongestTtl
  BY DEF AgeInv, EntryAge
<1> QED BY <1>1, <1>2

\* Every step of the cache keeps the ages.
LEMMA AgeStep ==
    ASSUME TypeOK, AgeInv, [Next]_vars PROVE AgeInv'
<1> USE DEF AgeInv, EntryAge, MailInv, Usable
<1>t. /\ now \in Nat /\ LongestTtl \in Nat /\ StaleIfError \in Nat /\ FetchTimeout \in Nat
      /\ inner # None => inner.expires_at \in Nat /\ inner.keys \subseteq Kids
      /\ \A k \in Kids : lastPub[k] \in Nat
      /\ \A v \in Verifiers : began[v] \in Nat /\ kid[v] \in Kids
      /\ \A v \in Verifiers : asked[v] \in Nat
      /\ \A v \in Verifiers : pc[v] \in {"read", "write"} =>
            got[v].ttl \in Nat /\ got[v].set.keys \subseteq Kids
  BY CertConfig DEF TypeOK, Cached, Fetched, KeySet, LongestTtl
<1>n. None \notin Verifiers /\ None # "ok" /\ None # "err"
  BY CertConfig
\* A verification moves on, and nothing else of it changes.
<1>q. ASSUME NEW v \in Verifiers, NEW l, Goto(v, l),
             pc[v] # "wait", l \notin {"fetch", "read", "write", "publish", "send", "wait"},
             l = "reread" => Usable(began[v]),
             l = "accepted" => lastPub[kid[v]] + FetchTimeout + LongestTtl + StaleIfError >= began[v],
             UNCHANGED <<now, inner, asked, got, kid, outcome, sub, mail, published, began, lastPub>>
      PROVE  AgeInv'
  BY <1>q, <1>n DEF Goto, TypeOK
<1>1. CASE Tick
  <2>1. /\ now' = now + 1
        /\ lastPub' = [k \in Kids |-> IF k \in published THEN now + 1 ELSE lastPub[k]]
        /\ UNCHANGED <<inner, pc, kid, asked, got, outcome, sub, mail, published, began>>
        /\ \A v \in Verifiers : pc[v] \notin {"write", "publish", "send"}
        /\ \A v \in Verifiers : pc[v] \in {"fetch", "read"} => now < asked[v] + FetchTimeout
    BY <1>1 DEF Tick
  <2>2. \A k \in Kids : lastPub'[k] \in Nat /\ lastPub'[k] >= lastPub[k]
    BY <2>1, <1>t
  <2>3. ASSUME inner # None, NEW k \in inner.keys
        PROVE  inner.expires_at <= lastPub'[k] + FetchTimeout + LongestTtl
    BY <2>2, <2>3, <1>t
  <2>4. ASSUME NEW v \in Verifiers, pc[v] = "accepted"
        PROVE  lastPub'[kid[v]] + FetchTimeout + LongestTtl + StaleIfError >= began[v]
    <3>1. lastPub[kid[v]] + FetchTimeout + LongestTtl + StaleIfError >= began[v]
      BY <2>4
    <3>2. lastPub'[kid[v]] \in Nat /\ lastPub'[kid[v]] >= lastPub[kid[v]]
      BY <2>2, <1>t
    <3> QED BY <3>1, <3>2, <1>t
  <2>5. ASSUME NEW v \in Verifiers, pc[v] = "read", NEW k \in got[v].set.keys
        PROVE  asked[v] <= lastPub'[k]
    <3>1. k \in Kids /\ asked[v] <= lastPub[k]
      BY <2>5, <1>t
    <3> QED BY <3>1, <2>2, <1>t
  <2>6. ASSUME NEW v \in Verifiers, pc[v] \in {"fetch", "read"}
        PROVE  asked[v] <= now + 1 /\ now + 1 <= asked[v] + FetchTimeout
    BY <2>1, <2>6, <1>t
  <2> HIDE DEF MailInv, Usable
  <2>7. EntryAge'
    BY <2>1, <2>3, <2>5, <2>6, <1>t
  <2>8. MailInv'
    BY <2>1 DEF MailInv
  <2>9. \A v \in Verifiers : Usable(began[v])' <=> Usable(began[v])
    BY <2>1 DEF Usable
  <2> HIDE DEF EntryAge
  <2> QED BY <2>1, <2>2, <2>4, <2>7, <2>8, <2>9, <1>t
<1>2. CASE Rotate
  <2>1. PICK s \in SUBSET Kids :
           /\ published' = s
           /\ lastPub' = [k \in Kids |-> IF k \in s THEN now ELSE lastPub[k]]
    BY <1>2 DEF Rotate
  <2>2. UNCHANGED <<now, inner, pc, kid, asked, got, outcome, sub, mail, began>>
    BY <1>2 DEF Rotate
  <2>3. \A k \in Kids : /\ lastPub'[k] \in Nat /\ lastPub'[k] >= lastPub[k]
                        /\ lastPub'[k] <= now /\ (k \in s => lastPub'[k] = now)
    BY <2>1, <1>t
  <2>4. ASSUME inner # None, NEW k \in inner.keys
        PROVE  inner.expires_at <= lastPub'[k] + FetchTimeout + LongestTtl
    BY <2>3, <2>4, <1>t
  <2>5. ASSUME NEW v \in Verifiers, pc[v] = "accepted"
        PROVE  lastPub'[kid[v]] + FetchTimeout + LongestTtl + StaleIfError >= began[v]
    <3>1. lastPub[kid[v]] + FetchTimeout + LongestTtl + StaleIfError >= began[v]
      BY <2>5
    <3>2. lastPub'[kid[v]] \in Nat /\ lastPub'[kid[v]] >= lastPub[kid[v]]
      BY <2>3, <1>t
    <3> QED BY <3>1, <3>2, <1>t
  <2>6. ASSUME NEW v \in Verifiers, pc[v] = "write", NEW k \in got[v].set.keys
        PROVE  now <= lastPub'[k] + FetchTimeout
    BY <2>3, <2>6, <1>t
  <2>7. ASSUME NEW v \in Verifiers, pc[v] = "read", NEW k \in got[v].set.keys
        PROVE  asked[v] <= lastPub'[k]
    BY <2>3, <2>7, <1>t
  <2> QED BY <2>1, <2>2, <2>3, <2>4, <2>5, <2>6, <2>7
<1>3. ASSUME NEW v \in Verifiers, Begin(v) \/ Return(v) PROVE AgeInv'
  <2>1. /\ pc[v] \in Ended /\ pc'[v] \in {"check", "idle"} /\ mail[v] = None
        /\ \A w \in Verifiers : w # v => pc'[w] = pc[w] /\ began'[w] = began[w] /\ kid'[w] = kid[w]
        /\ began'[v] \in {0, now}
        /\ UNCHANGED <<now, inner, asked, got, outcome, sub, mail, published, lastPub>>
    BY <1>3, <1>n DEF Begin, Return, Goto, TypeOK, Ended
  <2>2. began'[v] <= now /\ sub[v] = None /\ pc[v] \notin {"wait", "reread"}
    BY <2>1, <1>t DEF Ended
  <2> QED BY <2>1, <2>2, <1>n
<1>4. ASSUME NEW v \in Verifiers, CheckFresh(v) PROVE AgeInv'
  <2>1. Fresh /\ KeyResult(v) = "accepted" =>
            lastPub[kid[v]] + FetchTimeout + LongestTtl + StaleIfError >= began[v]
    <3> SUFFICES ASSUME Fresh, KeyResult(v) = "accepted"
                 PROVE  lastPub[kid[v]] + FetchTimeout + LongestTtl + StaleIfError >= began[v]
      OBVIOUS
    <3>1. inner # None /\ kid[v] \in inner.keys /\ inner.expires_at > now
      BY DEF Fresh, KeyResult
    <3> QED BY <3>1, <1>t, YoungKey
  <2>2. KeyResult(v) \in {"accepted", "unknown"}
    BY DEF KeyResult
  <2>3. CASE Fresh
    BY <1>4, <2>1, <2>2, <2>3, <1>q DEF CheckFresh
  <2>4. CASE ~Fresh
    BY <1>4, <2>4, <1>q DEF CheckFresh
  <2> QED BY <2>3, <2>4
<1>5. ASSUME NEW v \in Verifiers, Recheck(v) PROVE AgeInv'
  <2>1. Fresh => Usable(began[v])
    BY <1>t DEF Fresh
  <2>2. CASE Fresh
    BY <1>5, <2>1, <2>2, <1>q DEF Recheck
  <2>3. CASE ~Fresh
    BY <1>5, <2>3, <1>q DEF Recheck
  <2> QED BY <2>2, <2>3
<1>6. ASSUME NEW v \in Verifiers, EnterSlot(v) PROVE AgeInv'
  <2>1. CASE inflight = None
    <3>1. /\ pc[v] = "slot" /\ pc' = [pc EXCEPT ![v] = "fetch"]
          /\ asked' = [asked EXCEPT ![v] = now]
          /\ UNCHANGED <<now, inner, got, kid, outcome, sub, mail, published, began, lastPub>>
      BY <1>6, <2>1, <1>n DEF EnterSlot, Goto
    <3>2. asked'[v] = now /\ now <= now + FetchTimeout
      BY <3>1, <1>t DEF TypeOK
    <3>3. \A w \in Verifiers : w # v => asked'[w] = asked[w]
      BY <3>1 DEF TypeOK
    <3> QED BY <3>1, <3>2, <3>3 DEF TypeOK
  <2>2. CASE inflight # None
    <3>1. /\ pc[v] = "slot" /\ pc' = [pc EXCEPT ![v] = "wait"]
          /\ sub' = [sub EXCEPT ![v] = inflight]
          /\ UNCHANGED <<now, inner, asked, got, kid, outcome, mail, published, began, lastPub>>
      BY <1>6, <2>2 DEF EnterSlot, Goto
    <3>2. mail[v] = None
      BY <3>1
    <3> QED BY <3>1, <3>2 DEF TypeOK
  <2> QED BY <2>1, <2>2
<1>7. ASSUME NEW v \in Verifiers, Receive(v) PROVE AgeInv'
  <2>1. /\ pc[v] = "wait" /\ mail[v] # None /\ mail' = [mail EXCEPT ![v] = None]
        /\ UNCHANGED <<now, inner, asked, got, kid, outcome, sub, published, began, lastPub>>
        /\ sub[v] = None
    BY <1>7 DEF Receive
  <2>2. CASE mail[v] = "ok"
    <3>1. pc' = [pc EXCEPT ![v] = "reread"] /\ Usable(began[v])
      BY <1>7, <2>2 DEF Receive, Goto
    <3> QED BY <2>1, <3>1, <1>n DEF TypeOK
  <2>3. CASE mail[v] # "ok"
    <3>1. pc' = [pc EXCEPT ![v] = "fallback"]
      BY <1>7, <2>3 DEF Receive, Goto
    <3> QED BY <2>1, <3>1, <1>n DEF TypeOK
  <2> QED BY <2>2, <2>3
<1>8. ASSUME NEW v \in Verifiers, Answered(v) PROVE AgeInv'
  <2>1. PICK age \in MaxAges :
           got' = [got EXCEPT ![v] =
                      [set |-> [keys |-> published, version |-> version],
                       ttl |-> KeySetTtl(age)]]
    BY <1>8 DEF Answered
  <2>2. KeySetTtl(age) <= LongestTtl /\ published \subseteq Kids
    BY TtlBounded DEF TypeOK
  <2>3. /\ pc[v] = "fetch" /\ pc' = [pc EXCEPT ![v] = "read"]
        /\ UNCHANGED <<now, inner, kid, asked, outcome, sub, mail, published, began, lastPub>>
    BY <1>8 DEF Answered, Goto
  <2>4. got'[v].ttl = KeySetTtl(age) /\ got'[v].set.keys = published
        /\ \A w \in Verifiers : w # v => got'[w] = got[w]
    BY <2>1 DEF TypeOK
  <2>5. sub[v] = None /\ mail[v] = None
    BY <2>3
  <2>6. \A k \in published : asked[v] <= lastPub[k]
    BY <2>2, <2>3
  <2> HIDE DEF EntryAge, MailInv
  <2>7. EntryAge'
    BY <2>2, <2>3, <2>4, <2>6 DEF EntryAge, TypeOK
  <2>8. MailInv'
    BY <2>3, <2>5 DEF MailInv, TypeOK
  <2> QED BY <2>3, <2>7, <2>8 DEF TypeOK
<1>9. ASSUME NEW v \in Verifiers, FetchOk(v) \/ FetchErr(v) PROVE AgeInv'
  <2>1. CASE FetchOk(v)
    <3>1. /\ pc[v] = "read" /\ pc' = [pc EXCEPT ![v] = "write"]
          /\ asked' = [asked EXCEPT ![v] = 0]
          /\ outcome' = [outcome EXCEPT ![v] = "ok"]
          /\ UNCHANGED <<now, inner, got, kid, sub, mail, published, began, lastPub>>
      BY <2>1 DEF FetchOk, Goto
    <3>2. ASSUME NEW k \in got[v].set.keys PROVE now <= lastPub[k] + FetchTimeout
      <4>1. k \in Kids /\ asked[v] <= lastPub[k] /\ now <= asked[v] + FetchTimeout
        BY <3>1, <1>t
      <4> QED BY <4>1, <1>t
    <3>3. \A w \in Verifiers : w # v => asked'[w] = asked[w]
      BY <3>1 DEF TypeOK
    <3>4. sub[v] = None /\ mail[v] = None
      BY <3>1
    <3> HIDE DEF EntryAge, MailInv
    <3>5. EntryAge'
      BY <3>1, <3>2, <3>3 DEF EntryAge, TypeOK
    <3>6. MailInv'
      BY <3>1, <3>4 DEF MailInv, TypeOK
    <3> QED BY <3>1, <3>5, <3>6 DEF TypeOK
  <2>2. CASE FetchErr(v)
    <3>1. /\ pc[v] \in {"fetch", "read"} /\ pc' = [pc EXCEPT ![v] = "publish"]
          /\ asked' = [asked EXCEPT ![v] = 0]
          /\ got' = [got EXCEPT ![v] = None]
          /\ outcome' = [outcome EXCEPT ![v] = "err"]
          /\ UNCHANGED <<now, inner, kid, sub, mail, published, began, lastPub>>
      BY <2>2 DEF FetchErr, Goto
    <3>2. \A w \in Verifiers : w # v => asked'[w] = asked[w] /\ got'[w] = got[w]
      BY <3>1 DEF TypeOK
    <3>3. sub[v] = None /\ mail[v] = None
      BY <3>1
    <3> HIDE DEF EntryAge, MailInv
    <3>4. EntryAge'
      BY <3>1, <3>2 DEF EntryAge, TypeOK
    <3>5. MailInv'
      BY <3>1, <3>3 DEF MailInv, TypeOK
    <3> QED BY <3>1, <3>4, <3>5 DEF TypeOK
  <2> QED BY <1>9, <2>1, <2>2
<1>10. ASSUME NEW v \in Verifiers, WriteInner(v) PROVE AgeInv'
  <2>1. /\ pc[v] = "write" /\ pc' = [pc EXCEPT ![v] = "publish"]
        /\ got' = [got EXCEPT ![v] = None]
        /\ inner' = [keys |-> got[v].set.keys, version |-> got[v].set.version,
                     expires_at |-> now + got[v].ttl]
        /\ UNCHANGED <<now, kid, asked, outcome, sub, mail, published, began, lastPub>>
    BY <1>10 DEF WriteInner, Goto, NewExpiry
  <2>2. got[v].ttl \in Nat /\ got[v].ttl <= LongestTtl
    BY <2>1, <1>t
  <2>3. inner' # None
    <3>1. got[v] \in Fetched
      BY <2>1 DEF TypeOK
    <3>2. now + got[v].ttl \in Nat
      BY <2>2, <1>t
    <3>3. inner' \in Cached
      BY <2>1, <3>1, <3>2 DEF Cached, Fetched, KeySet
    <3> QED BY <3>3, CertConfig
  <2>4. inner'.keys = got[v].set.keys /\ inner'.expires_at = now + got[v].ttl
    BY <2>1
  <2>5. \A time \in Nat : time <= now => inner'.expires_at >= time
    BY <2>2, <2>4, <1>t
  <2>6. \A k \in inner'.keys : inner'.expires_at <= lastPub[k] + FetchTimeout + LongestTtl
    <3> SUFFICES ASSUME NEW k \in got[v].set.keys
                 PROVE  now + got[v].ttl <= lastPub[k] + FetchTimeout + LongestTtl
      BY <2>4
    <3>1. lastPub[k] \in Nat /\ now <= lastPub[k] + FetchTimeout
      BY <2>1, <1>t
    <3> QED BY <2>2, <3>1, <1>t
  <2>7. \A w \in Verifiers : w # v => got'[w] = got[w]
    BY <2>1 DEF TypeOK
  <2> HIDE DEF EntryAge, MailInv
  <2>8. EntryAge'
    BY <2>1, <2>6, <2>7 DEF EntryAge, TypeOK
  <2>9. MailInv'
    BY <2>1, <1>n DEF MailInv, TypeOK
  <2>10. \A w \in Verifiers : Usable(now)' /\ Usable(began[w])'
    BY <2>1, <2>3, <2>5, <1>t
  <2> HIDE DEF Usable
  <2> QED BY <2>1, <2>8, <2>9, <2>10 DEF TypeOK
<1>11. ASSUME NEW v \in Verifiers, Publish(v) PROVE AgeInv'
  BY <1>11, <1>n DEF Publish, Goto, TypeOK
<1>12. ASSUME NEW v \in Verifiers, Send(v) PROVE AgeInv'
  <2>1. /\ pc[v] = "send" /\ Deliver(tx[v], outcome[v])
        /\ outcome' = [outcome EXCEPT ![v] = "ok"]
        /\ Goto(v, IF outcome[v] = "ok" THEN "reread" ELSE "fallback")
        /\ UNCHANGED <<now, inner, asked, got, kid, published, began, lastPub>>
    BY <1>12 DEF Send
  <2>2. sub[v] = None /\ mail[v] = None
    BY <2>1
  <2>3. ASSUME NEW w \in Verifiers
        PROVE  \/ sub'[w] = None /\ mail'[w] = outcome[v] /\ pc[w] = "wait" /\ w # v
               \/ sub'[w] = sub[w] /\ mail'[w] = mail[w]
    BY <2>1, <2>2, <1>n DEF Deliver
  <2>4. outcome[v] = "ok" => \A w \in Verifiers : Usable(began[w])
    BY <2>1, <1>t
  <2>5. PICK l \in {"reread", "fallback"} :
           pc' = [pc EXCEPT ![v] = l] /\ (l = "reread" => outcome[v] = "ok")
    BY <2>1 DEF Goto
  <2>6. \A w \in Verifiers : w # v => pc'[w] = pc[w] /\ outcome'[w] = outcome[w]
    BY <2>1, <2>5 DEF TypeOK
  <2>7. pc'[v] = l
    BY <2>5 DEF TypeOK
  <2> HIDE DEF EntryAge, MailInv, Usable
  <2>8. EntryAge'
    BY <2>1, <2>6, <2>7 DEF EntryAge
  <2>9. MailInv'
    BY <2>2, <2>3, <2>6, <2>1 DEF MailInv
  <2>10. \A w \in Verifiers : (Usable(now)' <=> Usable(now)) /\ (Usable(began[w])' <=> Usable(began[w]))
    BY <2>1 DEF Usable
  <2> QED BY <2>1, <2>3, <2>4, <2>5, <2>6, <2>7, <2>8, <2>9, <2>10
<1>13. ASSUME NEW v \in Verifiers, Reread(v) PROVE AgeInv'
  <2>1. inner # None /\ inner.expires_at >= began[v]
    BY <1>13 DEF Reread
  <2>2. KeyResult(v) = "accepted" => lastPub[kid[v]] + FetchTimeout + LongestTtl + StaleIfError >= began[v]
    <3>1. KeyResult(v) = "accepted" => kid[v] \in inner.keys
      BY DEF KeyResult
    <3>2. inner.expires_at + StaleIfError >= began[v]
      BY <2>1, <1>t
    <3> QED BY <2>1, <3>1, <3>2, YoungKey
  <2>3. KeyResult(v) \in {"accepted", "unknown"}
    BY DEF KeyResult
  <2> QED BY <1>13, <2>1, <2>2, <2>3, <1>q DEF Reread
<1>14. ASSUME NEW v \in Verifiers, FallBack(v) PROVE AgeInv'
  <2>1. PICK l \in {"unavailable", "unknown", "accepted"} :
           /\ Goto(v, l)
           /\ l = "accepted" => inner # None /\ kid[v] \in inner.keys /\ WithinStale
    BY <1>14 DEF FallBack
  <2>2. l = "accepted" => lastPub[kid[v]] + FetchTimeout + LongestTtl + StaleIfError >= began[v]
    <3> SUFFICES ASSUME l = "accepted"
                 PROVE  lastPub[kid[v]] + FetchTimeout + LongestTtl + StaleIfError >= began[v]
      OBVIOUS
    <3>1. inner # None /\ kid[v] \in inner.keys /\ now < inner.expires_at + StaleIfError
      BY <2>1 DEF WithinStale
    <3> QED BY <3>1, <1>t, YoungKey
  <2> QED BY <1>14, <2>1, <2>2, <1>q DEF FallBack
<1>15. ASSUME NEW v \in Verifiers, Cancelled(v) PROVE AgeInv'
  <2>1. /\ pc' = [pc EXCEPT ![v] = "idle"] /\ got' = [got EXCEPT ![v] = None]
        /\ asked' = [asked EXCEPT ![v] = 0]
        /\ began' = [began EXCEPT ![v] = 0]
        /\ UNCHANGED <<now, inner, kid, outcome, published, lastPub>>
    BY <1>15 DEF Cancelled, Goto
  <2>2. ASSUME NEW w \in Verifiers, w # v
        PROVE  \/ sub'[w] = None /\ mail'[w] = "err" /\ pc[w] = "wait"
               \/ sub'[w] = sub[w] /\ mail'[w] = mail[w]
    BY <1>15, <2>2, <1>n DEF Cancelled, ReleaseSlot, TypeOK
  <2>3. sub'[v] = None /\ mail'[v] = None
    <3>1. CASE pc[v] \in {"fetch", "read", "write"}
      <4>1. sub[v] = None /\ mail[v] = None
        BY <3>1
      <4> QED BY <1>15, <3>1, <4>1 DEF Cancelled, ReleaseSlot
    <3>2. CASE pc[v] \notin {"fetch", "read", "write"}
      BY <1>15, <3>2 DEF Cancelled, TypeOK
    <3> QED BY <3>1, <3>2
  <2>4. \A w \in Verifiers : w # v => /\ pc'[w] = pc[w] /\ got'[w] = got[w]
                                       /\ began'[w] = began[w] /\ asked'[w] = asked[w]
    BY <2>1 DEF TypeOK
  <2>5. pc'[v] = "idle" /\ began'[v] = 0 /\ 0 <= now
    BY <2>1, <1>t DEF TypeOK
  <2> QED BY <2>1, <2>2, <2>3, <2>4, <2>5, <1>n
<1>16. CASE UNCHANGED vars
  BY <1>16 DEF vars
<1> QED BY <1>1, <1>2, <1>3, <1>4, <1>5, <1>6, <1>7, <1>8, <1>9, <1>10, <1>11, <1>12,
           <1>13, <1>14, <1>15, <1>16 DEF Next, Step

\* The ages are kept throughout.
LEMMA AgeCorrect == Spec => []AgeInv
<1>1. Init => AgeInv
  BY CertConfig DEF Init, AgeInv, EntryAge, MailInv, Usable
<1> QED BY <1>1, AgeStep, CertTypeCorrect, PTL DEF Spec

-----------------------------------------------------------------------------
(***************************************************************************)
(* The verification around the cache                                       *)
(***************************************************************************)

\* Whatever tokens requests carry, their verifications use the cache as CertCache
\* has it.
THEOREM TokensUseTheCache == TSpec => Spec
<1>1. TInit => Init
  BY DEF TInit
<1>2. [TNext]_tvars => [Next]_vars
  BY DEF TNext, Silent, BeginToken, EndToken, Next, tvars
<1> QED BY <1>1, <1>2, PTL DEF TSpec, Spec

\* So the promises of the cache hold of them.
THEOREM TokensKeepPromises ==
    TSpec => [](SingleFlight /\ WaitersHaveSender) /\ NeverOlder
BY TokensUseTheCache, OneFetchAtATime, NoOrphanedWaiter, CacheNeverOlder, PTL

\* For any TTLs, any stale_if_error, any number of verifications that lead, wait or
\* are dropped, and any tokens: an Identity is issued only for a token that is alive,
\* meant for this gateway and signed by a key the issuer had recently enough.
THEOREM IdentitiesAreProven == TSpec => IdentityProven
<1> DEFINE KindInv == kind \in {"jwt", "firebase"}
           Proven(v) == LET t == identity' IN
              /\ t.key = kid[v]
              /\ lastPub[kid[v]] + FetchTimeout + LongestTtl + StaleIfError >= began[v]
              /\ t.exp + Skew >= now /\ t.iat <= now + Skew
              /\ \/ /\ kind = "jwt" /\ t.iss = JwtIssuer /\ t.alg \in Algorithms
                    /\ InRange(t.aud) \cap Audiences # {}
                 \/ /\ kind = "firebase" /\ t.iss \in Issuers /\ t.alg = "RS256"
                    /\ t.iss \in InRange(t.aud)
<1>1. TInit => KindInv
  BY DEF TInit
<1>2. KindInv /\ [TNext]_tvars => KindInv'
  BY DEF TNext, tvars
<1>3. TypeOK /\ AgeInv /\ KindInv /\ [TNext]_tvars =>
        [\A v \in Verifiers :
            pc[v] = "accepted" /\ pc'[v] = "idle" /\ identity' # None => Proven(v)]_tvars
  <2> SUFFICES ASSUME TypeOK, AgeInv, KindInv, TNext, NEW v \in Verifiers,
                      pc[v] = "accepted", pc'[v] = "idle", identity' # None
               PROVE  Proven(v)
    OBVIOUS
  <2>1. PICK w \in Verifiers : EndToken(w)
    BY DEF TNext, Silent
  <2>2. w = v
    BY <2>1 DEF EndToken, Return, Goto, TypeOK
  <2>3. PICK t \in Tokens : Readable(t) /\ t.kid = kid[v] /\ Accepts(v, t) /\ identity' = t
    BY <2>1, <2>2 DEF EndToken
  <2>4. lastPub[kid[v]] + FetchTimeout + LongestTtl + StaleIfError >= began[v]
    BY DEF AgeInv
  <2>5. t.key = kid[v] /\ t.exp + Skew >= now /\ t.iat <= now + Skew
    BY <2>3 DEF Accepts, Decodes, Alive, Past
  <2>6. CASE kind = "jwt"
    <3>1. t.iss = JwtIssuer /\ t.alg \in Algorithms /\ InRange(t.aud) \cap Audiences # {}
      BY <2>3, <2>6 DEF Readable, IssuerKnown, AlgorithmAllowed, Accepts, Decodes, Expected
    <3> QED BY <2>3, <2>4, <2>5, <2>6, <3>1
  <2>7. CASE kind = "firebase"
    <3>1. t.iss \in Issuers /\ t.alg = "RS256" /\ InRange(t.aud) \cap {t.iss} # {}
      BY <2>3, <2>7 DEF Readable, IssuerKnown, AlgorithmAllowed, Accepts, Decodes, Expected
    <3>2. t.iss \in InRange(t.aud)
      BY <3>1
    <3> QED BY <2>3, <2>4, <2>5, <2>7, <3>1, <3>2
  <2> QED BY <2>6, <2>7
<1> QED BY <1>1, <1>2, <1>3, TokensUseTheCache, CertTypeCorrect, AgeCorrect, PTL
        DEF TSpec, IdentityProven

=============================================================================
