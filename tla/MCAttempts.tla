----------------------------- MODULE MCAttempts -----------------------------
(***************************************************************************)
(* Two exchanges against an upstream whose name resolves to one or to two  *)
(* addresses, the record free to change once, on a route with two hooks    *)
(* and one permit; a retry policy of each kind that matters, and none.     *)
(***************************************************************************)
EXTENDS Exchange

CONSTANTS a, b, c, main, rival

MCAddrs == {a, b, c}
MCAnswers == {<<a>>, <<b, c>>}
MCMaxAddrs == 2
MCPolicy(n, connect, transport, any) ==
    [attempts |-> n, on_connect |-> connect, on_transport |-> transport,
     non_idempotent |-> any]
MCRetries == {MCPolicy(2, TRUE, TRUE, FALSE), MCPolicy(1, FALSE, TRUE, TRUE)}
MCStarts == {0}
MCMaxTries == 4
MCExchanges == {main, rival}
MCSetting(total, ttl, hooks, others, changes) ==
    [total |-> total, ttl |-> ttl, hooks |-> hooks, others |-> others,
     repoints |-> changes]
MCSettings == {MCSetting(4, 2, 2, {rival}, 0), MCSetting(None, 2, 0, {}, 1),
               MCSetting(4, 0, 2, {}, 1)}

\* Bound: a behaviour is followed until Main is over.
MCUntilOver == ex[Main].stage # "over"

=============================================================================
