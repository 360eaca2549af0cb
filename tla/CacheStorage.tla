---------------------------- MODULE CacheStorage ----------------------------
(***************************************************************************)
(* The response cache's storage (cache/storage.rs): concurrent fills that  *)
(* buffer a body against a shared budget, entries that are published whole *)
(* or not at all, and revalidations that write new metadata on a body that *)
(* is already stored.                                                      *)
(*                                                                         *)
(* Every access to the shared byte counter is a step of its own.  A body   *)
(* is its length, and a header the length of the response it describes;    *)
(* pingora-cache calls finish only after the whole body was written, and   *)
(* drops the handler when the exchange fails before.  It looks an entry up *)
(* long before it calls update_meta with that entry's header, renewed by   *)
(* the upstream's 304 but still of the same response.                      *)
(***************************************************************************)
EXTENDS Integers, FiniteSets, FiniteSetsExt

CONSTANTS
    Fills,      \* fill tasks
    Revalidations, \* requests that find an entry and ask the upstream for a newer
    Keys,       \* cache keys
    MaxObject,  \* max_object_bytes
    MaxFill,    \* max_fill_bytes
    Lengths,    \* response body lengths
    Chunks,     \* sizes of the pieces they arrive in
    None

\* `expected` is the length of the response the body is of.  History: the header
\* was put on it by a revalidation that another write had overtaken.
Entry == [header: Nat, body: Nat, expected: Nat, overtaken: BOOLEAN]

\* A revalidation: the header it looked up, whether another write of the key came
\* since (history), and what update_meta has found, once called.
Revalidation == [key: Keys, header: Nat, overtaken: BOOLEAN, existing: {None} \cup Entry]

ASSUME CacheConfig ==
    /\ IsFiniteSet(Fills) /\ Keys # {}
    /\ MaxObject \in Nat /\ MaxFill \in Nat
    /\ Lengths \subseteq Nat /\ Chunks \subseteq Nat \ {0}
    /\ None \notin Nat \cup Entry \cup Revalidation

VARIABLES
    filling,   \* MemoryStorage.filling
    entries,   \* MemoryStorage.entries, by key
    updating,  \* the revalidations in progress
    pc,        \* where a fill is
    key,       \* Miss.key
    body,      \* Miss.body
    tooLarge,  \* Miss.too_large
    chunk,     \* the data write_body was called with
    expected,  \* the length of the response being cached
    arrived    \* how much of it the upstream has delivered

vars == <<filling, entries, updating, pc, key, body, tooLarge, chunk, expected,
          arrived>>

\* The shape of the state.
TypeOK ==
    /\ filling \in Nat
    /\ entries \in [Keys -> {None} \cup Entry]
    /\ updating \in [Revalidations -> {None} \cup Revalidation]
    /\ pc \in [Fills -> {"none", "open", "reserve", "abandon",
                         "publish", "drop"}]
    /\ key \in [Fills -> Keys]
    /\ body \in [Fills -> Nat]
    /\ tooLarge \in [Fills -> BOOLEAN]
    /\ chunk \in [Fills -> Nat]
    /\ expected \in [Fills -> Nat]
    /\ arrived \in [Fills -> Nat]

Init ==
    /\ filling = 0
    /\ entries = [k \in Keys |-> None]
    /\ updating = [r \in Revalidations |-> None]
    /\ pc = [f \in Fills |-> "none"]
    /\ key = [f \in Fills |-> CHOOSE k \in Keys : TRUE]
    /\ body = [f \in Fills |-> 0]
    /\ tooLarge = [f \in Fills |-> FALSE]
    /\ chunk = [f \in Fills |-> 0]
    /\ expected = [f \in Fills |-> 0]
    /\ arrived = [f \in Fills |-> 0]

-----------------------------------------------------------------------------

(* get_miss_handler.  pingora-cache's lock keeps other fills off the key,  *)
(* until it times out: no exclusion is assumed here.                       *)
Open(f) ==
    /\ pc[f] = "none"
    /\ pc' = [pc EXCEPT ![f] = "open"]
    /\ \E k \in Keys : key' = [key EXCEPT ![f] = k]
    /\ \E n \in Lengths : expected' = [expected EXCEPT ![f] = n]
    /\ body' = [body EXCEPT ![f] = 0]
    /\ tooLarge' = [tooLarge EXCEPT ![f] = FALSE]
    /\ chunk' = [chunk EXCEPT ![f] = 0]
    /\ arrived' = [arrived EXCEPT ![f] = 0]
    /\ UNCHANGED <<filling, entries, updating>>

(* write_body up to the reservation: an abandoned fill ignores the data,   *)
(* one that would outgrow max_object_size is abandoned.                    *)
WriteBody(f) ==
    /\ pc[f] = "open"
    /\ \E n \in Chunks :
           /\ arrived[f] + n <= expected[f]
           /\ arrived' = [arrived EXCEPT ![f] = @ + n]
           /\ chunk' = [chunk EXCEPT ![f] = IF tooLarge[f] THEN 0 ELSE n]
           /\ pc' = [pc EXCEPT ![f] =
                  IF tooLarge[f] THEN "open"
                  ELSE IF body[f] + n > MaxObject THEN "abandon"
                  ELSE "reserve"]
    /\ UNCHANGED <<filling, entries, updating, key, body, tooLarge, expected>>

(* MemoryStorage::reserve, one fetch_update, then the data is appended. *)
Reserve(f) ==
    /\ pc[f] = "reserve"
    /\ IF filling + chunk[f] <= MaxFill
       THEN /\ filling' = filling + chunk[f]
            /\ body' = [body EXCEPT ![f] = @ + chunk[f]]
            /\ pc' = [pc EXCEPT ![f] = "open"]
       ELSE /\ pc' = [pc EXCEPT ![f] = "abandon"]
            /\ UNCHANGED <<filling, body>>
    /\ chunk' = [chunk EXCEPT ![f] = 0]
    /\ UNCHANGED <<entries, updating, key, tooLarge, expected, arrived>>

(* A plausible bug: the buffer is emptied but the fill goes on. *)
AbandonForgotten(f) ==
    /\ pc[f] = "abandon"
    /\ filling' = filling - body[f]
    /\ body' = [body EXCEPT ![f] = 0]
    /\ pc' = [pc EXCEPT ![f] = "open"]
    /\ UNCHANGED <<entries, updating, key, tooLarge, chunk, expected, arrived>>

(* Miss::abandon. *)
Abandon(f) ==
    /\ pc[f] = "abandon"
    /\ tooLarge' = [tooLarge EXCEPT ![f] = TRUE]
    /\ filling' = filling - body[f]
    /\ body' = [body EXCEPT ![f] = 0]
    /\ pc' = [pc EXCEPT ![f] = "open"]
    /\ chunk' = [chunk EXCEPT ![f] = 0]
    /\ UNCHANGED <<entries, updating, key, expected, arrived>>

(* A plausible bug: the bytes stay in the handler, whose drop gives them   *)
(* back a second time.                                                     *)
FinishTwice(f) ==
    /\ pc[f] = "open"
    /\ arrived[f] = expected[f]
    /\ filling' = IF tooLarge[f] THEN filling ELSE filling - body[f]
    /\ chunk' = [chunk EXCEPT ![f] = body[f]]
    /\ pc' = [pc EXCEPT ![f] = IF tooLarge[f] THEN "drop" ELSE "publish"]
    /\ UNCHANGED <<entries, updating, key, body, tooLarge, expected, arrived>>

(* finish, first half: an abandoned fill is an error and is dropped; the   *)
(* body is taken out of the handler and its bytes leave the budget.        *)
Finish(f) ==
    /\ pc[f] = "open"
    /\ arrived[f] = expected[f]
    /\ IF tooLarge[f]
       THEN /\ pc' = [pc EXCEPT ![f] = "drop"]
            /\ UNCHANGED <<filling, body, chunk>>
       ELSE /\ filling' = filling - body[f]
            /\ chunk' = [chunk EXCEPT ![f] = body[f]]
            /\ body' = [body EXCEPT ![f] = 0]
            /\ pc' = [pc EXCEPT ![f] = "publish"]
    /\ UNCHANGED <<entries, updating, key, tooLarge, expected, arrived>>

(* The revalidations once the entry under a key is replaced: those that    *)
(* looked the old one up and have not called update_meta are overtaken.    *)
Overtaken(k) ==
    [r \in Revalidations |->
        IF updating[r] # None /\ updating[r].key = k /\ updating[r].existing = None
        THEN [updating[r] EXCEPT !.overtaken = TRUE] ELSE updating[r]]

(* finish, second half: the entry appears in one step. *)
Publish(f) ==
    /\ pc[f] = "publish"
    /\ entries' = [entries EXCEPT ![key[f]] =
           [header |-> expected[f], body |-> chunk[f], expected |-> expected[f],
            overtaken |-> FALSE]]
    /\ updating' = Overtaken(key[f])
    /\ pc' = [pc EXCEPT ![f] = "drop"]
    /\ UNCHANGED <<filling, key, body, tooLarge, chunk, expected,
                   arrived>>

(* The exchange fails or the client goes away: the handler is dropped. *)
Cancel(f) ==
    /\ pc[f] = "open"
    /\ pc' = [pc EXCEPT ![f] = "drop"]
    /\ UNCHANGED <<filling, entries, updating, key, body, tooLarge, chunk,
                   expected, arrived>>

(* Drop for Miss, after which there is no handler. *)
Drop(f) ==
    /\ pc[f] = "drop"
    /\ filling' = filling - body[f]
    /\ body' = [body EXCEPT ![f] = 0]
    /\ pc' = [pc EXCEPT ![f] = "none"]
    /\ key' = [key EXCEPT ![f] = CHOOSE k \in Keys : TRUE]
    /\ tooLarge' = [tooLarge EXCEPT ![f] = FALSE]
    /\ chunk' = [chunk EXCEPT ![f] = 0]
    /\ expected' = [expected EXCEPT ![f] = 0]
    /\ arrived' = [arrived EXCEPT ![f] = 0]
    /\ UNCHANGED <<entries, updating>>

(* The store makes room, or pingora's eviction manager purges the key. *)
Purge(k) ==
    /\ entries[k] # None
    /\ entries' = [entries EXCEPT ![k] = None]
    /\ UNCHANGED <<filling, updating, pc, key, body, tooLarge, chunk, expected,
                   arrived>>

(* lookup, for a request that will ask the upstream whether the entry is   *)
(* still good.                                                             *)
LookupStale(r, k) ==
    /\ updating[r] = None
    /\ entries[k] # None
    /\ updating' = [updating EXCEPT ![r] =
           [key |-> k, header |-> entries[k].header, overtaken |-> FALSE,
            existing |-> None]]
    /\ UNCHANGED <<filling, entries, pc, key, body, tooLarge, chunk, expected,
                   arrived>>

(* The upstream does not answer 304, or the client goes away. *)
GiveUp(r) ==
    /\ updating[r] # None
    /\ updating[r].existing = None
    /\ updating' = [updating EXCEPT ![r] = None]
    /\ UNCHANGED <<filling, entries, pc, key, body, tooLarge, chunk, expected,
                   arrived>>

(* update_meta, in its two steps.  The entry is read: without one there is *)
(* nothing to update.                                                      *)
UpdateRead(r) ==
    /\ updating[r] # None
    /\ updating[r].existing = None
    /\ LET found == entries[updating[r].key] IN
           updating' = [updating EXCEPT ![r] =
               IF found = None THEN None ELSE [@ EXCEPT !.existing = found]]
    /\ UNCHANGED <<filling, entries, pc, key, body, tooLarge, chunk, expected,
                   arrived>>

(* A plausible bug: the body is taken from the key as it is by now. *)
UpdateInsertAgain(r) ==
    /\ updating[r] # None
    /\ updating[r].existing # None
    /\ entries[updating[r].key] # None
    /\ LET u == updating[r] IN
           /\ entries' = [entries EXCEPT ![u.key] =
                  [header |-> u.header, body |-> @.body, expected |-> @.expected,
                   overtaken |-> u.overtaken \/ u.existing.overtaken]]
           /\ updating' = [Overtaken(u.key) EXCEPT ![r] = None]
    /\ UNCHANGED <<filling, pc, key, body, tooLarge, chunk, expected, arrived>>

(* The caller's metadata goes on the body that was read, whatever became   *)
(* of the key in between.                                                  *)
UpdateInsert(r) ==
    /\ updating[r] # None
    /\ updating[r].existing # None
    /\ LET u == updating[r] IN
           /\ entries' = [entries EXCEPT ![u.key] =
                  [header |-> u.header, body |-> u.existing.body,
                   expected |-> u.existing.expected,
                   overtaken |-> u.overtaken \/ u.existing.overtaken]]
           /\ updating' = [Overtaken(u.key) EXCEPT ![r] = None]
    /\ UNCHANGED <<filling, pc, key, body, tooLarge, chunk, expected, arrived>>

Next ==
    \/ \E f \in Fills :
           \/ Open(f) \/ WriteBody(f) \/ Reserve(f) \/ Abandon(f)
           \/ Finish(f) \/ Publish(f) \/ Cancel(f) \/ Drop(f)
    \/ \E k \in Keys : Purge(k)
    \/ \E r \in Revalidations :
           \/ \E k \in Keys : LookupStale(r, k)
           \/ GiveUp(r) \/ UpdateRead(r) \/ UpdateInsert(r)

Spec == Init /\ [][Next]_vars

-----------------------------------------------------------------------------

(* The counter is exactly what unfinished fills buffer: nothing leaks when *)
(* a fill is abandoned, cancelled or finished, and nothing is given back   *)
(* twice.  A leak would in time refuse every fill.                         *)
FillBytesConserved ==
    filling = MapThenSumSet(LAMBDA f : body[f], Fills)

(* "Memory stays within the sum of the two budgets": the buffers of all    *)
(* unfinished fills together never exceed max_inflight_fill.               *)
FillBudgetHolds == filling <= MaxFill

(* What unfinished fills buffer is counted exactly and bounded: the budget  *)
(* neither leaks, nor gives back twice, nor lets racing fills overrun it.  *)
FillsAccounted == FillBytesConserved /\ FillBudgetHolds

(* "Complete objects only": a stored body is the whole body of a response, *)
(* however the pieces arrived and whatever other fills did to the budget.  *)
CompleteObjectsOnly ==
    \A k \in Keys : entries[k] # None => entries[k].body = entries[k].expected

(* "A consistent meta/body pair": the stored header is of the response the *)
(* stored body is of, whatever fills, purges and revalidations interleave, *)
(* but for one way to come apart: another write of the key between a       *)
(* revalidation's lookup and its update_meta, which the code does not      *)
(* notice.  A write after update_meta has read the entry is lost whole.    *)
PairsAreOfOneResponse ==
    \A k \in Keys :
        entries[k] # None /\ ~entries[k].overtaken => entries[k].header = entries[k].expected

=============================================================================
