------------------------------- MODULE Pools -------------------------------
(***************************************************************************)
(* An upstream that is a pool (upstream.rs): the addresses its target      *)
(* names resolve to are the members, DnsDiscovery refreshes them in the    *)
(* background, health checks take members out of rotation and requests     *)
(* select one of the rest.                                                 *)
(*                                                                         *)
(* Names are looked up one after the other while their records change, so  *)
(* one refresh may see the records of different moments.  An answer is the *)
(* set of its addresses (member_set skips an address a name lists twice),  *)
(* a target its index; which healthy member a balancer picks is left open. *)
(* The balancer itself is Pingora's: it swaps the set in one step,         *)
(* compares members by address and weight only and keeps the health of     *)
(* the members that stay.                                                  *)
(***************************************************************************)
EXTENDS Integers, Sequences, FiniteSets

CONSTANTS
    NTargets,       \* configured targets
    Addrs,          \* addresses
    Weight,         \* a target's weight
    Zones,          \* what the names may resolve to at one moment
    MaxMembers,     \* discovery.max_members
    HealthyAfter, UnhealthyAfter,   \* health_check thresholds
    Requests,
    MaxChanges,     \* bound: changes of the records
    MaxFailures,    \* bound: lookups that fail or time out
    Unset

Targets == 1..NTargets

ASSUME PoolsConfig ==
    /\ NTargets \in Nat \ {0} /\ MaxMembers \in Nat \ {0}
    /\ IsFiniteSet(Addrs)
    /\ Weight \in [Targets -> Nat \ {0}]
    /\ Zones \subseteq [Targets -> SUBSET Addrs]
    /\ HealthyAfter \in Nat \ {0} /\ UnhealthyAfter \in Nat \ {0}
    /\ MaxChanges \in Nat /\ MaxFailures \in Nat

VARIABLES
    dns,        \* what the names resolve to now
    changes, failures,
    primed,     \* DnsDiscovery::primed
    owners,     \* DnsDiscovery::owners: an address's target, 0 for none
    members,    \* the set the balancer selects from
    health,     \* an address's health
    pc,         \* the balancer's background task
    answers,    \* the lookups of the refresh under way
    chosen,     \* what `select` returned to a request
    listed,     \* history: the answers last accepted
    streak      \* history: the last results of an address's checks

vars == <<dns, changes, failures, primed, owners, members, health, pc, answers,
          chosen, listed, streak>>

Member == [addr: Addrs, weight: Nat, target: Targets]
Health == [healthy: BOOLEAN, counter: Nat]
Selected == [addr: Addrs, target: Targets]

\* The shape of the state.
TypeOK ==
    /\ dns \in [Targets -> SUBSET Addrs]
    /\ changes \in Nat /\ failures \in Nat
    /\ primed \in (SUBSET Member) \cup {Unset}
    /\ owners \in [Addrs -> 0..NTargets]
    /\ members \in SUBSET Member
    /\ health \in [Addrs -> Health]
    /\ pc \in {"starting", "idle", "lookup"}
    /\ answers \in Seq(SUBSET Addrs)
    /\ chosen \in [Requests -> Selected \cup {Unset}]
    /\ listed \in [Targets -> SUBSET Addrs]
    /\ streak \in [Addrs -> [passed: BOOLEAN, n: Nat]]

NewHealth == [healthy |-> TRUE, counter |-> 0]
NoChecks == [passed |-> TRUE, n |-> 0]
NoOwners == [a \in Addrs |-> 0]

-----------------------------------------------------------------------------
\* Faulty variants of member_set's refusals: the owners of the set in service
\* are not looked at; a target without addresses is left out of the pool.
AcceptableAnyOwner(found, current) ==
    /\ \A t \in Targets : found[t] # {}
    /\ \A s, t \in Targets : s # t => found[s] \cap found[t] = {}
    /\ Cardinality(UNION {found[t] : t \in Targets}) <= MaxMembers

\* member_set refuses a target without addresses, an address of two targets, one
\* that belongs to another target of the set in service, and too many members.
Acceptable(found, current) ==
    /\ \A t \in Targets : found[t] # {}
    /\ \A s, t \in Targets : s # t => found[s] \cap found[t] = {}
    /\ \A t \in Targets : \A a \in found[t] : current[a] \in {0, t}
    /\ Cardinality(UNION {found[t] : t \in Targets}) <= MaxMembers

\* What member_set returns otherwise: the members, each with its TargetIndex ...
MemberSet(found) ==
    {m \in [addr: Addrs, weight: {Weight[t] : t \in Targets}, target: Targets] :
        m.addr \in found[m.target] /\ m.weight = Weight[m.target]}

\* ... and the owner of each address.
OwnersOf(found) ==
    [a \in Addrs |-> IF \E t \in Targets : a \in found[t]
                     THEN CHOOSE t \in Targets : a \in found[t] ELSE 0]

\* Backend's equality, without `ext`.
Visible(set) == {<<m.addr, m.weight>> : m \in set}

AddrsOf(set) == {m.addr : m \in set}

\* Backends::update: an equal set changes nothing, another replaces it and the
\* members that stay keep their health.
Update(set) ==
    IF Visible(set) = Visible(members)
    THEN UNCHANGED <<members, health, streak>>
    ELSE LET kept == AddrsOf(set) \cap AddrsOf(members) IN
         /\ members' = set
         /\ health' = [a \in Addrs |-> IF a \in kept THEN health[a] ELSE NewHealth]
         /\ streak' = [a \in Addrs |-> IF a \in kept THEN streak[a] ELSE NoChecks]

\* build_pool: resolve_at_startup and member_set succeeded, or the gateway does
\* not start.
Init ==
    /\ dns \in {z \in Zones : Acceptable(z, NoOwners)}
    /\ changes = 0 /\ failures = 0
    /\ primed = MemberSet(dns)
    /\ owners = OwnersOf(dns)
    /\ members = {}
    /\ health = [a \in Addrs |-> NewHealth]
    /\ pc = "starting"
    /\ answers = <<>>
    /\ chosen = [r \in Requests |-> Unset]
    /\ listed = dns
    /\ streak = [a \in Addrs |-> NoChecks]

\* discover hands out the startup set, once: to `prime`, before there is traffic.
Prime ==
    /\ pc # "lookup"
    /\ primed # Unset
    /\ Update(primed)
    /\ primed' = Unset
    /\ pc' = "idle"
    /\ UNCHANGED <<dns, changes, failures, owners, answers, chosen, listed>>

\* The refresh interval has passed and discover looks the names up.
BeginRefresh ==
    /\ pc = "idle"
    /\ primed = Unset
    /\ pc' = "lookup"
    /\ answers' = <<>>
    /\ UNCHANGED <<dns, changes, failures, primed, owners, members, health, chosen,
                   listed, streak>>

\* One target's lookup is answered ...
Lookup ==
    /\ pc = "lookup"
    /\ Len(answers) < NTargets
    /\ answers' = Append(answers, dns[Len(answers) + 1])
    /\ UNCHANGED <<dns, changes, failures, primed, owners, members, health, pc,
                   chosen, listed, streak>>

\* ... or fails or times out, which discards the refresh.
LookupFails ==
    /\ pc = "lookup"
    /\ Len(answers) < NTargets
    /\ failures < MaxFailures
    /\ failures' = failures + 1
    /\ answers' = <<>>
    /\ pc' = "idle"
    /\ UNCHANGED <<dns, changes, primed, owners, members, health, chosen, listed,
                   streak>>

\* Faulty variant: the owners stay those of the first set.
DiscoverKeepsOwners ==
    /\ pc = "lookup"
    /\ Len(answers) = NTargets
    /\ IF Acceptable(answers, owners)
       THEN /\ Update(MemberSet(answers))
            /\ listed' = answers
       ELSE UNCHANGED <<members, health, streak, listed>>
    /\ answers' = <<>>
    /\ pc' = "idle"
    /\ UNCHANGED <<dns, changes, failures, primed, owners, chosen>>

\* All names are resolved: the new set is accepted, or the refresh discarded.
Discover ==
    /\ pc = "lookup"
    /\ Len(answers) = NTargets
    /\ IF Acceptable(answers, owners)
       THEN /\ owners' = OwnersOf(answers)
            /\ Update(MemberSet(answers))
            /\ listed' = answers
       ELSE UNCHANGED <<owners, members, health, streak, listed>>
    /\ answers' = <<>>
    /\ pc' = "idle"
    /\ UNCHANGED <<dns, changes, failures, primed, chosen>>

-----------------------------------------------------------------------------
\* Faulty variant: the thresholds are swapped.
HealthThresholdSwapped(success) == IF success THEN UnhealthyAfter ELSE HealthyAfter

\* PoolHttpHealthCheck::health_threshold.
HealthThreshold(success) == IF success THEN HealthyAfter ELSE UnhealthyAfter

\* Pingora's Health: it flips after `threshold` results against it in a row.
Observed(h, success) ==
    IF h.healthy = success THEN [h EXCEPT !.counter = 0]
    ELSE IF h.counter + 1 >= HealthThreshold(success)
         THEN [healthy |-> success, counter |-> 0]
         ELSE [h EXCEPT !.counter = @ + 1]

\* Bound on the results remembered.
Longest == HealthyAfter + UnhealthyAfter

\* One member's check ends; the background task refreshes and checks in turn.
Check(m, success) ==
    /\ pc = "idle"
    /\ health' = [health EXCEPT ![m.addr] = Observed(@, success)]
    /\ streak' = [streak EXCEPT ![m.addr] =
           [passed |-> success,
            n |-> IF @.passed # success THEN 1
                  ELSE IF @.n < Longest THEN @.n + 1 ELSE @.n]]
    /\ UNCHANGED <<dns, changes, failures, primed, owners, members, pc, answers,
                   chosen, listed>>

\* Backends::ready.
Ready(m) == health[m.addr].healthy

\* Upstream::select for a request, which dials the address under the name and
\* the TLS settings of the member's target.
Select(r) ==
    /\ pc # "starting"
    /\ chosen[r] = Unset
    /\ \E m \in members :
          /\ Ready(m)
          /\ chosen' = [chosen EXCEPT ![r] = [addr |-> m.addr, target |-> m.target]]
    /\ UNCHANGED <<dns, changes, failures, primed, owners, members, health, pc,
                   answers, listed, streak>>

Finish(r) ==
    /\ chosen[r] # Unset
    /\ chosen' = [chosen EXCEPT ![r] = Unset]
    /\ UNCHANGED <<dns, changes, failures, primed, owners, members, health, pc,
                   answers, listed, streak>>

\* The records change.
ChangeRecords ==
    /\ changes < MaxChanges
    /\ \E z \in Zones : z # dns /\ dns' = z
    /\ changes' = changes + 1
    /\ UNCHANGED <<failures, primed, owners, members, health, pc, answers, chosen,
                   listed, streak>>

Next ==
    \/ Prime
    \/ BeginRefresh
    \/ Lookup
    \/ LookupFails
    \/ Discover
    \/ \E m \in members, success \in BOOLEAN : Check(m, success)
    \/ \E r \in Requests : Select(r) \/ Finish(r)
    \/ ChangeRecords

Spec == Init /\ [][Next]_vars

\* The background task runs for as long as the gateway does, and every lookup
\* ends within its timeout.
FairSpec ==
    /\ Spec
    /\ WF_vars(Prime) /\ WF_vars(BeginRefresh)
    /\ WF_vars(Lookup) /\ WF_vars(Discover)

-----------------------------------------------------------------------------
(***************************************************************************)
(* A request dials an address under the authority and TLS settings of the  *)
(* target whose name lists it in the answers last accepted, although the   *)
(* balancer does not see a member change its target.                       *)
(***************************************************************************)
DialledUnderItsName ==
    [][\A r \in Requests :
          chosen[r] = Unset /\ chosen'[r] # Unset =>
              chosen'[r].addr \in listed[chosen'[r].target]]_vars

(***************************************************************************)
(* Refreshes apply whole or not at all: whatever mixture of failed, empty, *)
(* overlapping and outdated answers they see, every configured target      *)
(* keeps a member and the pool its bound.                                  *)
(***************************************************************************)
WholeSet ==
    pc # "starting" =>
        /\ \A t \in Targets : \E m \in members : m.target = t
        /\ Cardinality(members) <= MaxMembers

(***************************************************************************)
(* A member that failed `unhealthy_after` checks in a row is not selected, *)
(* one that passed `healthy_after` is, refreshes in between or not.        *)
(***************************************************************************)
SickMemberShunned ==
    \A m \in members :
        /\ ~streak[m.addr].passed /\ streak[m.addr].n >= UnhealthyAfter => ~Ready(m)
        /\ streak[m.addr].passed /\ streak[m.addr].n >= HealthyAfter => Ready(m)

\* The records name an address under another target than the one it serves, or
\* are refused for themselves: such a change needs a restart.
NeedsRestart ==
    \/ ~Acceptable(dns, NoOwners)
    \/ \E m \in members, t \in Targets : m.addr \in dns[t] /\ t # m.target

(***************************************************************************)
(* Once the records stay put and lookups succeed, the pool follows them,   *)
(* unless they move an address between targets that are in service.        *)
(***************************************************************************)
FollowsDns == <>[](members = MemberSet(dns) \/ NeedsRestart)

=============================================================================
