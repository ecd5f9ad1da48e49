------------------------------ MODULE RunModel ------------------------------
(***************************************************************************)
(* The RunState aggregate of one GoalRouter run and the pure decisions the *)
(* scheduler, the approval service and the application take from it.       *)
(* Nothing here changes a state: GoalRouter.tla applies these operators.   *)
(*                                                                         *)
(* A prompt, a title, a token count or a report line is not modelled; an   *)
(* item is its identifier, its dependencies and its access mode, a route   *)
(* is the configuration that resolved it, and an approval fingerprint is   *)
(* what the hash of scheduler input depends on: item, digest and route.    *)
(* Base holds identifiers that the redaction of state.json leaves alone;   *)
(* RunStore.tla models what it does to the others.                         *)
(***************************************************************************)
EXTENDS Integers, FiniteSets

CONSTANTS
  Base,           \* identifiers a planner may give, ordered as sorted() does
  Config,         \* configuration digests
  NeedsApproval,  \* [Config -> SUBSET Item]: routed with approval "required"
  WriteSandbox,   \* [Config -> SUBSET Item]: routed with a workspace-write sandbox
  Plans,          \* the work-item lists a planner or a task command may produce
  MaxReaders      \* maximum-read-concurrency

Completion == 0   \* _COMPLETION_ID, appended after the base work succeeded

Item == Base \cup {Completion}

(***************************************************************************)
(* A plan as _parse_semantic_work_items accepts it: known dependencies and *)
(* no cycle (every set of items has one that depends on none of the set).  *)
(***************************************************************************)
ValidPlan(plan) ==
  /\ plan.items \subseteq Base
  /\ plan.items # {}
  /\ plan.writers \subseteq plan.items
  /\ \A i \in plan.items : plan.deps[i] \subseteq plan.items
  /\ \A S \in SUBSET plan.items : S # {} => \E i \in S : plan.deps[i] \cap S = {}

Plan == [explicit: BOOLEAN, items: SUBSET Base, deps: [Base -> SUBSET Base],
         writers: SUBSET Base]

ASSUME BaseAssumption   == Base \subseteq Nat \ {0} /\ IsFiniteSet(Base)
ASSUME ConfigAssumption == Config # {}
ASSUME PolicyAssumption == /\ NeedsApproval \in [Config -> SUBSET Item]
                           /\ WriteSandbox \in [Config -> SUBSET Item]
ASSUME PlansAssumption  == Plans \subseteq Plan /\ \A plan \in Plans : ValidPlan(plan)
ASSUME MaxReadersAssumption == MaxReaders \in Nat \ {0}

Outcome == {"succeeded", "failed", "blocked"}
RunStatus == {"planned", "awaiting-approval", "running", "completed", "failed", "blocked"}

Approval == [item: Item, digest: Config, route: Config]

RunState ==
  [plan: Plan, reviewed: BOOLEAN, digest: Config, routes: [Item -> Config],
   results: [Item -> Outcome \cup {"none"}], approvals: SUBSET Approval,
   status: RunStatus]

-----------------------------------------------------------------------------
(* The aggregate.                                                          *)

WorkItems(s) == s.plan.items \cup (IF s.reviewed THEN {Completion} ELSE {})

\* The completion item depends on every item that was there when it was appended.
Dependencies(s, i) == IF i = Completion THEN s.plan.items ELSE s.plan.deps[i]

WriterItems(s) == s.plan.writers \ {Completion}

Succeeded(s, i) == s.results[i] = "succeeded"

NewRun(plan, config) ==
  [plan |-> plan, reviewed |-> FALSE, digest |-> config,
   routes |-> [i \in Item |-> config], results |-> [i \in Item |-> "none"],
   approvals |-> {}, status |-> "planned"]

WithResult(s, i, outcome) == [s EXCEPT !.results[i] = outcome]

WithStatus(s, status) == [s EXCEPT !.status = status]

-----------------------------------------------------------------------------
(* approvals.py                                                            *)

Fingerprint(s, i) == [item |-> i, digest |-> s.digest, route |-> s.routes[i]]

\* ApprovalService.approve: the record replaces an earlier one for the item.
Approve(s, i) ==
  [s EXCEPT !.approvals = {a \in @ : a.item # i} \cup {Fingerprint(s, i)}]

\* ApprovalService.require_dispatchable without its error texts.
RequireDispatchable(s, i) ==
  i \in NeedsApproval[s.routes[i]] => Fingerprint(s, i) \in s.approvals

-----------------------------------------------------------------------------
(* scheduler.py                                                            *)

\* Mutant of PendingItems: failed items may be run again.
PendingItemsRetried(s) == {i \in WorkItems(s) : s.results[i] \in {"none", "failed"}}

PendingItems(s) == {i \in WorkItems(s) : s.results[i] = "none"}

\* Mutant of NewlyBlocked: a dependency without a result counts as failed.
NewlyBlockedByMissing(s) ==
  {i \in PendingItems(s) : \E d \in Dependencies(s, i) : ~Succeeded(s, d)}

NewlyBlocked(s) ==
  {i \in PendingItems(s) :
     \E d \in Dependencies(s, i) : s.results[d] \in {"failed", "blocked"}}

\* Mutant of Dispatchable: any terminal dependency will do.
DispatchableAfterAny(s) ==
  {i \in PendingItems(s) :
     /\ \A d \in Dependencies(s, i) : s.results[d] # "none"
     /\ RequireDispatchable(s, i)}

Dispatchable(s) ==
  {i \in PendingItems(s) :
     /\ \A d \in Dependencies(s, i) : Succeeded(s, d)
     /\ RequireDispatchable(s, i)}

\* The writer the code takes: writers[0] of the ready list, in sorted order.
IsFirst(i, S) == i \in S /\ \A j \in S : i <= j

\* ready[: max_read_concurrency].
ReadBatch(ready) == {i \in ready : Cardinality({j \in ready : j < i}) < MaxReaders}

AllSucceeded(s) == \A i \in WorkItems(s) : Succeeded(s, i)

AwaitsApproval(s) ==
  \E i \in WorkItems(s) : s.results[i] = "none" /\ i \in NeedsApproval[s.routes[i]]

\* Mutant of FinalStatus: blocked is looked for before failed.
FinalStatusBlockedFirst(s) ==
  LET has(outcome) == \E i \in WorkItems(s) : s.results[i] = outcome IN
  CASE has("blocked") -> "blocked"
    [] ~has("blocked") /\ has("failed") -> "failed"
    [] AllSucceeded(s) -> "completed"
    [] OTHER -> IF AwaitsApproval(s) THEN "awaiting-approval" ELSE "planned"

FinalStatus(s) ==
  LET has(outcome) == \E i \in WorkItems(s) : s.results[i] = outcome IN
  CASE has("failed") -> "failed"
    [] ~has("failed") /\ has("blocked") -> "blocked"
    [] AllSucceeded(s) -> "completed"
    [] OTHER -> IF AwaitsApproval(s) THEN "awaiting-approval" ELSE "planned"

-----------------------------------------------------------------------------
(* application.py                                                          *)

BaseWorkSucceeded(s) == s.plan.items # {} /\ \A i \in s.plan.items : Succeeded(s, i)

\* Mutant of AdoptCurrentConfiguration: unfinished work keeps its old routes.
AdoptWithoutRerouting(s, config) == [s EXCEPT !.digest = config, !.approvals = {}]

\* Mutant of AdoptCurrentConfiguration: failed work is made pending again.
AdoptAndRetry(s, config) ==
  [s EXCEPT !.routes = [i \in Item |-> config],
            !.results = [i \in Item |-> IF s.results[i] = "failed" THEN "none"
                                        ELSE s.results[i]],
            !.digest = config,
            !.approvals = {}]

\* Terminal results, and the routes they were obtained under, stay.
AdoptCurrentConfiguration(s, config) ==
  [s EXCEPT !.routes = [i \in Item |-> IF s.results[i] = "none" THEN config
                                       ELSE s.routes[i]],
            !.digest = config,
            !.approvals = {}]

AppendCompletion(s, config) ==
  [s EXCEPT !.reviewed = TRUE,
            !.routes[Completion] = config,
            !.status = "planned"]
=============================================================================
