------------------------------ MODULE TaskRouting ------------------------------
(***************************************************************************)
(* load_router_config and TaskRouter.route: a configuration is validated   *)
(* once and then routes items, each by a loop over the hard-risk rules     *)
(* that raises a minimum rank, and by the choice of the weakest alias of   *)
(* at least that rank.  One step is one iteration of the loop.             *)
(***************************************************************************)
EXTENDS RoutingPolicy

VARIABLES
  pc,
  config,    \* the validated configuration
  item,      \* the item being routed
  at,        \* index of the next hard-risk rule
  rank,      \* minimum_rank
  approval,
  route      \* the RouteDecision

vars == <<pc, config, item, at, rank, approval, route>>

Pc == {"load", "refused", "ready", "select", "rules", "routed", "unknown", "error"}

TypeOK ==
  /\ pc \in Pc
  /\ config \in Raw \cup {None}
  /\ item \in Request \cup {None}
  /\ at \in Nat
  /\ rank \in Int
  /\ approval \in Mode \cup {None}

Init ==
  /\ pc = "load"
  /\ config = None
  /\ item = None
  /\ at = 1
  /\ rank = 0
  /\ approval = None
  /\ route = None

\* Any ConfigurationError ends the command before it does anything.
Load ==
  /\ pc = "load"
  /\ \E raw \in Raw :
       IF ValidConfiguration(raw)
         THEN config' = raw /\ pc' = "ready"
         ELSE pc' = "refused" /\ UNCHANGED config
  /\ UNCHANGED <<item, at, rank, approval, route>>

\* A call of route.
Ask(request) ==
  /\ pc \in {"ready", "routed"}
  /\ item' = request
  /\ pc' = "select"
  /\ UNCHANGED <<config, at, rank, approval, route>>

\* select_task: every caller names a task, explicitly or in its item.
SelectTask ==
  /\ pc = "select"
  /\ IF item.task \in DOMAIN config.tasks
       THEN LET policy == config.tasks[item.task] IN
            /\ rank' = Rank(config, policy.alias)
            /\ approval' = policy.approval
            /\ at' = 1
            /\ pc' = "rules"
       ELSE pc' = "unknown" /\ UNCHANGED <<at, rank, approval>>
  /\ UNCHANGED <<config, item, route>>

\* Mutant of Raised: the last active rule decides.
RaisedByLast(rule) == IF rule.minimum = None THEN rank ELSE Rank(config, rule.minimum)

\* max(minimum_rank, minimum.rank)
Raised(rule) ==
  IF rule.minimum # None /\ Rank(config, rule.minimum) > rank
    THEN Rank(config, rule.minimum) ELSE rank

Known(rule) == rule.minimum \in DOMAIN config.aliases \cup {None}

\* One iteration over hard_risk_rules.
ApplyRule ==
  /\ pc = "rules"
  /\ at \in DOMAIN config.risks
  /\ LET rule == config.risks[at] IN
     CASE rule.flag \notin ActiveFlags(config, item) -> UNCHANGED <<pc, rank, approval>>
       [] rule.flag \in ActiveFlags(config, item) /\ ~Known(rule) ->
            pc' = "error" /\ UNCHANGED <<rank, approval>>
       [] OTHER -> /\ rank' = Raised(rule)
                   /\ approval' = IF rule.approval = "required" THEN "required" ELSE approval
                   /\ UNCHANGED pc
  /\ at' = at + 1
  /\ UNCHANGED <<config, item, route>>

Candidates == {a \in DOMAIN config.aliases : Rank(config, a) >= rank}

\* RouteDecision of the candidate of least rank.
Decision(alias) ==
  LET policy == config.tasks[item.task] IN
  [task |-> item.task, alias |-> alias, model |-> config.aliases[alias].model,
   sandbox |-> policy.sandbox, approval |-> approval,
   destructive |-> policy.destructive \/ "destructive" \in item.flags,
   external |-> policy.external \/ "external-write" \in item.flags]

ChooseAlias ==
  /\ pc = "rules"
  /\ at \notin DOMAIN config.risks
  /\ IF Candidates = {}
       THEN pc' = "error" /\ UNCHANGED route
       ELSE \E alias \in Candidates :
              /\ \A a \in Candidates : Rank(config, alias) <= Rank(config, a)
              /\ route' = Decision(alias)
              /\ pc' = "routed"
  /\ UNCHANGED <<config, item, at, rank, approval>>

Routing == SelectTask \/ ApplyRule \/ ChooseAlias

Next == Load \/ (\E request \in Request : Ask(request)) \/ Routing

Spec == Init /\ [][Next]_vars

-----------------------------------------------------------------------------
(* Properties.                                                             *)

\* What validation lets through never fails route for a reason but an unknown task.
NeverMisconfigured == pc # "error"

\* A route is the weakest that no policy and no active rule forbids.
FloorsHold == pc = "routed" => MeetsFloors(config, item, route)
=============================================================================
