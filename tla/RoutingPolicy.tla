----------------------------- MODULE RoutingPolicy -----------------------------
(***************************************************************************)
(* The routing configuration task-models.yaml, as the schema admits it and *)
(* as load_router_config validates it, and the items that are routed.      *)
(* Efforts, timeouts, attempts and descriptions are carried along by the   *)
(* code without a decision and are left out.                               *)
(***************************************************************************)
EXTENDS Integers, Sequences

CONSTANTS
  Alias, Model, Task, Flag,
  None,      \* an optional field that is absent, and "nothing yet"
  Raw,       \* the schema-valid files an operator may write
  Lists,     \* the work-item lists a planner's response may hold
  Id         \* identifiers, of work items and of their dependencies

Sandbox == {"read-only", "workspace-write"}
Mode == {"automatic", "required"}

Policy == [alias: Alias, sandbox: Sandbox, approval: Mode, destructive: BOOLEAN,
           external: BOOLEAN, escalation: Task \cup {None}]

HardRiskRule == [flag: Flag, minimum: Alias \cup {None}, approval: Mode \cup {None}]

\* default-task, planner-task, completion-task, aliases, tasks, matching_rules, hard_risk_rules
IsRouterConfig(raw) ==
  /\ {raw.default, raw.planner, raw.completion} \subseteq Task
  /\ DOMAIN raw.aliases \subseteq Alias
  /\ \A a \in DOMAIN raw.aliases : raw.aliases[a] \in [rank: Int, model: Model]
  /\ DOMAIN raw.tasks \subseteq Task
  /\ \A t \in DOMAIN raw.tasks : raw.tasks[t] \in Policy
  /\ raw.matching \subseteq Task
  /\ raw.risks \in Seq(HardRiskRule)

Access == {"read-only", "workspace-write"}

\* A planner's item; flawed: no verification of a write, or a path that escapes.
WorkItem == [id: Id, dependencies: SUBSET Id, task: Task, flags: SUBSET Flag,
             access: Access, flawed: BOOLEAN]

\* What a route depends on, and which caller made the item.
Kind == {"planner", "planned", "explicit", "completion"}
Request == [kind: Kind, task: Task, flags: SUBSET Flag, access: Access]

RouteDecision == [task: Task, alias: Alias, model: Model, sandbox: Sandbox, approval: Mode,
                  destructive: BOOLEAN, external: BOOLEAN]

ASSUME FlagAssumption == {"destructive", "external-write"} \subseteq Flag
ASSUME NoneAssumption ==
  None \notin Alias /\ None \notin Task /\ None \notin Mode /\ None \notin Raw /\ None \notin Request
ASSUME RawAssumption == \A raw \in Raw : IsRouterConfig(raw)
ASSUME ListsAssumption == Lists \subseteq Seq(WorkItem)

-----------------------------------------------------------------------------
(* _validate_semantics                                                     *)

RanksValid(raw) ==
  /\ \A a \in DOMAIN raw.aliases : raw.aliases[a].rank > 0
  /\ \A a, b \in DOMAIN raw.aliases : raw.aliases[a].rank = raw.aliases[b].rank => a = b

\* Mutant of ReferencesKnown: hard-risk minima are not looked up.
ReferencesKnownButMinima(raw) ==
  /\ {raw.default, raw.planner, raw.completion} \subseteq DOMAIN raw.tasks
  /\ \A t \in DOMAIN raw.tasks : raw.tasks[t].alias \in DOMAIN raw.aliases

ReferencesKnown(raw) ==
  /\ {raw.default, raw.planner, raw.completion} \subseteq DOMAIN raw.tasks
  /\ \A t \in DOMAIN raw.tasks :
       /\ raw.tasks[t].alias \in DOMAIN raw.aliases
       /\ raw.tasks[t].escalation \in DOMAIN raw.tasks \cup {None}
  /\ raw.matching \subseteq DOMAIN raw.tasks
  /\ \A k \in DOMAIN raw.risks : raw.risks[k].minimum \in DOMAIN raw.aliases \cup {None}

ValidConfiguration(raw) == RanksValid(raw) /\ ReferencesKnown(raw)

-----------------------------------------------------------------------------
(* What a route has to satisfy, whichever way it was computed.             *)

\* The flags of the item and those its task's policy declares.
ActiveFlags(c, request) ==
  LET policy == c.tasks[request.task] IN
  request.flags \cup (IF policy.destructive THEN {"destructive"} ELSE {})
                \cup (IF policy.external THEN {"external-write"} ELSE {})

ActiveRules(c, request) == {k \in DOMAIN c.risks : c.risks[k].flag \in ActiveFlags(c, request)}

Rank(c, alias) == c.aliases[alias].rank

\* The aliases none of whose capabilities policy or an active rule may fall below.
FloorAliases(c, request, rules) ==
  {c.tasks[request.task].alias} \cup ({c.risks[k].minimum : k \in rules} \ {None})

\* Approval is demanded by the policy or by one of the rules.
Demanded(c, request, rules) ==
  \/ c.tasks[request.task].approval = "required"
  \/ \E k \in rules : c.risks[k].approval = "required"

(***************************************************************************)
(* "A hard-risk rule may raise the model floor or require approval;        *)
(* downstream policy cannot weaken that floor": the alias is the weakest   *)
(* of those that are as capable as every floor.                            *)
(***************************************************************************)
MeetsFloors(c, request, route) ==
  LET floors == FloorAliases(c, request, ActiveRules(c, request))
      capable == {a \in DOMAIN c.aliases : \A f \in floors : Rank(c, a) >= Rank(c, f)}
  IN /\ route.task = request.task
     /\ route.alias \in capable
     /\ \A a \in capable : Rank(c, route.alias) <= Rank(c, a)
     /\ route.model = c.aliases[route.alias].model
     /\ (route.approval = "required") <=> Demanded(c, request, ActiveRules(c, request))
     /\ route.sandbox = c.tasks[request.task].sandbox
=============================================================================
