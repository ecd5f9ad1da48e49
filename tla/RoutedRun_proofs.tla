--------------------------- MODULE RoutedRun_proofs ---------------------------
(***************************************************************************)
(* What routes promise a run, for every set of configurations, inventories *)
(* and plans and any number of commands; and, in the second half, what the *)
(* planner's search promises of a plan.                                    *)
(***************************************************************************)
EXTENDS RoutedRun, SequenceTheorems, TLAPS

Configured(c) == c \in Raw /\ ValidConfiguration(c)

-----------------------------------------------------------------------------
(* The router's operators are those of RoutingPolicy.                      *)

\* Whether reached through the run or through the router, an operator is the same.
LEMMA RouterOperators ==
  /\ \A c, a : Router!Rank(c, a) = Rank(c, a)
  /\ \A c, request : Router!ActiveFlags(c, request) = ActiveFlags(c, request)
  /\ \A c : Router!ValidConfiguration(c) <=> ValidConfiguration(c)
<1>1. \A c, a : Router!Rank(c, a) = Rank(c, a)
  BY DEF Rank, Router!Rank
<1>2. \A c, request : Router!ActiveFlags(c, request) = ActiveFlags(c, request)
  BY DEF ActiveFlags, Router!ActiveFlags
<1>3. \A c : Router!ValidConfiguration(c) <=> ValidConfiguration(c)
  BY DEF ValidConfiguration, RanksValid, ReferencesKnown, Router!ValidConfiguration,
         Router!RanksValid, Router!ReferencesKnown
<1>4. QED
  BY <1>1, <1>2, <1>3

-----------------------------------------------------------------------------
(* What validation leaves of a configuration.                              *)

\* Aliases have integer ranks and models.
LEMMA AliasTypes ==
  ASSUME NEW c, Configured(c), NEW a \in DOMAIN c.aliases
  PROVE  a \in Alias /\ Rank(c, a) \in Int /\ c.aliases[a].model \in Model
  BY RawAssumption DEF Configured, IsRouterConfig, Rank

\* Policies name known aliases, and know the rest.
LEMMA PolicyTypes ==
  ASSUME NEW c, Configured(c), NEW t \in DOMAIN c.tasks
  PROVE  /\ t \in Task
         /\ c.tasks[t] \in Policy
         /\ c.tasks[t].alias \in DOMAIN c.aliases
         /\ c.tasks[t].sandbox \in Sandbox /\ c.tasks[t].approval \in Mode
         /\ c.tasks[t].destructive \in BOOLEAN /\ c.tasks[t].external \in BOOLEAN
<1>1. t \in Task /\ c.tasks[t] \in Policy
  BY RawAssumption DEF Configured, IsRouterConfig
<1>2. c.tasks[t].alias \in DOMAIN c.aliases
  BY DEF Configured, ValidConfiguration, ReferencesKnown
<1>3. QED
  BY <1>1, <1>2 DEF Policy

\* Rules name known aliases or none.
LEMMA RuleTypes ==
  ASSUME NEW c, Configured(c), NEW k \in DOMAIN c.risks
  PROVE  /\ c.risks[k].minimum \in DOMAIN c.aliases \cup {None}
         /\ c.risks[k].approval \in Mode \cup {None}
<1>1. c.risks \in Seq(HardRiskRule)
  BY RawAssumption DEF Configured, IsRouterConfig
<1>2. c.risks[k] \in HardRiskRule
  BY <1>1
<1>3. c.risks[k].minimum \in DOMAIN c.aliases \cup {None}
  BY DEF Configured, ValidConfiguration, ReferencesKnown
<1>4. QED
  BY <1>2, <1>3 DEF HardRiskRule

\* The rules are numbered from 1.
LEMMA RuleIndices ==
  ASSUME NEW c, Configured(c)
  PROVE  Len(c.risks) \in Nat /\ DOMAIN c.risks = 1 .. Len(c.risks)
<1>1. c.risks \in Seq(HardRiskRule)
  BY RawAssumption DEF Configured, IsRouterConfig
<1>2. QED
  BY <1>1

\* Every floor is the rank of an alias.
LEMMA FloorsKnown ==
  ASSUME NEW c, Configured(c), NEW request \in Request, request.task \in DOMAIN c.tasks,
         NEW rules \in SUBSET DOMAIN c.risks
  PROVE  FloorAliases(c, request, rules) \subseteq DOMAIN c.aliases
  BY PolicyTypes, RuleTypes DEF FloorAliases

-----------------------------------------------------------------------------
(* The loop of route.                                                      *)

\* The active rules the loop has passed.
Passed == {k \in ActiveRules(config, item) : k < at}

RankIsHighest ==
  /\ \A f \in FloorAliases(config, item, Passed) : rank >= Rank(config, f)
  /\ \E f \in FloorAliases(config, item, Passed) : rank = Rank(config, f)

LoopInv ==
  /\ item.task \in DOMAIN config.tasks
  /\ at \in 1 .. Len(config.risks) + 1
  /\ RankIsHighest
  /\ approval = "required" <=> Demanded(config, item, Passed)
  /\ approval \in Mode

RouterInv ==
  /\ pc \in Router!Pc \ {"error"}
  /\ config \in Raw \cup {None}
  /\ config # None => ValidConfiguration(config)
  /\ item \in Request \cup {None}
  /\ at \in Nat /\ rank \in Int /\ approval \in Mode \cup {None}
  /\ pc \in {"ready", "select", "rules", "routed", "unknown"} => config # None
  /\ pc \in {"select", "rules", "routed", "unknown"} => item # None
  /\ pc = "rules" => LoopInv
  /\ pc = "routed" => /\ item.task \in DOMAIN config.tasks
                      /\ route \in RouteDecision
                      /\ MeetsFloors(config, item, route)

\* select_task starts the loop from the policy.
LEMMA SelectTaskKeeps ==
  ASSUME RouterInv, Router!SelectTask
  PROVE  RouterInv'
<1> USE DEF RouterInv, Router!SelectTask
<1>1. CASE item.task \notin DOMAIN config.tasks
  BY <1>1 DEF Router!Pc
<1>2. CASE item.task \in DOMAIN config.tasks
  <2> DEFINE policy == config.tasks[item.task]
  <2>1. Configured(config) /\ item \in Request
    BY DEF Configured
  <2>2. pc' = "rules" /\ config' = config /\ item' = item /\ at' = 1
        /\ rank' = Rank(config, policy.alias) /\ approval' = policy.approval
    BY <1>2, RouterOperators
  <2>3. Passed' = {}
    <3>1. \A k \in DOMAIN config.risks : ~(k < 1)
      BY <2>1, RuleIndices
    <3>2. QED
      BY <3>1, <2>2 DEF Passed, ActiveRules
  <2>4. FloorAliases(config, item, {}) = {policy.alias}
    BY DEF FloorAliases
  <2>5. policy.alias \in DOMAIN config.aliases /\ policy.approval \in Mode
    BY <1>2, <2>1, PolicyTypes
  <2>6. Rank(config, policy.alias) \in Int
    BY <2>1, <2>5, AliasTypes
  <2>7. RankIsHighest'
    BY <2>2, <2>3, <2>4, <2>6 DEF RankIsHighest, Rank, FloorAliases
  <2>8. (approval = "required" <=> Demanded(config, item, Passed))'
    BY <2>2, <2>3 DEF Demanded
  <2>9. (at \in 1 .. Len(config.risks) + 1)'
    BY <2>1, <2>2, RuleIndices
  <2>10. QED
    BY <1>2, <2>2, <2>5, <2>6, <2>7, <2>8, <2>9 DEF LoopInv, Router!Pc
<1>3. QED
  BY <1>1, <1>2

\* An iteration passes one rule, which may raise the rank or demand approval.
LEMMA ApplyRuleKeeps ==
  ASSUME RouterInv, Router!ApplyRule
  PROVE  RouterInv'
<1> DEFINE rule == config.risks[at]
<1>1. /\ pc = "rules" /\ at \in DOMAIN config.risks
      /\ at' = at + 1 /\ config' = config /\ item' = item /\ route' = route
  BY DEF Router!ApplyRule
<1>2. Configured(config) /\ item \in Request /\ LoopInv /\ rank \in Int
  BY <1>1 DEF RouterInv, Configured
<1>3. rule.minimum \in DOMAIN config.aliases \cup {None} /\ at \in Nat
      /\ at + 1 \in 1 .. Len(config.risks) + 1
  BY <1>1, <1>2, RuleTypes, RuleIndices
<1>4. Router!Known(rule)
  BY <1>3 DEF Router!Known
<1>5. \A k \in DOMAIN config.risks : k \in Nat
  BY <1>2, RuleIndices
<1>6. CASE rule.flag \notin ActiveFlags(config, item)
  <2>1. pc' = pc /\ rank' = rank /\ approval' = approval
    BY <1>1, <1>4, <1>6, RouterOperators DEF Router!ApplyRule
  <2>2. Passed' = Passed
    BY <1>1, <1>3, <1>5, <1>6 DEF Passed, ActiveRules
  <2>3. RankIsHighest'
    BY <1>1, <1>2, <2>1, <2>2 DEF LoopInv, RankIsHighest, FloorAliases, Rank
  <2>4. (approval = "required" <=> Demanded(config, item, Passed))'
    BY <1>1, <1>2, <2>1, <2>2 DEF LoopInv, Demanded
  <2>5. QED
    BY <1>1, <1>2, <1>3, <2>1, <2>3, <2>4 DEF RouterInv, LoopInv
<1>7. CASE rule.flag \in ActiveFlags(config, item)
  <2>1. /\ pc' = pc /\ rank' = Router!Raised(rule)
        /\ approval' = IF rule.approval = "required" THEN "required" ELSE approval
    BY <1>1, <1>4, <1>7, RouterOperators DEF Router!ApplyRule
  <2>2. Passed' = Passed \cup {at}
    BY <1>1, <1>3, <1>5, <1>7 DEF Passed, ActiveRules
  <2>3. Passed \subseteq DOMAIN config.risks
    BY DEF Passed, ActiveRules
  <2>4. FloorAliases(config, item, Passed \cup {at})
          = FloorAliases(config, item, Passed) \cup ({rule.minimum} \ {None})
    BY DEF FloorAliases
  <2>5. \A f \in FloorAliases(config, item, Passed) : Rank(config, f) \in Int
    BY <1>2, <2>3, FloorsKnown, AliasTypes DEF LoopInv
  <2>6. rule.minimum # None => Rank(config, rule.minimum) \in Int
    BY <1>2, <1>3, AliasTypes
  <2>7. rank' = IF rule.minimum # None /\ Rank(config, rule.minimum) > rank
                  THEN Rank(config, rule.minimum) ELSE rank
    BY <2>1, RouterOperators DEF Router!Raised
  <2>8. RankIsHighest'
    <3> DEFINE floors == FloorAliases(config, item, Passed)
    <3>1. FloorAliases(config, item, Passed)' = floors \cup ({rule.minimum} \ {None})
      BY <1>1, <2>2, <2>4 DEF FloorAliases
    <3>2. \A f \in floors : rank >= Rank(config, f)
      BY <1>2 DEF LoopInv, RankIsHighest
    <3>3. PICK g \in floors : rank = Rank(config, g)
      BY <1>2 DEF LoopInv, RankIsHighest
    <3>4. rank' \in Int /\ rank' >= rank
      BY <1>2, <2>6, <2>7
    <3>5. \A f \in floors : rank' >= Rank(config, f)
      BY <1>2, <2>5, <3>2, <3>4
    <3>6. rule.minimum # None => rank' >= Rank(config, rule.minimum)
      BY <1>2, <2>6, <2>7
    <3>7. \E f \in floors \cup ({rule.minimum} \ {None}) : rank' = Rank(config, f)
      BY <2>7, <3>3
    <3>8. \A f : Rank(config, f)' = Rank(config, f)
      BY <1>1 DEF Rank
    <3>9. QED
      BY <1>1, <3>1, <3>5, <3>6, <3>7 DEF RankIsHighest, Rank
  <2>9. (approval = "required" <=> Demanded(config, item, Passed))'
    BY <1>1, <1>2, <2>1, <2>2 DEF LoopInv, Demanded
  <2>10. rank' \in Int /\ approval' \in Mode
    BY <1>2, <2>1, <2>6, <2>7 DEF LoopInv, Mode
  <2>11. LoopInv'
    BY <1>1, <1>2, <1>3, <2>8, <2>9, <2>10 DEF LoopInv
  <2>12. at' \in Nat
    BY <1>1, <1>3
  <2>13. QED
    BY <1>1, <2>1, <2>10, <2>11, <2>12 DEF RouterInv
<1>8. QED
  BY <1>6, <1>7

\* The weakest alias of the loop's rank is the weakest that is above every floor.
LEMMA ChooseAliasKeeps ==
  ASSUME RouterInv, Router!ChooseAlias
  PROVE  RouterInv'
<1> DEFINE floors  == FloorAliases(config, item, ActiveRules(config, item))
           capable == {a \in DOMAIN config.aliases : \A f \in floors : Rank(config, a) >= Rank(config, f)}
<1>1. /\ pc = "rules" /\ at \notin DOMAIN config.risks
      /\ UNCHANGED <<config, item, at, rank, approval>>
  BY DEF Router!ChooseAlias
<1>2. Configured(config) /\ item \in Request /\ LoopInv /\ rank \in Int
  BY <1>1 DEF RouterInv, Configured
<1>3. Passed = ActiveRules(config, item)
  <2>1. at = Len(config.risks) + 1
    BY <1>1, <1>2, RuleIndices DEF LoopInv
  <2>2. \A k \in DOMAIN config.risks : k < at
    BY <1>2, <2>1, RuleIndices
  <2>3. QED
    BY <2>2 DEF Passed, ActiveRules
<1>4. floors \subseteq DOMAIN config.aliases
  BY <1>2, FloorsKnown DEF LoopInv, ActiveRules
<1>5. \A a \in DOMAIN config.aliases : Rank(config, a) \in Int
  BY <1>2, AliasTypes
<1>6. Router!Candidates = capable
  <2>1. PICK g \in floors : rank = Rank(config, g)
    BY <1>2, <1>3 DEF LoopInv, RankIsHighest
  <2>2. \A f \in floors : rank >= Rank(config, f)
    BY <1>2, <1>3 DEF LoopInv, RankIsHighest
  <2>3. \A a \in DOMAIN config.aliases :
          Rank(config, a) >= rank <=> \A f \in floors : Rank(config, a) >= Rank(config, f)
    BY <1>2, <1>4, <1>5, <2>1, <2>2
  <2>4. QED
    BY <2>3, RouterOperators DEF Router!Candidates
<1>7. capable # {}
  <2>1. PICK g \in floors : rank = Rank(config, g)
    BY <1>2, <1>3 DEF LoopInv, RankIsHighest
  <2>2. g \in capable
    BY <1>2, <1>3, <1>4, <2>1 DEF LoopInv, RankIsHighest
  <2>3. QED
    BY <2>2
<1>8. PICK alias \in capable :
        /\ \A a \in capable : Rank(config, alias) <= Rank(config, a)
        /\ route' = Router!Decision(alias)
        /\ pc' = "routed"
  BY <1>6, <1>7, RouterOperators DEF Router!ChooseAlias
<1>9. Router!Decision(alias) \in RouteDecision
  <2>1. alias \in Alias /\ config.aliases[alias].model \in Model
    BY <1>2, AliasTypes
  <2>2. /\ item.task \in Task /\ config.tasks[item.task].sandbox \in Sandbox
        /\ config.tasks[item.task].destructive \in BOOLEAN
        /\ config.tasks[item.task].external \in BOOLEAN
    BY <1>2, PolicyTypes DEF LoopInv
  <2>3. approval \in Mode
    BY <1>2 DEF LoopInv
  <2>4. QED
    BY <2>1, <2>2, <2>3 DEF RouteDecision, Router!Decision
<1>10. MeetsFloors(config, item, Router!Decision(alias))
  <2>1. approval = "required" <=> Demanded(config, item, ActiveRules(config, item))
    BY <1>2, <1>3 DEF LoopInv
  <2>2. QED
    BY <1>8, <2>1 DEF MeetsFloors, Router!Decision
<1>11. MeetsFloors(config, item, route)'
  BY <1>1, <1>8, <1>10
<1>12. QED
  BY <1>1, <1>2, <1>8, <1>9, <1>11 DEF RouterInv, LoopInv, Router!Pc

\* Routing keeps what is known of it.
LEMMA RoutingKeeps ==
  ASSUME RouterInv, Router!Routing
  PROVE  RouterInv'
  BY SelectTaskKeeps, ApplyRuleKeeps, ChooseAliasKeeps DEF Router!Routing

\* A call of route starts from a configuration.
LEMMA AskKeeps ==
  ASSUME RouterInv, NEW request \in Request, Router!Ask(request)
  PROVE  RouterInv' /\ pc' = "select" /\ item' = request /\ config' = config
  BY NoneAssumption DEF RouterInv, Router!Ask, Router!Pc

\* RouterInv only reads what the router keeps.
LEMMA RouterUnchanged ==
  ASSUME RouterInv, UNCHANGED routerVars
  PROVE  RouterInv'
<1> USE DEF routerVars
<1>1. LoopInv => LoopInv'
  BY DEF LoopInv, RankIsHighest, Passed
<1>2. QED
  BY <1>1 DEF RouterInv

-----------------------------------------------------------------------------
(* What a stored run keeps.                                                *)

Stored(r) ==
  /\ r \in StoredRun
  /\ ValidConfiguration(r.digest) /\ ValidConfiguration(r.created)
  /\ r.item.kind # "planner"
  /\ r.item.kind = "explicit" => /\ r.item.task \in DOMAIN r.created.tasks
                                 /\ r.item.access = r.created.tasks[r.item.task].sandbox
  /\ ~r.finished => MeetsFloors(r.digest, r.item, r.route)

\* A route does not depend on the access an item declares.
LEMMA AccessDoesNotRoute ==
  ASSUME NEW c, NEW request \in Request, NEW access, NEW r
  PROVE  MeetsFloors(c, [request EXCEPT !.access = access], r) <=> MeetsFloors(c, request, r)
<1> DEFINE other == [request EXCEPT !.access = access]
<1>1. other.task = request.task /\ other.flags = request.flags
  BY DEF Request
<1>2. ActiveRules(c, other) = ActiveRules(c, request)
  BY <1>1 DEF ActiveRules, ActiveFlags
<1>3. FloorAliases(c, other, ActiveRules(c, other)) = FloorAliases(c, request, ActiveRules(c, request))
  BY <1>1, <1>2 DEF FloorAliases
<1>4. Demanded(c, other, ActiveRules(c, other)) <=> Demanded(c, request, ActiveRules(c, request))
  BY <1>1, <1>2 DEF Demanded
<1>5. QED
  BY <1>1, <1>3, <1>4 DEF MeetsFloors

\* plan_objective and run_task store a run whose route obeys its configuration.
LEMMA CreateStored ==
  ASSUME RouterInv, pc = "routed", item.kind \in {"planned", "explicit"}
  PROVE  Stored([item |-> NewItem, route |-> route, created |-> config, digest |-> config,
                 finished |-> FALSE])
<1>1. /\ Configured(config) /\ item \in Request /\ item.task \in DOMAIN config.tasks
      /\ route \in RouteDecision /\ MeetsFloors(config, item, route)
  BY DEF RouterInv, Configured
<1>2. route.sandbox \in Access /\ route.sandbox = config.tasks[item.task].sandbox
  BY <1>1 DEF RouteDecision, Sandbox, Access, MeetsFloors
<1>3. /\ NewItem \in Request /\ NewItem.kind = item.kind /\ NewItem.task = item.task
      /\ item.kind = "explicit" => NewItem.access = route.sandbox
  BY <1>1, <1>2 DEF NewItem, Request
<1>4. MeetsFloors(config, NewItem, route)
  BY <1>1, AccessDoesNotRoute DEF NewItem
<1>5. QED
  BY <1>1, <1>2, <1>3, <1>4 DEF Stored, StoredRun, Configured

\* Adoption replaces digest and route together.
LEMMA AdoptStored ==
  ASSUME RouterInv, pc = "routed", Stored(run), item = run.item
  PROVE  Stored([run EXCEPT !.route = route, !.digest = config])
<1>1. /\ Configured(config) /\ route \in RouteDecision /\ MeetsFloors(config, item, route)
  BY DEF RouterInv, Configured
<1>2. QED
  BY <1>1 DEF Stored, StoredRun, Configured

\* So does the completion review, with its item.
LEMMA ReviewStored ==
  ASSUME RouterInv, pc = "routed", Stored(run), item.kind = "completion", run.digest = config
  PROVE  Stored([run EXCEPT !.item = item, !.route = route, !.finished = FALSE])
<1>1. item \in Request /\ route \in RouteDecision /\ MeetsFloors(config, item, route)
  BY DEF RouterInv
<1>2. QED
  BY <1>1 DEF Stored, StoredRun

\* A finished item's route is not looked at again.
LEMMA FinishedStored ==
  ASSUME Stored(run), NEW c, Configured(c)
  PROVE  /\ Stored([run EXCEPT !.finished = TRUE])
         /\ run.finished => Stored([run EXCEPT !.digest = c])
  BY DEF Stored, StoredRun, Configured

-----------------------------------------------------------------------------
(* The commands.                                                           *)

\* The models of the configuration were all offered to this command.
Offered == ConfiguredModels \subseteq inventory

\* What a command routes for.
Adopting  == run # None /\ item = run.item /\ command \notin Creating
Creation  == run = None /\ item.kind \in {"planner", "planned", "explicit"} /\ Offered
Reviewing == /\ run # None /\ run.item.kind = "planned" /\ run.digest = config
             /\ item.kind = "completion" /\ Offered

PlannerInv ==
  /\ planning \in Planner!Pc
  /\ items \in Seq(WorkItem) /\ index \in Nat
  /\ phase \in {"idle", "load"} => planning = "turn"
  /\ planning = "turn" => index = 1
  /\ planning = "items" =>
       \A k \in DOMAIN items : k < index => items[k].task \in DOMAIN config.tasks
  /\ planning \in {"cycles", "accepted"} =>
       \A k \in DOMAIN items : items[k].task \in DOMAIN config.tasks

PhaseInv ==
  /\ phase \in Phase /\ command \in Command \cup {None}
  /\ inventory \in SUBSET Model /\ commands \in 0 .. MaxCommands
  /\ phase \in {"digest", "inventory", "routing", "planning", "dispatch"} => config # None
  /\ phase \in {"load", "inventory"} /\ command \in Creating => run = None
  /\ phase \in {"load", "inventory"} /\ command \notin Creating => run # None
  /\ phase = "digest" => run # None /\ command \notin Creating
  /\ phase = "inventory" /\ command \notin Creating => run.digest = config
  /\ phase = "routing" => Adopting \/ Creation \/ Reviewing
  /\ phase = "planning" => run = None /\ Offered /\ pc = "routed"
  /\ phase = "dispatch" => run # None /\ run.digest = config /\ Offered

\* Which tasks route may not find.
NameInv ==
  /\ pc \in {"select", "rules"} => phase = "routing"
  /\ pc = "unknown" => phase \in {"routing", "end"}
  /\ pc = "select" => \/ item.kind = "explicit"
                      \/ run # None /\ item = run.item
                      \/ item.task \in DOMAIN config.tasks
  /\ pc = "unknown" => item.kind = "explicit" \/ (run # None /\ item = run.item)

StoredInv == run = None \/ Stored(run)

IInv == RouterInv /\ PlannerInv /\ PhaseInv /\ NameInv /\ StoredInv

\* A route names a model of its configuration.
LEMMA RoutedModel ==
  ASSUME NEW c, NEW request, NEW r, MeetsFloors(c, request, r)
  PROVE  r.model \in {c.aliases[a].model : a \in DOMAIN c.aliases}
  BY DEF MeetsFloors

\* The initial states.
LEMMA InitInv ==
  ASSUME Init
  PROVE  IInv
<1> USE DEF Init, Router!Init, Planner!Init
<1>1. RouterInv
  BY DEF RouterInv, Router!Pc
<1>2. PlannerInv
  BY DEF PlannerInv, Planner!Pc
<1>3. PhaseInv
  BY MaxCommandsAssumption DEF PhaseInv, Phase
<1>4. NameInv /\ StoredInv
  BY DEF NameInv, StoredInv
<1>5. QED
  BY <1>1, <1>2, <1>3, <1>4 DEF IInv

\* A command starts, and loads one configuration or refuses it.
LEMMA StartKeeps ==
  ASSUME IInv, Start
  PROVE  IInv'
<1> USE DEF IInv, Start, Goto
<1>1. RouterInv'
  BY RouterUnchanged
<1>2. PlannerInv'
  BY DEF PlannerInv, plannerVars, routerVars
<1>3. PhaseInv'
  BY MaxCommandsAssumption DEF PhaseInv, Phase, Command, Creating
<1>4. NameInv' /\ StoredInv'
  BY DEF NameInv, StoredInv, Stored, routerVars
<1>5. QED
  BY <1>1, <1>2, <1>3, <1>4

\* A configuration is accepted or the command ends.
LEMMA LoadKeeps ==
  ASSUME IInv, LoadConfiguration
  PROVE  IInv'
<1> USE DEF IInv, LoadConfiguration, Goto
<1>1. /\ pc = "load" /\ UNCHANGED <<item, at, rank, approval, route>>
      /\ \/ pc' = "ready" /\ config' \in Raw /\ ValidConfiguration(config')
         \/ pc' = "refused" /\ config' = config
  BY RouterOperators DEF Router!Load
<1>2. RouterInv'
  BY <1>1, NoneAssumption DEF RouterInv, Router!Pc
<1>3. PlannerInv'
  BY DEF PlannerInv, plannerVars
<1>4. PhaseInv'
  BY <1>1, NoneAssumption DEF PhaseInv, Phase
<1>5. NameInv' /\ StoredInv'
  BY <1>1 DEF NameInv, StoredInv, Stored
<1>6. QED
  BY <1>2, <1>3, <1>4, <1>5

\* A process that ends forgets everything.
LEMMA EndKeeps ==
  ASSUME IInv, End
  PROVE  IInv'
<1> USE DEF IInv, End, Goto
<1>1. RouterInv'
  BY DEF RouterInv, Router!Pc
<1>2. PlannerInv'
  BY DEF PlannerInv, Planner!Pc
<1>3. PhaseInv'
  BY DEF PhaseInv, Phase
<1>4. NameInv' /\ StoredInv'
  BY DEF NameInv, StoredInv, Stored
<1>5. QED
  BY <1>1, <1>2, <1>3, <1>4

\* resume refuses, continues or routes again.
LEMMA CheckDigestKeeps ==
  ASSUME IInv, CheckDigest
  PROVE  IInv'
<1> USE DEF IInv, CheckDigest, Goto
<1>1. phase = "digest" /\ run # None /\ Stored(run) /\ Configured(config) /\ command \notin Creating
      /\ pc # "select" /\ pc # "rules" /\ pc # "unknown"
      /\ UNCHANGED <<plannerVars, command, inventory, commands>>
  BY DEF PhaseInv, StoredInv, NameInv, RouterInv, Configured
<1>2. CASE run.digest = config \/ command = "resume"
  <2>1. /\ UNCHANGED <<run, routerVars>>
        /\ \/ phase' = "inventory" /\ run.digest = config
           \/ phase' = "end"
    BY <1>2
  <2>2. RouterInv'
    BY <2>1, RouterUnchanged
  <2>3. PlannerInv' /\ NameInv' /\ StoredInv'
    BY <1>1, <2>1 DEF PlannerInv, NameInv, StoredInv, plannerVars, routerVars
  <2>4. PhaseInv'
    BY <1>1, <2>1 DEF PhaseInv, Phase, routerVars
  <2>5. QED
    BY <2>2, <2>3, <2>4
<1>3. CASE run.digest # config /\ command # "resume" /\ run.finished
  <2>1. UNCHANGED routerVars /\ phase' = "inventory" /\ run' = [run EXCEPT !.digest = config]
    BY <1>3
  <2>2. RouterInv'
    BY <2>1, RouterUnchanged
  <2>3. Stored(run') /\ run'.digest = config /\ run' # None
    BY <1>1, <1>3, <2>1, FinishedStored, NoRunAssumption DEF Stored, StoredRun
  <2>4. PlannerInv' /\ NameInv' /\ StoredInv'
    BY <1>1, <2>1, <2>3 DEF PlannerInv, NameInv, StoredInv, plannerVars, routerVars
  <2>5. PhaseInv'
    BY <1>1, <2>1, <2>3 DEF PhaseInv, Phase, routerVars
  <2>6. QED
    BY <2>2, <2>4, <2>5
<1>4. CASE run.digest # config /\ command # "resume" /\ ~run.finished
  <2>1. Router!Ask(run.item) /\ phase' = "routing" /\ UNCHANGED run /\ run.item \in Request
    BY <1>1, <1>4 DEF Stored, StoredRun
  <2>2. RouterInv' /\ pc' = "select" /\ item' = run.item /\ config' = config
    BY <2>1, AskKeeps
  <2>3. PlannerInv' /\ NameInv' /\ StoredInv'
    BY <1>1, <2>1, <2>2 DEF PlannerInv, NameInv, StoredInv, plannerVars
  <2>4. PhaseInv'
    BY <1>1, <2>1, <2>2 DEF PhaseInv, Phase, Adopting
  <2>5. QED
    BY <2>2, <2>3, <2>4
<1>5. QED
  BY <1>2, <1>3, <1>4

\* The inventory comes before every route and turn of a command.
LEMMA ReadInventoryKeeps ==
  ASSUME IInv, ReadInventory
  PROVE  IInv'
<1> USE DEF IInv, ReadInventory, Goto
<1>1. /\ phase = "inventory" /\ Configured(config) /\ UNCHANGED <<plannerVars, command, run, commands>>
      /\ inventory' \in SUBSET Model /\ pc # "select" /\ pc # "rules" /\ pc # "unknown"
  BY InventoriesAssumption DEF PhaseInv, NameInv, RouterInv, Configured
<1>2. StoredInv'
  BY <1>1 DEF StoredInv, Stored
<1>3. CASE UNCHANGED routerVars
  <2>1. RouterInv'
    BY <1>3, RouterUnchanged
  <2>2. \/ phase' = "end"
        \/ phase' = "dispatch" /\ command \notin Creating /\ Offered'
    <3>1. pc' # "select"
      BY <1>1, <1>3 DEF routerVars
    <3>2. \A kind, task, flags, access : ~Ask(kind, task, flags, access)
      BY <3>1 DEF Ask, Router!Ask
    <3>3. ConfiguredModels' = ConfiguredModels
      BY <1>3 DEF ConfiguredModels, routerVars
    <3>4. QED
      BY <3>2, <3>3 DEF Offered, Creating, PhaseInv, Command
  <2>3. PlannerInv' /\ NameInv'
    BY <1>1, <1>3, <2>2 DEF PlannerInv, NameInv, plannerVars, routerVars
  <2>4. PhaseInv'
    BY <1>1, <1>3, <2>2 DEF PhaseInv, Phase, routerVars
  <2>5. QED
    BY <1>2, <2>1, <2>3, <2>4
<1>4. ASSUME NEW request \in Request, Router!Ask(request), phase' = "routing", Offered',
             command \in Creating, request.kind \in {"planner", "explicit"},
             request.kind = "planner" => request.task \in DOMAIN config.tasks
      PROVE  IInv'
  <2>1. RouterInv' /\ pc' = "select" /\ item' = request /\ config' = config
    BY <1>4, AskKeeps
  <2>2. PlannerInv' /\ NameInv'
    BY <1>1, <1>4, <2>1 DEF PlannerInv, NameInv, plannerVars
  <2>3. Creation'
    BY <1>1, <1>4, <2>1 DEF Creation, PhaseInv
  <2>4. PhaseInv'
    BY <1>1, <1>4, <2>1, <2>3 DEF PhaseInv, Phase
  <2>5. QED
    BY <1>2, <2>1, <2>2, <2>4
<1>5. ASSUME NEW kind \in {"planner", "explicit"}, NEW task \in Task, Ask(kind, task, {}, "read-only"),
             phase' = "routing", command \in Creating, ConfiguredModels \subseteq inventory',
             kind = "planner" => task \in DOMAIN config.tasks
      PROVE  IInv'
  <2> DEFINE request == [kind |-> kind, task |-> task, flags |-> {}, access |-> "read-only"]
  <2>1. request \in Request /\ Router!Ask(request) /\ request.kind = kind /\ request.task = task
    BY <1>5 DEF Request, Kind, Access, Ask
  <2>2. Offered'
    BY <1>5 DEF Ask, Router!Ask, Offered, ConfiguredModels
  <2>3. QED
    BY <1>4, <1>5, <2>1, <2>2
<1>6. config.planner \in Task /\ config.planner \in DOMAIN config.tasks
  BY <1>1, RawAssumption DEF Configured, IsRouterConfig, ValidConfiguration, ReferencesKnown
<1>7. \/ UNCHANGED routerVars
      \/ /\ phase' = "routing" /\ command \in Creating /\ ConfiguredModels \subseteq inventory'
         /\ \/ Ask("planner", config.planner, {}, "read-only")
            \/ \E task \in Task : Ask("explicit", task, {}, "read-only")
  BY DEF Creating
<1>8. QED
  BY <1>3, <1>5, <1>6, <1>7

\* A step of route; a task that is not found was named by an operator or another file.
LEMMA RouteKeeps ==
  ASSUME IInv, Route
  PROVE  IInv'
<1> USE DEF IInv, Route
<1>1. phase = "routing" /\ UNCHANGED <<plannerVars, phase, command, inventory, run, commands>>
  OBVIOUS
<1>2. config' = config /\ item' = item
  BY DEF Router!Routing, Router!SelectTask, Router!ApplyRule, Router!ChooseAlias
<1>3. RouterInv'
  BY RoutingKeeps
<1>4. PlannerInv' /\ StoredInv'
  BY <1>1, <1>2 DEF PlannerInv, StoredInv, plannerVars
<1>5. PhaseInv'
  BY <1>1, <1>2 DEF PhaseInv, Adopting, Creation, Reviewing, Offered, ConfiguredModels
<1>6. pc' = "select" => FALSE
  BY DEF Router!Routing, Router!SelectTask, Router!ApplyRule, Router!ChooseAlias
<1>7. pc' = "unknown" => pc = "select" /\ item.task \notin DOMAIN config.tasks
  BY DEF Router!Routing, Router!SelectTask, Router!ApplyRule, Router!ChooseAlias
<1>8. NameInv'
  BY <1>1, <1>2, <1>6, <1>7 DEF NameInv
<1>9. QED
  BY <1>3, <1>4, <1>5, <1>8

\* An item without a route ends its command.
LEMMA NoRouteKeeps ==
  ASSUME IInv, NoRoute
  PROVE  IInv'
<1> USE DEF IInv, NoRoute, Goto
<1>1. RouterInv'
  BY RouterUnchanged
<1>2. PlannerInv' /\ NameInv' /\ StoredInv'
  BY DEF PlannerInv, NameInv, StoredInv, RouterInv, plannerVars, routerVars
<1>3. PhaseInv'
  BY DEF PhaseInv, Phase, routerVars
<1>4. QED
  BY <1>1, <1>2, <1>3

\* The planner's route is there, and its turn follows.
LEMMA StartPlanningKeeps ==
  ASSUME IInv, StartPlanning
  PROVE  IInv'
<1> USE DEF IInv, StartPlanning, RoutedFor, Goto
<1>1. RouterInv'
  BY RouterUnchanged
<1>2. PlannerInv' /\ NameInv' /\ StoredInv'
  BY DEF PlannerInv, NameInv, StoredInv, plannerVars, routerVars
<1>3. Creation
  BY DEF PhaseInv, Adopting, Reviewing, Stored, StoredInv
<1>4. PhaseInv'
  BY <1>3 DEF PhaseInv, Phase, Creation, Offered, ConfiguredModels, routerVars
<1>5. QED
  BY <1>1, <1>2, <1>4

\* The planner accepts tasks of this configuration only.
LEMMA PlanKeeps ==
  ASSUME IInv, Plan
  PROVE  IInv'
<1> USE DEF IInv, Plan
<1>1. /\ phase = "planning" /\ config # None /\ Planner!Next
      /\ UNCHANGED <<routerVars, phase, command, inventory, run, commands>>
  BY DEF PhaseInv
<1>2. RouterInv' /\ NameInv' /\ StoredInv'
  BY <1>1, RouterUnchanged DEF NameInv, StoredInv, routerVars
<1>3. PhaseInv'
  BY <1>1 DEF PhaseInv, Offered, ConfiguredModels, routerVars
<1> SUFFICES PlannerInv'
  BY <1>2, <1>3
<1>4. CASE Planner!Answer
  <2>1. items' \in Seq(WorkItem)
    BY <1>4, ListsAssumption DEF Planner!Answer
  <2>2. planning' = "items" /\ index' = 1
    BY <1>4 DEF PlannerInv, Planner!Answer, Planner!search
  <2>3. \A k \in DOMAIN items' : ~(k < 1)
    BY <2>1
  <2>4. QED
    BY <1>1, <2>1, <2>2, <2>3 DEF PlannerInv, Planner!Pc
<1>5. CASE Planner!AnswerIsMalformed
  BY <1>1, <1>5 DEF PlannerInv, Planner!AnswerIsMalformed, Planner!Pc, Planner!search
<1>6. CASE Planner!ReadItem
  <2>1. /\ planning = "items" /\ index <= Len(items) /\ items' = items /\ config' = config
        /\ \/ planning' = "rejected" /\ index' = index
           \/ /\ planning' = "items" /\ index' = index + 1
              /\ items[index].task \in DOMAIN config.tasks
    BY <1>1, <1>6 DEF Planner!ReadItem, routerVars
  <2>2. DOMAIN items \subseteq Nat
    BY DEF PlannerInv
  <2>3. QED
    BY <1>1, <2>1, <2>2 DEF PlannerInv, Planner!Pc
<1>7. CASE Planner!CheckDependencies
  <2>1. /\ planning = "items" /\ index > Len(items) /\ items' = items /\ config' = config
        /\ planning' \in {"cycles", "rejected"} /\ index' = 1
    BY <1>1, <1>7 DEF Planner!CheckDependencies, routerVars
  <2>2. \A k \in DOMAIN items : k < index
    BY <2>1 DEF PlannerInv
  <2>3. QED
    BY <1>1, <2>1, <2>2 DEF PlannerInv, Planner!Pc
<1>8. CASE Planner!VisitNextItem \/ Planner!VisitDependency \/ Planner!Leave \/ Planner!Accept
  <2>1. /\ planning = "cycles" /\ items' = items /\ config' = config
        /\ planning' \in {"cycles", "accepted", "rejected"} /\ index' \in {index, index + 1}
    BY <1>1, <1>8 DEF Planner!VisitNextItem, Planner!VisitDependency, Planner!Visit,
                      Planner!Leave, Planner!Accept, Planner!search, routerVars
  <2>2. QED
    BY <1>1, <2>1 DEF PlannerInv, Planner!Pc
<1>9. QED
  BY <1>1, <1>4, <1>5, <1>6, <1>7, <1>8 DEF Planner!Next

\* A planned item is routed under the configuration its plan was checked with.
LEMMA PlanAcceptedKeeps ==
  ASSUME IInv, PlanAccepted
  PROVE  IInv'
<1> USE DEF IInv, PlanAccepted, Goto
<1>1. /\ phase = "planning" /\ run = None /\ Offered
      /\ phase' = "routing" /\ UNCHANGED <<plannerVars, command, inventory, run, commands>>
  BY DEF PhaseInv
<1>2. PICK k \in DOMAIN items :
        Router!Ask([kind |-> "planned", task |-> items[k].task, flags |-> items[k].flags,
                    access |-> items[k].access])
  BY DEF Ask
<1> DEFINE request == [kind |-> "planned", task |-> items[k].task, flags |-> items[k].flags,
                       access |-> items[k].access]
<1>3. items[k] \in WorkItem /\ items[k].task \in DOMAIN config.tasks
  BY DEF PlannerInv
<1>4. request \in Request
  BY <1>3 DEF WorkItem, Request, Kind
<1>5. RouterInv' /\ pc' = "select" /\ item' = request /\ config' = config
  BY <1>2, <1>4, AskKeeps
<1>6. PlannerInv' /\ NameInv' /\ StoredInv'
  BY <1>1, <1>3, <1>5 DEF PlannerInv, NameInv, StoredInv, plannerVars
<1>7. Creation'
  BY <1>1, <1>5 DEF Creation, Offered, ConfiguredModels
<1>8. PhaseInv'
  BY <1>1, <1>5, <1>7 DEF PhaseInv, Phase
<1>9. QED
  BY <1>5, <1>6, <1>8

\* A run is stored with its configuration.
LEMMA CreateRunKeeps ==
  ASSUME IInv, CreateRun
  PROVE  IInv'
<1> USE DEF IInv, CreateRun, RoutedFor, Goto
<1>1. /\ phase = "routing" /\ pc = "routed" /\ run = None /\ phase' = "dispatch"
      /\ UNCHANGED <<routerVars, plannerVars, command, inventory, commands>>
  OBVIOUS
<1>2. RouterInv'
  BY <1>1, RouterUnchanged
<1>3. Stored(run') /\ run' # None /\ run'.digest = config
  BY CreateStored, NoRunAssumption DEF Stored
<1>4. PlannerInv' /\ NameInv' /\ StoredInv'
  BY <1>1, <1>3 DEF PlannerInv, NameInv, StoredInv, plannerVars, routerVars
<1>5. Offered'
  BY <1>1 DEF PhaseInv, Adopting, Creation, Reviewing, Offered, ConfiguredModels, routerVars
<1>6. PhaseInv'
  BY <1>1, <1>3, <1>5 DEF PhaseInv, Phase, routerVars
<1>7. QED
  BY <1>2, <1>4, <1>6

\* An adopted run has the route and the digest of this command.
LEMMA AdoptKeeps ==
  ASSUME IInv, AdoptCurrentConfiguration
  PROVE  IInv'
<1> USE DEF IInv, AdoptCurrentConfiguration, RoutedFor, Goto
<1>1. /\ phase = "routing" /\ pc = "routed" /\ run # None /\ item = run.item
      /\ phase' = "inventory" /\ run' = [run EXCEPT !.route = route, !.digest = config]
      /\ UNCHANGED <<routerVars, plannerVars, command, inventory, commands>>
  OBVIOUS
<1>2. RouterInv'
  BY <1>1, RouterUnchanged
<1>3. Stored(run)
  BY <1>1 DEF StoredInv
<1>4. Stored(run') /\ run' # None /\ run'.digest = config
  BY <1>1, <1>3, AdoptStored, NoRunAssumption DEF Stored, StoredRun
<1>5. command \notin Creating
  BY <1>1, <1>3 DEF PhaseInv, Adopting, Creation, Reviewing
<1>6. PlannerInv' /\ NameInv' /\ StoredInv'
  BY <1>1, <1>4 DEF PlannerInv, NameInv, StoredInv, plannerVars, routerVars
<1>7. PhaseInv'
  BY <1>1, <1>4, <1>5 DEF PhaseInv, Phase, routerVars
<1>8. QED
  BY <1>2, <1>6, <1>7

\* A turn changes nothing but that its item is finished.
LEMMA TurnKeeps ==
  ASSUME IInv, Turn
  PROVE  IInv'
<1> USE DEF IInv, Turn, Goto
<1>1. /\ phase = "dispatch" /\ run # None /\ Stored(run) /\ Configured(config)
      /\ UNCHANGED <<routerVars, plannerVars, command, inventory, commands>>
  BY DEF PhaseInv, StoredInv, RouterInv, Configured
<1>2. RouterInv'
  BY <1>1, RouterUnchanged
<1>3. Stored(run') /\ run' # None /\ run'.digest = run.digest
  BY <1>1, FinishedStored, NoRunAssumption DEF Stored, StoredRun
<1>4. phase' \in {"dispatch", "end"}
  BY <1>1
<1>5. PlannerInv' /\ NameInv' /\ StoredInv'
  BY <1>1, <1>3, <1>4 DEF PlannerInv, NameInv, StoredInv, plannerVars, routerVars
<1>6. PhaseInv'
  BY <1>1, <1>3, <1>4 DEF PhaseInv, Phase, Offered, ConfiguredModels, routerVars
<1>7. QED
  BY <1>2, <1>5, <1>6

\* The review's task is one of the configuration's.
LEMMA RouteCompletionKeeps ==
  ASSUME IInv, RouteCompletion
  PROVE  IInv'
<1> USE DEF IInv, RouteCompletion, Goto
<1> DEFINE request == [kind |-> "completion", task |-> config.completion, flags |-> {},
                       access |-> "read-only"]
<1>1. /\ phase = "dispatch" /\ run # None /\ run.digest = config /\ Offered /\ Configured(config)
      /\ run.item.kind = "planned" /\ Router!Ask(request)
      /\ phase' = "routing" /\ UNCHANGED <<plannerVars, command, inventory, run, commands>>
  BY DEF PhaseInv, Ask, RouterInv, Configured
<1>2. config.completion \in Task /\ config.completion \in DOMAIN config.tasks
  BY <1>1, RawAssumption DEF Configured, IsRouterConfig, ValidConfiguration, ReferencesKnown
<1>3. request \in Request
  BY <1>2 DEF Request, Kind, Access
<1>4. RouterInv' /\ pc' = "select" /\ item' = request /\ config' = config
  BY <1>1, <1>3, AskKeeps
<1>5. PlannerInv' /\ NameInv' /\ StoredInv'
  BY <1>1, <1>2, <1>4 DEF PlannerInv, NameInv, StoredInv, plannerVars
<1>6. Reviewing'
  BY <1>1, <1>4 DEF Reviewing, Offered, ConfiguredModels
<1>7. PhaseInv'
  BY <1>1, <1>4, <1>6 DEF PhaseInv, Phase
<1>8. QED
  BY <1>4, <1>5, <1>7

\* The review is stored with the route of this configuration.
LEMMA AppendCompletionKeeps ==
  ASSUME IInv, AppendCompletion
  PROVE  IInv'
<1> USE DEF IInv, AppendCompletion, RoutedFor, Goto
<1>1. /\ phase = "routing" /\ pc = "routed" /\ item.kind = "completion" /\ run.item # item
      /\ phase' = "dispatch"
      /\ run' = [run EXCEPT !.item = item, !.route = route, !.finished = FALSE]
      /\ UNCHANGED <<routerVars, plannerVars, command, inventory, commands>>
  OBVIOUS
<1>2. Reviewing /\ Stored(run)
  BY <1>1 DEF PhaseInv, Adopting, Creation, Reviewing, StoredInv
<1>3. RouterInv'
  BY <1>1, RouterUnchanged
<1>4. Stored(run') /\ run' # None /\ run'.digest = config
  BY <1>1, <1>2, ReviewStored, NoRunAssumption DEF Reviewing, Stored, StoredRun
<1>5. PlannerInv' /\ NameInv' /\ StoredInv'
  BY <1>1, <1>4 DEF PlannerInv, NameInv, StoredInv, plannerVars, routerVars
<1>6. PhaseInv'
  BY <1>1, <1>2, <1>4 DEF PhaseInv, Phase, Reviewing, Offered, ConfiguredModels, routerVars
<1>7. QED
  BY <1>3, <1>5, <1>6

\* A stutter keeps everything.
LEMMA StutterKeeps ==
  ASSUME IInv, UNCHANGED vars
  PROVE  IInv'
<1> USE DEF IInv, vars
<1>1. RouterInv'
  BY RouterUnchanged
<1>2. PlannerInv' /\ NameInv' /\ StoredInv'
  BY DEF PlannerInv, NameInv, StoredInv, plannerVars, routerVars
<1>3. PhaseInv'
  BY DEF PhaseInv, Adopting, Creation, Reviewing, Offered, ConfiguredModels, routerVars
<1>4. QED
  BY <1>1, <1>2, <1>3

\* Every step of a command keeps what its next one relies on.
LEMMA Inductive == IInv /\ [Next]_vars => IInv'
  BY StartKeeps, LoadKeeps, CheckDigestKeeps, ReadInventoryKeeps, RouteKeeps, NoRouteKeeps,
     StartPlanningKeeps, PlanKeeps, PlanAcceptedKeeps, CreateRunKeeps, AdoptKeeps, TurnKeeps,
     RouteCompletionKeeps, AppendCompletionKeeps, EndKeeps, StutterKeeps DEF Next

\* The conjunction holds in every reachable state.
LEMMA Invariance == Spec => []IInv
<1>1. Init => IInv
  BY InitInv
<1>2. QED
  BY <1>1, Inductive, PTL DEF Spec

-----------------------------------------------------------------------------
(* What the runs check.                                                    *)

\* The state of every command and of the run it leaves is well typed.
THEOREM TypeCorrect == Spec => []TypeOK
<1>1. IInv => TypeOK
  BY DEF IInv, TypeOK, Router!TypeOK, RouterInv, PlannerInv, PhaseInv, StoredInv, Stored,
         Router!Request, Request, Router!Kind, Kind, Router!Access, Access, Router!Mode, Mode
<1>2. QED
  BY <1>1, Invariance, PTL

(***************************************************************************)
(* _adopt_current_configuration and route, for all configurations: nothing *)
(* unfinished is stored below a floor or without a demanded approval.      *)
(***************************************************************************)
THEOREM FloorsAreMet == Spec => []StoredRoutesMeetFloors
<1>1. IInv => StoredRoutesMeetFloors
  BY DEF IInv, StoredInv, Stored, StoredRoutesMeetFloors
<1>2. QED
  BY <1>1, Invariance, PTL

\* _validate_model_inventory guards every turn, whatever the operator changes in between.
THEOREM ModelsAreAvailable == Spec => []TurnsUseAvailableModels
<1>1. IInv => TurnsUseAvailableModels
  <2> SUFFICES ASSUME IInv PROVE TurnsUseAvailableModels
    OBVIOUS
  <2>1. phase = "planning" => route.model \in inventory
    BY RoutedModel DEF IInv, PhaseInv, RouterInv, Offered, ConfiguredModels
  <2>2. phase = "dispatch" /\ ~run.finished => run.route.model \in inventory
    BY RoutedModel DEF IInv, PhaseInv, StoredInv, Stored, Offered, ConfiguredModels
  <2>3. QED
    BY <2>1, <2>2 DEF TurnsUseAvailableModels
<1>2. QED
  BY <1>1, Invariance, PTL

\* load_router_config leaves route no error but a name that is not there.
THEOREM NamesOnly == Spec => []OnlyNamesAreUnknown
<1>1. IInv => OnlyNamesAreUnknown
  BY DEF IInv, RouterInv, NameInv, OnlyNamesAreUnknown
<1>2. QED
  BY <1>1, Invariance, PTL

\* _explicit_item's access and the route's sandbox agree, adopted back and forth.
THEOREM AccessAgrees == Spec => []ExplicitAccessIsSandbox
<1>1. IInv => ExplicitAccessIsSandbox
  BY DEF IInv, StoredInv, Stored, MeetsFloors, ExplicitAccessIsSandbox
<1>2. QED
  BY <1>1, Invariance, PTL

-----------------------------------------------------------------------------
(***************************************************************************)
(* The planner's depth-first search is exact: a list is accepted if and    *)
(* only if it is a plan, for lists of any length and any dependencies,     *)
(* although visited and visiting are shared by all starting points.        *)
(***************************************************************************)

(* Acyclic graphs.  D is a dependency relation: what each identifier       *)
(* depends on.                                                             *)

Relations == [Id -> SUBSET Id]

Closed(D, V) == \A x \in V : D[x] \subseteq V

\* Every part of V has an element that depends on none of the part.
Grounded(D, V) == \A S \in SUBSET V : S # {} => \E x \in S : D[x] \cap S = {}

\* An item whose dependencies are all visited may be added to what is visited.
LEMMA Grow ==
  ASSUME NEW D \in Relations, NEW V \in SUBSET Id, Closed(D, V), Grounded(D, V),
         NEW x \in Id \ V, D[x] \subseteq V
  PROVE  Closed(D, V \cup {x}) /\ Grounded(D, V \cup {x})
<1>1. Closed(D, V \cup {x})
  BY DEF Closed
<1>2. ASSUME NEW S \in SUBSET (V \cup {x}), S # {}
      PROVE  \E y \in S : D[y] \cap S = {}
  <2>1. CASE S \cap V = {}
    BY <1>2, <2>1
  <2>2. CASE S \cap V # {}
    <3>1. PICK y \in S \cap V : D[y] \cap (S \cap V) = {}
      BY <2>2 DEF Grounded
    <3>2. D[y] \subseteq V
      BY <3>1 DEF Closed
    <3>3. QED
      BY <3>1, <3>2
  <2>3. QED
    BY <2>1, <2>2
<1>3. QED
  BY <1>1, <1>2 DEF Grounded

-----------------------------------------------------------------------------
(* Stacks of frames.                                                       *)

Frame == [item: Id, rest: SUBSET Id]

\* What the frame j is waiting for; open is what the top is about to visit.
Callee(fr, j, open) == IF j < Len(fr) THEN {fr[j + 1].item} ELSE open

Entered(fr) == {fr[j].item : j \in 1 .. Len(fr)}

\* Every frame has visited its dependencies but for the rest and its callee.
Frames(D, fr, V, open) ==
  /\ fr \in Seq(Frame)
  /\ \A j \in 1 .. Len(fr) :
       /\ fr[j].rest \subseteq D[fr[j].item]
       /\ D[fr[j].item] \subseteq fr[j].rest \cup V \cup Callee(fr, j, open)
  /\ \A j \in 1 .. Len(fr) - 1 : fr[j + 1].item \in D[fr[j].item]
  /\ \A j, l \in 1 .. Len(fr) : fr[j].item = fr[l].item => j = l

\* What visit does to the stack: take a dependency, enter an item, return.
Taken(fr, d)      == Append(SubSeq(fr, 1, Len(fr) - 1), [fr[Len(fr)] EXCEPT !.rest = @ \ {d}])
Pushed(fr, d, D)  == Append(fr, [item |-> d, rest |-> D[d]])
Popped(fr)        == SubSeq(fr, 1, Len(fr) - 1)
Returning(fr)     == fr[Len(fr)].item

\* The frames below the top.
LEMMA Below ==
  ASSUME NEW fr \in Seq(Frame), fr # <<>>
  PROVE  /\ Len(fr) \in Nat /\ Len(fr) >= 1
         /\ SubSeq(fr, 1, Len(fr) - 1) \in Seq(Frame)
         /\ Len(SubSeq(fr, 1, Len(fr) - 1)) = Len(fr) - 1
         /\ \A j \in 1 .. Len(fr) - 1 : SubSeq(fr, 1, Len(fr) - 1)[j] = fr[j]
<1>1. Len(fr) \in Nat /\ Len(fr) >= 1 /\ \A j \in 1 .. Len(fr) : fr[j] \in Frame
  BY EmptySeq, ElementOfSeq, LenProperties
<1> DEFINE n == Len(fr)
           below == SubSeq(fr, 1, n - 1)
<1>2. n - 1 \in Int /\ 1 \in Int /\ \A j \in 1 .. n - 1 : fr[j] \in Frame
  BY <1>1
<1>3. /\ below \in Seq(Frame)
      /\ Len(below) = IF 1 <= n - 1 THEN (n - 1) - 1 + 1 ELSE 0
      /\ \A j \in 1 .. (n - 1) - 1 + 1 : below[j] = fr[1 + j - 1]
  BY <1>2, SubSeqProperties
<1>4. n \in Nat /\ n >= 1
  BY <1>1
<1> HIDE DEF below, n
<1>5. Len(below) = n - 1
  <2>1. CASE n = 1
    BY <1>3, <2>1
  <2>2. CASE n # 1
    BY <1>3, <1>4, <2>2
  <2>3. QED
    BY <2>1, <2>2
<1>6. \A j \in 1 .. n - 1 : below[j] = fr[j]
  BY <1>3, <1>4
<1>7. QED
  BY <1>3, <1>4, <1>5, <1>6 DEF below, n

\* The top frame takes a dependency from its rest.
LEMMA Call ==
  ASSUME NEW D \in Relations, NEW V, NEW fr, fr # <<>>, Frames(D, fr, V, {}),
         NEW d \in fr[Len(fr)].rest
  PROVE  /\ Frames(D, Taken(fr, d), V, {d}) /\ Taken(fr, d) # <<>>
         /\ Entered(Taken(fr, d)) = Entered(fr)
         /\ d \in D[Taken(fr, d)[Len(Taken(fr, d))].item]
<1> DEFINE now   == Taken(fr, d)
           below == SubSeq(fr, 1, Len(fr) - 1)
           top   == fr[Len(fr)]
           new   == [top EXCEPT !.rest = @ \ {d}]
           n     == Len(fr)
<1>1. fr \in Seq(Frame)
  BY DEF Frames
<1>2. n \in Nat /\ n >= 1 /\ below \in Seq(Frame) /\ Len(below) = n - 1
      /\ \A j \in 1 .. n - 1 : below[j] = fr[j]
  BY <1>1, Below
<1>3. top \in Frame
  BY <1>1, <1>2, ElementOfSeq
<1>4. new \in Frame /\ new.item = top.item /\ new.rest = top.rest \ {d}
  BY <1>3 DEF Frame
<1>5. now \in Seq(Frame) /\ now # <<>> /\ Len(now) = n
      /\ (\A j \in 1 .. n - 1 : now[j] = fr[j]) /\ now[n] = new
  BY <1>2, <1>4, AppendProperties DEF Taken
<1> HIDE DEF now, new, below
<1>6. \A j \in 1 .. n : now[j].item = fr[j].item
  <2>1. \A j \in 1 .. n : j = n \/ j \in 1 .. n - 1
    BY <1>2
  <2>2. now[n].item = fr[n].item
    BY <1>4, <1>5
  <2>3. QED
    BY <1>5, <2>1, <2>2
<1>7. Entered(now) = Entered(fr)
  BY <1>5, <1>6 DEF Entered
<1>8. d \in D[top.item]
  BY <1>2 DEF Frames
<1>9. ASSUME NEW j \in 1 .. n
      PROVE  /\ now[j].rest \subseteq D[now[j].item]
             /\ D[now[j].item] \subseteq now[j].rest \cup V \cup Callee(now, j, {d})
  <2>1. /\ fr[j].rest \subseteq D[fr[j].item]
        /\ D[fr[j].item] \subseteq fr[j].rest \cup V \cup Callee(fr, j, {})
    BY DEF Frames
  <2>2. CASE j = n
    <3>1. Callee(now, j, {d}) = {d} /\ Callee(fr, j, {}) = {}
      BY <1>2, <1>5, <2>2 DEF Callee
    <3>2. now[j].item = fr[j].item /\ now[j].rest = fr[j].rest \ {d}
      BY <1>4, <1>5, <2>2
    <3>3. QED
      BY <2>1, <3>1, <3>2
  <2>3. CASE j # n
    <3>1. now[j] = fr[j] /\ j + 1 \in 1 .. n /\ j < n
      BY <1>2, <1>5, <2>3
    <3>2. now[j + 1].item = fr[j + 1].item
      BY <1>6, <3>1
    <3>3. QED
      BY <1>5, <2>1, <3>1, <3>2 DEF Callee
  <2>4. QED
    BY <2>2, <2>3
<1>10. \A j \in 1 .. n - 1 : now[j + 1].item \in D[now[j].item]
  <2>1. \A j \in 1 .. n - 1 : fr[j + 1].item \in D[fr[j].item] /\ j \in 1 .. n /\ j + 1 \in 1 .. n
    BY <1>2 DEF Frames
  <2>2. QED
    BY <1>6, <2>1
<1>11. \A j, l \in 1 .. n : now[j].item = now[l].item => j = l
  BY <1>6 DEF Frames
<1>12. Frames(D, now, V, {d})
  BY <1>5, <1>9, <1>10, <1>11 DEF Frames
<1>13. QED
  BY <1>4, <1>5, <1>7, <1>8, <1>12 DEF now

\* What is visited need not be visited again.
LEMMA Skip ==
  ASSUME NEW D, NEW V, NEW fr, NEW d \in V, Frames(D, fr, V, {d})
  PROVE  Frames(D, fr, V, {})
  BY DEF Frames, Callee

\* A new item is entered with all its dependencies before it.
LEMMA Enter ==
  ASSUME NEW D \in Relations, NEW V, NEW fr, NEW d \in Id, Frames(D, fr, V, {d}),
         d \notin Entered(fr), fr # <<>> => d \in D[fr[Len(fr)].item]
  PROVE  /\ Frames(D, Pushed(fr, d, D), V, {})
         /\ Entered(Pushed(fr, d, D)) = Entered(fr) \cup {d}
<1> DEFINE now == Pushed(fr, d, D)
           new == [item |-> d, rest |-> D[d]]
           n   == Len(fr)
<1>1. fr \in Seq(Frame) /\ n \in Nat /\ (n = 0 <=> fr = <<>>)
  BY EmptySeq, LenProperties DEF Frames
<1>2. new \in Frame /\ new.item = d /\ new.rest = D[d]
  BY DEF Frame, Relations
<1>3. now \in Seq(Frame) /\ now # <<>> /\ Len(now) = n + 1
      /\ (\A j \in 1 .. n : now[j] = fr[j]) /\ now[n + 1] = new
  BY <1>1, <1>2, AppendProperties DEF Pushed
<1> HIDE DEF new, now
<1>4. Entered(now) = Entered(fr) \cup {d}
  <2>1. Entered(now) \subseteq Entered(fr) \cup {d}
    BY <1>1, <1>2, <1>3 DEF Entered
  <2>2. Entered(fr) \subseteq Entered(now)
    BY <1>1, <1>3 DEF Entered
  <2>3. d \in Entered(now)
    <3>1. n + 1 \in 1 .. Len(now) /\ now[n + 1].item = d
      BY <1>1, <1>2, <1>3
    <3>2. QED
      BY <3>1 DEF Entered
  <2>4. QED
    BY <2>1, <2>2, <2>3
<1>5. ASSUME NEW j \in 1 .. n + 1
      PROVE  /\ now[j].rest \subseteq D[now[j].item]
             /\ D[now[j].item] \subseteq now[j].rest \cup V \cup Callee(now, j, {})
  <2>1. CASE j = n + 1
    BY <1>1, <1>2, <1>3, <2>1
  <2>2. CASE j # n + 1
    <3>1. j \in 1 .. n /\ now[j] = fr[j]
      BY <1>1, <1>3, <2>2
    <3>2. Callee(now, j, {}) = Callee(fr, j, {d})
      <4>1. CASE j = n
        <5>1. Callee(now, j, {}) = {d}
          BY <1>1, <1>2, <1>3, <4>1 DEF Callee
        <5>2. Callee(fr, j, {d}) = {d}
          BY <1>1, <4>1 DEF Callee
        <5>3. QED
          BY <5>1, <5>2
      <4>2. CASE j # n
        <5>1. j < Len(now) /\ j < Len(fr) /\ now[j + 1] = fr[j + 1]
          BY <1>1, <1>3, <3>1, <4>2
        <5>2. QED
          BY <5>1 DEF Callee
      <4>3. QED
        BY <4>1, <4>2
    <3>3. QED
      BY <3>1, <3>2 DEF Frames
  <2>3. QED
    BY <2>1, <2>2
<1>6. ASSUME NEW j \in 1 .. n
      PROVE  now[j + 1].item \in D[now[j].item]
  <2>1. CASE j = n
    BY <1>1, <1>2, <1>3, <2>1
  <2>2. CASE j # n
    BY <1>1, <1>3, <2>2 DEF Frames
  <2>3. QED
    BY <2>1, <2>2
<1>7. \A j, l \in 1 .. n + 1 : now[j].item = now[l].item => j = l
  <2>1. \A j \in 1 .. n : fr[j].item # d
    BY DEF Entered
  <2>2. \A j, l \in 1 .. n : fr[j].item = fr[l].item => j = l
    BY DEF Frames
  <2>3. QED
    BY <1>1, <1>2, <1>3, <2>1, <2>2
<1>8. Frames(D, now, V, {})
  BY <1>1, <1>3, <1>5, <1>6, <1>7 DEF Frames
<1>9. QED
  BY <1>4, <1>8 DEF now

\* The top returns when nothing of it is left to visit.
LEMMA Return ==
  ASSUME NEW D \in Relations, NEW V, NEW fr, fr # <<>>, Frames(D, fr, V, {}),
         fr[Len(fr)].rest = {}
  PROVE  /\ Returning(fr) \in Id /\ D[Returning(fr)] \subseteq V
         /\ Frames(D, Popped(fr), V \cup {Returning(fr)}, {})
         /\ Returning(fr) \notin Entered(Popped(fr))
         /\ Entered(fr) = Entered(Popped(fr)) \cup {Returning(fr)}
<1> DEFINE below == Popped(fr)
           n == Len(fr)
           x == fr[n].item
<1>1. fr \in Seq(Frame)
  BY DEF Frames
<1>2. n \in Nat /\ n >= 1 /\ below \in Seq(Frame) /\ Len(below) = n - 1
      /\ \A j \in 1 .. n - 1 : below[j] = fr[j]
  BY <1>1, Below DEF Popped
<1> HIDE DEF below
<1>3. fr[n] \in Frame
  BY <1>1, <1>2, ElementOfSeq
<1>4. x \in Id
  BY <1>3 DEF Frame
<1>5. D[x] \subseteq V
  BY <1>2 DEF Frames, Callee
<1>6. \A j \in 1 .. n - 1 : fr[j].item # x
  BY <1>2 DEF Frames
<1>7. x \notin Entered(below)
  BY <1>2, <1>6 DEF Entered
<1>8. Entered(fr) = Entered(below) \cup {x}
  <2>1. \A j \in 1 .. n : j = n \/ j \in 1 .. n - 1
    BY <1>2
  <2>2. Entered(fr) \subseteq Entered(below) \cup {x}
    BY <1>2, <2>1 DEF Entered
  <2>3. \A j \in 1 .. n - 1 : j \in 1 .. n
    BY <1>2
  <2>4. Entered(below) \subseteq Entered(fr)
    BY <1>2, <2>3 DEF Entered
  <2>5. x \in Entered(fr)
    BY <1>2 DEF Entered
  <2>6. QED
    BY <2>2, <2>4, <2>5
<1>9. ASSUME NEW j \in 1 .. n - 1
      PROVE  /\ below[j].rest \subseteq D[below[j].item]
             /\ D[below[j].item] \subseteq below[j].rest \cup (V \cup {x}) \cup Callee(below, j, {})
  <2>1. /\ fr[j].rest \subseteq D[fr[j].item]
        /\ D[fr[j].item] \subseteq fr[j].rest \cup V \cup Callee(fr, j, {})
    <3>1. j \in 1 .. n
      BY <1>2
    <3>2. QED
      BY <3>1 DEF Frames
  <2>2. Callee(fr, j, {}) \subseteq Callee(below, j, {}) \cup {x}
    <3>1. CASE j = n - 1
      BY <1>2, <3>1 DEF Callee
    <3>2. CASE j # n - 1
      <4>1. j < n /\ j < Len(below) /\ below[j + 1] = fr[j + 1]
        BY <1>2, <3>2
      <4>2. QED
        BY <4>1 DEF Callee
    <3>3. QED
      BY <3>1, <3>2
  <2>3. below[j] = fr[j]
    BY <1>2
  <2>4. QED
    BY <2>1, <2>2, <2>3
<1>10. ASSUME NEW j \in 1 .. (n - 1) - 1
       PROVE  below[j + 1].item \in D[below[j].item]
  <2>1. j \in 1 .. n - 1 /\ j + 1 \in 1 .. n - 1
    BY <1>2
  <2>2. fr[j + 1].item \in D[fr[j].item]
    BY <2>1 DEF Frames
  <2>3. QED
    BY <1>2, <2>1, <2>2
<1>11. \A j, l \in 1 .. n - 1 : below[j].item = below[l].item => j = l
  BY <1>2 DEF Frames
<1>12. Frames(D, below, V \cup {x}, {})
  BY <1>2, <1>9, <1>10, <1>11 DEF Frames
<1>13. QED
  BY <1>4, <1>5, <1>7, <1>8, <1>12 DEF below, Returning

\* An item that is entered while it is visited closes a cycle.
LEMMA CycleFound ==
  ASSUME NEW D \in Relations, NEW V, NEW fr, NEW d \in Entered(fr), Frames(D, fr, V, {d}),
         d \in D[fr[Len(fr)].item]
  PROVE  \E S \in SUBSET Entered(fr) : S # {} /\ \A x \in S : D[x] \cap S # {}
<1> DEFINE n == Len(fr)
<1>1. n \in Nat
  BY LenProperties DEF Frames
<1>2. PICK j \in 1 .. n : fr[j].item = d
  BY DEF Entered
<1> DEFINE S == {fr[k].item : k \in j .. n}
<1>3. S \in SUBSET Entered(fr)
  BY <1>1 DEF Entered
<1>4. d \in S
  BY <1>1, <1>2
<1>5. ASSUME NEW k \in j .. n
      PROVE  D[fr[k].item] \cap S # {}
  <2>1. CASE k = n
    BY <1>4, <2>1
  <2>2. CASE k # n
    <3>1. k \in 1 .. n - 1 /\ k + 1 \in j .. n
      BY <1>1, <2>2
    <3>2. fr[k + 1].item \in D[fr[k].item]
      BY <3>1 DEF Frames
    <3>3. QED
      BY <3>1, <3>2
  <2>3. QED
    BY <2>1, <2>2
<1>6. \A x \in S : D[x] \cap S # {}
  BY <1>5
<1> HIDE DEF S
<1>7. QED
  BY <1>3, <1>4, <1>6

-----------------------------------------------------------------------------
(* The search of a list.                                                   *)

Known == IF config = None THEN {} ELSE DOMAIN config.tasks
Deps  == [id \in Id |-> Planner!DependenciesOf(id)]
Ids   == {items[k].id : k \in DOMAIN items}

\* The items examined so far are sound and distinct.
SoundSoFar ==
  \A k \in DOMAIN items :
    k < index => /\ ~items[k].flawed
             /\ items[k].task \in Known
             /\ \A j \in DOMAIN items : j < index /\ items[j].id = items[k].id => j = k

AllSound ==
  \A k \in DOMAIN items :
    /\ ~items[k].flawed
    /\ items[k].task \in Known
    /\ items[k].dependencies \subseteq Ids
    /\ \A j \in DOMAIN items : items[j].id = items[k].id => j = k

Searched ==
  /\ Frames(Deps, stack, visited, {})
  /\ visiting = Entered(stack) /\ visiting \cap visited = {}
  /\ visiting \subseteq Ids /\ visited \subseteq Ids
  /\ Closed(Deps, visited) /\ Grounded(Deps, visited)
  /\ \A k \in DOMAIN items : k < index => items[k].id \in visiting \cup visited

SearchInv ==
  /\ index >= 1
  /\ planning = "turn" => seen = {}
  /\ planning \in {"turn", "items"} => visiting = {} /\ visited = {} /\ stack = <<>>
  /\ planning = "items" => /\ SoundSoFar
                           /\ seen = {items[k].id : k \in {j \in DOMAIN items : j < index}}
  /\ planning = "cycles" => AllSound /\ Searched
  /\ planning = "accepted" => Planner!IsPlan
  /\ planning = "rejected" => ~Planner!IsPlan

\* A plan is a list of sound items whose dependencies are grounded.
LEMMA PlanIs ==
  ASSUME items \in Seq(WorkItem)
  PROVE  /\ Deps \in Relations /\ Ids \subseteq Id
         /\ Planner!IsPlan <=> AllSound /\ Grounded(Deps, Ids)
<1>1. \A k \in DOMAIN items : items[k] \in WorkItem
  OBVIOUS
<1>2. Ids \subseteq Id
  BY <1>1 DEF Ids, WorkItem
<1>3. \A id : Planner!DependenciesOf(id) \subseteq Id
  BY <1>1 DEF Planner!DependenciesOf, WorkItem
<1>4. Deps \in Relations
  BY <1>3 DEF Deps, Relations
<1>5. Planner!Acyclic <=> Grounded(Deps, Ids)
  BY <1>2 DEF Planner!Acyclic, Grounded, Deps, Ids
<1>6. Planner!IsPlan <=> AllSound /\ Planner!Acyclic
  BY DEF Planner!IsPlan, AllSound, Known, Ids
<1>7. QED
  BY <1>2, <1>4, <1>5, <1>6

\* Dependencies of known items are among the items, if every item's are.
LEMMA DepsKnown ==
  ASSUME items \in Seq(WorkItem), AllSound, NEW x \in Id
  PROVE  Deps[x] \subseteq Ids
  BY DEF AllSound, Deps, Planner!DependenciesOf

\* As long as the list and the configuration stay, so does what they mean.
LEMMA SameList ==
  ASSUME UNCHANGED <<items, config>>
  PROVE  /\ Known' = Known /\ Deps' = Deps /\ Ids' = Ids /\ AllSound' = AllSound
         /\ Planner!IsPlan' = Planner!IsPlan
<1>1. Known' = Known /\ Deps' = Deps /\ Ids' = Ids
  BY DEF Known, Deps, Ids, Planner!DependenciesOf
<1>2. AllSound' = AllSound
  BY <1>1 DEF AllSound
<1>3. Planner!Acyclic' = Planner!Acyclic
  BY DEF Planner!Acyclic, Planner!DependenciesOf
<1>4. Planner!IsPlan' = Planner!IsPlan
  BY <1>3 DEF Planner!IsPlan
<1>5. QED
  BY <1>1, <1>2, <1>4

\* visit rejects a cycle, passes what is visited, or enters an item.
LEMMA VisitKeeps ==
  ASSUME items \in Seq(WorkItem), AllSound, planning = "cycles",
         NEW d \in Ids, NEW fr, Planner!Visit(d, fr),
         Frames(Deps, fr, visited, {d}), visiting = Entered(fr),
         fr # <<>> => d \in Deps[fr[Len(fr)].item],
         visiting \cap visited = {}, visiting \subseteq Ids
  PROVE  \/ planning' = "rejected" /\ ~Planner!IsPlan
         \/ /\ planning' = "cycles" /\ visited' = visited
            /\ Frames(Deps, stack', visited, {}) /\ visiting' = Entered(stack')
            /\ visiting' \cap visited = {} /\ visiting' \subseteq Ids
            /\ visiting \subseteq visiting' /\ d \in visiting' \cup visited
<1>1. Deps \in Relations /\ Ids \subseteq Id
  BY PlanIs
<1>2. CASE d \in visiting
  <2>1. planning' = "rejected"
    BY <1>2 DEF Planner!Visit
  <2>2. fr # <<>>
    BY <1>2 DEF Entered
  <2>3. PICK S \in SUBSET Entered(fr) : S # {} /\ \A x \in S : Deps[x] \cap S # {}
    BY <1>1, <1>2, <2>2, CycleFound
  <2>4. S \in SUBSET Ids
    OBVIOUS
  <2>5. ~Grounded(Deps, Ids)
    BY <2>3, <2>4 DEF Grounded
  <2>6. QED
    BY <2>1, <2>5, PlanIs
<1>3. CASE d \in visited \ visiting
  <2>1. stack' = fr /\ UNCHANGED <<planning, visiting, visited>>
    BY <1>3 DEF Planner!Visit
  <2>2. Frames(Deps, fr, visited, {})
    BY <1>3, Skip
  <2>3. QED
    BY <1>3, <2>1, <2>2
<1>4. CASE d \notin visiting /\ d \notin visited
  <2>1. /\ visiting' = visiting \cup {d}
        /\ stack' = Append(fr, [item |-> d, rest |-> Planner!DependenciesOf(d)])
        /\ UNCHANGED <<planning, visited>>
    BY <1>4 DEF Planner!Visit
  <2>2. Planner!DependenciesOf(d) = Deps[d] /\ d \in Id
    BY <1>1 DEF Deps
  <2>3. Frames(Deps, stack', visited, {}) /\ Entered(stack') = Entered(fr) \cup {d}
    <3>1. d \in Id /\ d \notin Entered(fr) /\ Deps \in Relations
      BY <1>1, <1>4, <2>2
    <3>2. stack' = Pushed(fr, d, Deps)
      BY <2>1, <2>2 DEF Pushed
    <3>3. QED
      BY <3>1, <3>2, Enter
  <2>4. QED
    BY <1>4, <2>1, <2>3
<1>5. QED
  BY <1>2, <1>3, <1>4

\* The search moves on to the next item, whose call has no caller.
LEMMA VisitNextItemKeeps ==
  ASSUME PlannerInv, SearchInv, UNCHANGED config, Planner!VisitNextItem
  PROVE  SearchInv'
<1>1. /\ planning = "cycles" /\ stack = <<>> /\ index <= Len(items) /\ index' = index + 1
      /\ UNCHANGED <<items, seen>> /\ Planner!Visit(items[index].id, <<>>)
      /\ items \in Seq(WorkItem) /\ index \in Nat /\ index >= 1 /\ AllSound /\ Searched
  BY DEF Planner!VisitNextItem, PlannerInv, SearchInv
<1> DEFINE d == items[index].id
<1>2. index \in DOMAIN items /\ d \in Ids
  BY <1>1 DEF Ids
<1>3. Frames(Deps, <<>>, visited, {d}) /\ visiting = Entered(<<>>)
  BY <1>1 DEF Searched, Frames
<1>4. \/ planning' = "rejected" /\ ~Planner!IsPlan
      \/ /\ planning' = "cycles" /\ visited' = visited
         /\ Frames(Deps, stack', visited, {}) /\ visiting' = Entered(stack')
         /\ visiting' \cap visited = {} /\ visiting' \subseteq Ids
         /\ visiting \subseteq visiting' /\ d \in visiting' \cup visited
  <2>1. visiting \cap visited = {} /\ visiting \subseteq Ids
    BY <1>1 DEF Searched
  <2>2. QED
    BY <1>1, <1>2, <1>3, <2>1, VisitKeeps
<1>5. UNCHANGED <<Known, Deps, Ids, AllSound, Planner!IsPlan>>
  BY <1>1, SameList
<1>6. CASE planning' = "rejected"
  BY <1>1, <1>4, <1>5, <1>6 DEF SearchInv
<1>7. CASE planning' = "cycles"
  <2>1. \A k \in DOMAIN items : k < index' => k < index \/ k = index
    BY <1>1
  <2>2. \A k \in DOMAIN items : k < index' => items[k].id \in visiting' \cup visited
    BY <1>1, <1>4, <1>7, <2>1 DEF Searched
  <2>3. Searched'
    BY <1>1, <1>4, <1>5, <1>7, <2>2 DEF Searched
  <2>4. QED
    BY <1>1, <1>5, <1>7, <2>3 DEF SearchInv
<1>8. QED
  BY <1>4, <1>6, <1>7

\* The top frame calls visit for one of its dependencies.
LEMMA VisitDependencyKeeps ==
  ASSUME PlannerInv, SearchInv, UNCHANGED config, Planner!VisitDependency
  PROVE  SearchInv'
<1>1. /\ planning = "cycles" /\ stack # <<>> /\ UNCHANGED <<items, index, seen>>
      /\ items \in Seq(WorkItem) /\ index \in Nat /\ index >= 1 /\ AllSound /\ Searched
  BY DEF Planner!VisitDependency, PlannerInv, SearchInv
<1>2. PICK d \in stack[Len(stack)].rest : Planner!Visit(d, Taken(stack, d))
  BY DEF Planner!VisitDependency, Planner!Top, Planner!Callers, Taken
<1> DEFINE fr == Taken(stack, d)
<1>3. Deps \in Relations
  BY <1>1, PlanIs
<1>4. /\ Frames(Deps, fr, visited, {d}) /\ fr # <<>> /\ Entered(fr) = Entered(stack)
      /\ d \in Deps[fr[Len(fr)].item]
  <2>1. Frames(Deps, stack, visited, {}) /\ d \in stack[Len(stack)].rest
    BY <1>1 DEF Searched
  <2>2. QED
    BY <1>1, <1>3, <2>1, Call
<1> HIDE DEF fr
<1>5. d \in Ids
  <2>1. fr \in Seq(Frame) /\ Len(fr) \in 1 .. Len(fr)
    BY <1>4, EmptySeq, LenProperties DEF Frames
  <2>2. fr[Len(fr)].item \in Id
    <3>1. fr[Len(fr)] \in Frame
      BY <2>1, ElementOfSeq
    <3>2. QED
      BY <3>1 DEF Frame
  <2>3. Deps[fr[Len(fr)].item] \subseteq Ids
    BY <1>1, <2>2, DepsKnown
  <2>4. QED
    BY <1>4, <2>3
<1>6. \/ planning' = "rejected" /\ ~Planner!IsPlan
      \/ /\ planning' = "cycles" /\ visited' = visited
         /\ Frames(Deps, stack', visited, {}) /\ visiting' = Entered(stack')
         /\ visiting' \cap visited = {} /\ visiting' \subseteq Ids
         /\ visiting \subseteq visiting' /\ d \in visiting' \cup visited
  <2>1. visiting = Entered(fr) /\ visiting \cap visited = {} /\ visiting \subseteq Ids
    BY <1>1, <1>4 DEF Searched
  <2>2. Planner!Visit(d, fr)
    BY <1>2 DEF fr
  <2>3. QED
    BY <1>1, <1>4, <1>5, <2>1, <2>2, VisitKeeps
<1>7. UNCHANGED <<Known, Deps, Ids, AllSound, Planner!IsPlan>>
  BY <1>1, SameList
<1>8. CASE planning' = "rejected"
  BY <1>1, <1>6, <1>7, <1>8 DEF SearchInv
<1>9. CASE planning' = "cycles"
  <2>1. Searched'
    BY <1>1, <1>6, <1>7, <1>9 DEF Searched
  <2>2. QED
    BY <1>1, <1>7, <1>9, <2>1 DEF SearchInv
<1>10. QED
  BY <1>6, <1>8, <1>9

\* visit returns: the item is grounded, and its caller goes on.
LEMMA LeaveKeeps ==
  ASSUME PlannerInv, SearchInv, UNCHANGED config, Planner!Leave
  PROVE  SearchInv'
<1> DEFINE x == Returning(stack)
<1>1. /\ planning = "cycles" /\ planning' = planning /\ stack # <<>>
      /\ stack[Len(stack)].rest = {}
      /\ visiting' = visiting \ {x} /\ visited' = visited \cup {x} /\ stack' = Popped(stack)
      /\ UNCHANGED <<items, index, seen>>
      /\ items \in Seq(WorkItem) /\ index \in Nat /\ index >= 1 /\ AllSound /\ Searched
  BY DEF Planner!Leave, Planner!Top, Planner!Callers, Popped, Returning, PlannerInv, SearchInv
<1> HIDE DEF x
<1>2. Deps \in Relations /\ Ids \subseteq Id
  BY <1>1, PlanIs
<1>3. Frames(Deps, stack, visited, {})
  BY <1>1 DEF Searched
<1>4. /\ x \in Id /\ Deps[x] \subseteq visited
      /\ Frames(Deps, Popped(stack), visited \cup {x}, {})
      /\ x \notin Entered(Popped(stack)) /\ Entered(stack) = Entered(Popped(stack)) \cup {x}
  <2>1. stack # <<>> /\ stack[Len(stack)].rest = {}
    BY <1>1
  <2>2. QED
    BY <1>2, <1>3, <2>1, Return DEF x
<1>5. UNCHANGED <<Known, Deps, Ids, AllSound, Planner!IsPlan>>
  BY <1>1, SameList
<1>6. visiting' = Entered(stack') /\ x \in visiting /\ x \notin visited
  BY <1>1, <1>4 DEF Searched
<1>7. Closed(Deps, visited') /\ Grounded(Deps, visited')
  <2>1. visited \subseteq Id /\ x \in Id \ visited
    BY <1>1, <1>2, <1>4, <1>6 DEF Searched
  <2>2. Closed(Deps, visited) /\ Grounded(Deps, visited)
    BY <1>1 DEF Searched
  <2>3. QED
    BY <1>1, <1>2, <1>4, <2>1, <2>2, Grow
<1>8. /\ visiting' \cap visited' = {} /\ visiting' \subseteq Ids /\ visited' \subseteq Ids
      /\ visiting \cup visited = visiting' \cup visited'
  BY <1>1, <1>6 DEF Searched
<1>9. Searched'
  BY <1>1, <1>4, <1>5, <1>6, <1>7, <1>8 DEF Searched
<1>10. QED
  BY <1>1, <1>5, <1>9 DEF SearchInv

\* A list is accepted when its last item has returned: all of it is grounded.
LEMMA AcceptKeeps ==
  ASSUME PlannerInv, SearchInv, UNCHANGED config, Planner!Accept
  PROVE  SearchInv'
<1>1. /\ planning = "cycles" /\ planning' = "accepted" /\ stack = <<>> /\ index > Len(items)
      /\ UNCHANGED <<items, index, seen, visiting, visited, stack>>
      /\ items \in Seq(WorkItem) /\ index \in Nat /\ index >= 1 /\ AllSound /\ Searched
  BY DEF Planner!Accept, Planner!search, PlannerInv, SearchInv
<1>2. visiting = {}
  BY <1>1 DEF Searched, Entered
<1>3. \A k \in DOMAIN items : k < index
  BY <1>1
<1>4. Ids = visited
  BY <1>1, <1>2, <1>3 DEF Searched, Ids
<1>5. Grounded(Deps, Ids)
  BY <1>1, <1>4 DEF Searched
<1>6. Planner!IsPlan
  BY <1>1, <1>5, PlanIs
<1>7. UNCHANGED Planner!IsPlan
  BY <1>1, SameList
<1>8. QED
  BY <1>1, <1>6, <1>7 DEF SearchInv

\* _parse_semantic_work_items refuses an item only for a reason.
LEMMA ReadItemKeeps ==
  ASSUME PlannerInv, SearchInv, UNCHANGED config, Planner!ReadItem
  PROVE  SearchInv'
<1>1. /\ planning = "items" /\ index <= Len(items)
      /\ UNCHANGED <<items, visiting, visited, stack>>
      /\ items \in Seq(WorkItem) /\ index \in Nat /\ index >= 1 /\ SoundSoFar
      /\ seen = {items[k].id : k \in {j \in DOMAIN items : j < index}}
      /\ visiting = {} /\ visited = {} /\ stack = <<>>
  BY DEF Planner!ReadItem, PlannerInv, SearchInv
<1>2. index \in DOMAIN items /\ DOMAIN items \subseteq Nat
  BY <1>1
<1>3. UNCHANGED <<Known, Planner!IsPlan>>
  BY <1>1, SameList
<1>4. CASE items[index].flawed \/ items[index].id \in seen \/ items[index].task \notin Known
  <2>1. planning' = "rejected" /\ index' = index
    BY <1>4 DEF Planner!ReadItem, Known
  <2>2. ~AllSound
    <3>1. CASE items[index].id \in seen
      <4>1. PICK k \in DOMAIN items : k < index /\ items[k].id = items[index].id
        BY <1>1, <3>1
      <4>2. k # index
        BY <1>1, <1>2, <4>1
      <4>3. QED
        BY <1>2, <4>1, <4>2 DEF AllSound
    <3>2. QED
      BY <1>2, <1>4, <3>1 DEF AllSound
  <2>3. ~Planner!IsPlan
    BY <1>1, <2>2, PlanIs
  <2>4. QED
    BY <1>1, <1>3, <2>1, <2>3 DEF SearchInv
<1>5. CASE /\ ~items[index].flawed /\ items[index].id \notin seen
           /\ items[index].task \in Known
  <2>1. planning' = "items" /\ index' = index + 1 /\ seen' = seen \cup {items[index].id}
    BY <1>1, <1>5 DEF Planner!ReadItem, Known
  <2>2. \A k \in DOMAIN items : k < index + 1 <=> k < index \/ k = index
    BY <1>1, <1>2
  <2>3. seen' = {items[k].id : k \in {j \in DOMAIN items : j < index + 1}}
    BY <1>1, <1>2, <2>1, <2>2
  <2>4. \A k \in DOMAIN items : k < index => items[k].id # items[index].id
    BY <1>1, <1>5
  <2>5. ASSUME NEW k \in DOMAIN items, k < index + 1
        PROVE  /\ ~items[k].flawed /\ items[k].task \in Known
               /\ \A j \in DOMAIN items : j < index + 1 /\ items[j].id = items[k].id => j = k
    <3>1. CASE k = index
      BY <1>5, <2>2, <2>4, <3>1
    <3>2. CASE k < index
      <4>1. /\ ~items[k].flawed /\ items[k].task \in Known
            /\ \A j \in DOMAIN items : j < index /\ items[j].id = items[k].id => j = k
        BY <1>1, <3>2 DEF SoundSoFar
      <4>2. items[index].id # items[k].id
        BY <2>4, <3>2
      <4>3. QED
        BY <2>2, <4>1, <4>2
    <3>3. QED
      BY <2>2, <2>5, <3>1, <3>2
  <2>6. SoundSoFar'
    BY <1>1, <1>3, <2>1, <2>5 DEF SoundSoFar
  <2>7. QED
    BY <1>1, <2>1, <2>3, <2>6 DEF SearchInv
<1>6. QED
  BY <1>4, <1>5

\* Nothing is entered before every dependency is known.
LEMMA CheckDependenciesKeeps ==
  ASSUME PlannerInv, SearchInv, UNCHANGED config, Planner!CheckDependencies
  PROVE  SearchInv'
<1>1. /\ planning = "items" /\ index > Len(items) /\ index' = 1
      /\ UNCHANGED <<items, seen, visiting, visited, stack>>
      /\ items \in Seq(WorkItem) /\ index \in Nat /\ index >= 1 /\ SoundSoFar
      /\ seen = {items[k].id : k \in {j \in DOMAIN items : j < index}}
      /\ visiting = {} /\ visited = {} /\ stack = <<>>
  BY DEF Planner!CheckDependencies, PlannerInv, SearchInv
<1>2. \A k \in DOMAIN items : k < index
  BY <1>1
<1>3. seen = Ids
  BY <1>1, <1>2 DEF Ids
<1>4. UNCHANGED <<Known, Deps, Ids, AllSound, Planner!IsPlan>>
  BY <1>1, SameList
<1>5. CASE \A k \in DOMAIN items : items[k].dependencies \subseteq Ids
  <2>1. planning' = "cycles"
    BY <1>3, <1>5 DEF Planner!CheckDependencies
  <2>2. AllSound
    BY <1>1, <1>2, <1>5 DEF AllSound, SoundSoFar
  <2>3. Frames(Deps, <<>>, {}, {}) /\ Entered(<<>>) = {}
    BY DEF Frames, Entered
  <2>4. Closed(Deps, {}) /\ Grounded(Deps, {})
    BY DEF Closed, Grounded
  <2>5. \A k \in DOMAIN items : ~(k < 1)
    BY <1>1
  <2>6. Searched'
    BY <1>1, <1>4, <2>3, <2>4, <2>5 DEF Searched
  <2>7. QED
    BY <1>1, <1>4, <2>1, <2>2, <2>6 DEF SearchInv
<1>6. CASE ~\A k \in DOMAIN items : items[k].dependencies \subseteq Ids
  <2>1. planning' = "rejected"
    BY <1>3, <1>6 DEF Planner!CheckDependencies
  <2>2. ~Planner!IsPlan
    BY <1>1, <1>6, PlanIs DEF AllSound
  <2>3. QED
    BY <1>1, <1>4, <2>1, <2>2 DEF SearchInv
<1>7. QED
  BY <1>5, <1>6

\* Every step of the planner.
LEMMA PlannerKeeps ==
  ASSUME PlannerInv, SearchInv, UNCHANGED config, Planner!Next
  PROVE  SearchInv'
<1>1. CASE Planner!Answer
  <2>1. /\ planning = "turn" /\ planning' = "items" /\ index = 1 /\ index' = 1
        /\ UNCHANGED <<seen, visiting, visited, stack>> /\ items' \in Seq(WorkItem)
        /\ seen = {} /\ visiting = {} /\ visited = {} /\ stack = <<>>
    BY <1>1, ListsAssumption DEF Planner!Answer, Planner!search, PlannerInv, SearchInv
  <2>2. \A k \in DOMAIN items' : ~(k < 1)
    BY <2>1
  <2>3. SoundSoFar'
    BY <2>1, <2>2 DEF SoundSoFar
  <2>4. {items'[k].id : k \in {j \in DOMAIN items' : j < 1}} = {}
    BY <2>2
  <2>5. QED
    BY <2>1, <2>3, <2>4 DEF SearchInv
<1>2. CASE Planner!AnswerIsMalformed
  <2>1. /\ planning = "turn" /\ planning' \in {"turn", "unanswered"}
        /\ UNCHANGED <<items, index, seen, visiting, visited, stack>>
    BY <1>2 DEF Planner!AnswerIsMalformed, Planner!search
  <2>2. QED
    BY <2>1 DEF SearchInv
<1>3. QED
  BY <1>1, <1>2, ReadItemKeeps, CheckDependenciesKeeps, VisitNextItemKeeps,
     VisitDependencyKeeps, LeaveKeeps, AcceptKeeps DEF Planner!Next

\* Steps outside the planner leave its search, or begin it afresh.
LEMMA OthersKeep ==
  ASSUME SearchInv, UNCHANGED plannerVars, planning = "turn" \/ UNCHANGED config
  PROVE  SearchInv'
<1>1. UNCHANGED <<planning, items, index, seen, visiting, visited, stack>>
  BY DEF plannerVars
<1>2. CASE planning = "turn"
  BY <1>1, <1>2 DEF SearchInv
<1>3. CASE UNCHANGED config
  <2>1. UNCHANGED <<Known, Deps, Ids, AllSound, Planner!IsPlan>>
    BY <1>1, <1>3, SameList
  <2>2. UNCHANGED SoundSoFar /\ UNCHANGED Searched
    BY <1>1, <2>1 DEF SoundSoFar, Searched
  <2>3. QED
    BY <1>1, <2>1, <2>2 DEF SearchInv
<1>4. QED
  BY <1>2, <1>3

\* The search is sound in every step of every command.
LEMMA SearchKeeps == IInv /\ SearchInv /\ [Next]_vars => SearchInv'
<1> SUFFICES ASSUME IInv, SearchInv, [Next]_vars
             PROVE  SearchInv'
  OBVIOUS
<1>1. PlannerInv
  BY DEF IInv
<1>2. CASE Plan
  <2>1. Planner!Next /\ UNCHANGED config
    BY <1>2 DEF Plan, routerVars
  <2>2. QED
    BY <1>1, <2>1, PlannerKeeps
<1>3. CASE End
  <2>1. planning' = "turn" /\ index' = 1 /\ seen' = {} /\ visiting' = {} /\ visited' = {} /\ stack' = <<>>
    BY <1>3 DEF End
  <2>2. QED
    BY <2>1 DEF SearchInv
<1>4. CASE LoadConfiguration
  <2>1. UNCHANGED plannerVars /\ planning = "turn"
    BY <1>1, <1>4 DEF LoadConfiguration, PlannerInv
  <2>2. QED
    BY <2>1, OthersKeep
<1>5. CASE UNCHANGED vars
  <2>1. UNCHANGED plannerVars /\ UNCHANGED config
    BY <1>5 DEF vars, routerVars
  <2>2. QED
    BY <2>1, OthersKeep
<1>6. ASSUME Start \/ CheckDigest \/ ReadInventory \/ Route \/ NoRoute \/ StartPlanning
             \/ PlanAccepted \/ CreateRun \/ AdoptCurrentConfiguration \/ Turn
             \/ RouteCompletion \/ AppendCompletion
      PROVE  SearchInv'
  <2>1. UNCHANGED plannerVars
    BY <1>6 DEF Start, CheckDigest, ReadInventory, Route, NoRoute, StartPlanning, PlanAccepted,
                CreateRun, AdoptCurrentConfiguration, Turn, RouteCompletion, AppendCompletion
  <2>2. UNCHANGED config
    BY <1>6 DEF Start, CheckDigest, ReadInventory, Route, NoRoute, StartPlanning, PlanAccepted,
                CreateRun, AdoptCurrentConfiguration, Turn, RouteCompletion, AppendCompletion,
                Ask, routerVars, Router!Ask, Router!Routing, Router!SelectTask, Router!ApplyRule,
                Router!ChooseAlias
  <2>3. QED
    BY <2>1, <2>2, OthersKeep
<1>7. QED
  BY <1>2, <1>3, <1>4, <1>5, <1>6 DEF Next

\* The search holds in every reachable state.
LEMMA SearchInvariance == Spec => []SearchInv
<1>1. Init => SearchInv
  BY DEF Init, Planner!Init, SearchInv
<1>2. QED
  BY <1>1, Invariance, SearchKeeps, PTL DEF Spec

-----------------------------------------------------------------------------
(* What the runs check.                                                    *)

(***************************************************************************)
(* _reject_cycles: what the scheduler is given has an item to start with   *)
(* in every part of it, whatever number of items and starting points; and  *)
(* no list is refused for a dependency that two items share, or for one    *)
(* that was visited before.                                                *)
(***************************************************************************)
THEOREM PlansAreTold == Spec => []AcceptsExactlyPlans
<1>1. SearchInv => Planner!AcceptedIsPlan
  BY DEF SearchInv, Planner!AcceptedIsPlan
<1>2. SearchInv => Planner!RejectedIsNoPlan
  BY DEF SearchInv, Planner!RejectedIsNoPlan
<1>3. SearchInv => AcceptsExactlyPlans
  BY <1>1, <1>2 DEF AcceptsExactlyPlans
<1>4. QED
  BY <1>3, SearchInvariance, PTL
=============================================================================
