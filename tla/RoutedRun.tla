------------------------------ MODULE RoutedRun ------------------------------
(***************************************************************************)
(* A run under the configurations of the commands that work on it: load,   *)
(* model inventory, planner, routes, adoption of a changed configuration,  *)
(* dispatch and completion review, with the router and the planner as      *)
(* components.  Of the work items one is followed, first a planned or an   *)
(* explicit one and, once an objective's item succeeded, the review.       *)
(* Leases, approvals and checkpoints are GoalRouter.tla's.                 *)
(***************************************************************************)
EXTENDS RoutingPolicy, FiniteSets

CONSTANTS
  Inventories,  \* the sets of models an account may offer
  MaxCommands   \* bound on the commands issued

VARIABLES
  pc, config, item, at, rank, approval, route,                                \* router
  planning, corrected, items, index, seen, visiting, visited, stack,          \* planner
  phase,      \* where the command is
  command,
  inventory,  \* the models this command read
  run,        \* what state.json says of the item followed
  commands    \* number of commands issued

routerVars  == <<pc, config, item, at, rank, approval, route>>
plannerVars == <<planning, corrected, items, index, seen, visiting, visited, stack>>
vars == <<routerVars, plannerVars, phase, command, inventory, run, commands>>

Router  == INSTANCE TaskRouting
Planner == INSTANCE ObjectivePlanner WITH
             pc <- planning, at <- index,
             known <- IF config = None THEN {} ELSE DOMAIN config.tasks

Creating == {"plan", "run-task"}
Command == Creating \cup {"resume", "resume-acknowledged"}
Phase == {"idle", "load", "digest", "inventory", "routing", "planning", "dispatch", "end"}

StoredRun == [item: Request, route: RouteDecision, created: Raw, digest: Raw, finished: BOOLEAN]

ASSUME InventoriesAssumption == Inventories \subseteq SUBSET Model
ASSUME MaxCommandsAssumption == MaxCommands \in Nat
ASSUME NoRunAssumption == None \notin StoredRun

TypeOK ==
  /\ Router!TypeOK
  /\ planning \in Planner!Pc
  /\ phase \in Phase
  /\ command \in Command \cup {None}
  /\ inventory \in SUBSET Model
  /\ run = None \/ run \in StoredRun
  /\ commands \in 0 .. MaxCommands

Init ==
  /\ Router!Init
  /\ Planner!Init
  /\ phase = "idle"
  /\ command = None
  /\ inventory = {}
  /\ run = None
  /\ commands = 0

-----------------------------------------------------------------------------
(* The command.                                                            *)

Goto(to) == phase' = to

\* A process starts, composes the application and loads its configuration.
Start ==
  /\ phase = "idle"
  /\ commands < MaxCommands
  /\ command' \in IF run = None THEN Creating ELSE Command \ Creating
  /\ commands' = commands + 1
  /\ Goto("load")
  /\ UNCHANGED <<routerVars, plannerVars, inventory, run>>

LoadConfiguration ==
  /\ phase = "load"
  /\ Router!Load
  /\ Goto(IF pc' = "refused" THEN "end"
          ELSE IF command \in Creating THEN "inventory" ELSE "digest")
  /\ UNCHANGED <<plannerVars, command, inventory, run, commands>>

\* The process ends, by itself or killed; what it had in memory is gone.
End ==
  /\ phase # "idle"
  /\ pc' = "load" /\ config' = None /\ item' = None /\ at' = 1 /\ rank' = 0
  /\ approval' = None /\ route' = None
  /\ planning' = "turn" /\ corrected' = FALSE /\ items' = <<>> /\ index' = 1 /\ seen' = {}
  /\ visiting' = {} /\ visited' = {} /\ stack' = <<>>
  /\ command' = None /\ inventory' = {}
  /\ Goto("idle")
  /\ UNCHANGED <<run, commands>>

\* A call of route for one item.
Ask(kind, task, flags, access) ==
  Router!Ask([kind |-> kind, task |-> task, flags |-> flags, access |-> access])

\* Mutant of CheckDigest: unfinished work keeps the route it has.
CheckDigestOnly ==
  /\ phase = "digest"
  /\ IF run.digest # config /\ command = "resume"
       THEN Goto("end") /\ UNCHANGED run
       ELSE Goto("inventory") /\ run' = [run EXCEPT !.digest = config]
  /\ UNCHANGED <<routerVars, plannerVars, command, inventory, commands>>

(***************************************************************************)
(* resume: another digest has to be acknowledged, and then unfinished work *)
(* is routed again by the current configuration.                           *)
(***************************************************************************)
CheckDigest ==
  /\ phase = "digest"
  /\ CASE run.digest = config -> Goto("inventory") /\ UNCHANGED <<run, routerVars>>
       [] run.digest # config /\ command = "resume" ->
            Goto("end") /\ UNCHANGED <<run, routerVars>>
       [] run.digest # config /\ command # "resume" /\ run.finished ->
            /\ run' = [run EXCEPT !.digest = config]
            /\ Goto("inventory")
            /\ UNCHANGED routerVars
       [] OTHER -> Router!Ask(run.item) /\ Goto("routing") /\ UNCHANGED run
  /\ UNCHANGED <<plannerVars, command, inventory, commands>>

ConfiguredModels == {config.aliases[a].model : a \in DOMAIN config.aliases}

\* _validate_model_inventory refuses an account that lacks any configured model.
ReadInventory ==
  /\ phase = "inventory"
  /\ \E models \in Inventories :
       /\ inventory' = models
       /\ IF ~(ConfiguredModels \subseteq models)
            THEN Goto("end") /\ UNCHANGED routerVars
            ELSE CASE command = "plan" ->
                        Ask("planner", config.planner, {}, "read-only") /\ Goto("routing")
                   [] command = "run-task" ->
                        /\ \E task \in Task : Ask("explicit", task, {}, "read-only")
                        /\ Goto("routing")
                   [] OTHER -> Goto("dispatch") /\ UNCHANGED routerVars
  /\ UNCHANGED <<plannerVars, command, run, commands>>

Route ==
  /\ phase = "routing"
  /\ Router!Routing
  /\ UNCHANGED <<plannerVars, phase, command, inventory, run, commands>>

\* UnknownTaskError or ConfigurationError, before anything is stored.
NoRoute ==
  /\ phase = "routing"
  /\ pc \in {"unknown", "error"}
  /\ Goto("end")
  /\ UNCHANGED <<routerVars, plannerVars, command, inventory, run, commands>>

-----------------------------------------------------------------------------
(* What a route was computed for.                                          *)

RoutedFor(kinds) == phase = "routing" /\ pc = "routed" /\ item.kind \in kinds

StartPlanning ==
  /\ RoutedFor({"planner"})
  /\ Goto("planning")
  /\ UNCHANGED <<routerVars, plannerVars, command, inventory, run, commands>>

Plan ==
  /\ phase = "planning"
  /\ UNCHANGED <<routerVars, phase, command, inventory, run, commands>>
  /\ Planner!Next

\* A plan that names an item like the completion review is refused after this; the
\* command ends as in End, and no identifier of Id is that name.
PlanAccepted ==
  /\ phase = "planning"
  /\ planning = "accepted"
  /\ \E k \in DOMAIN items : Ask("planned", items[k].task, items[k].flags, items[k].access)
  /\ Goto("routing")
  /\ UNCHANGED <<plannerVars, command, inventory, run, commands>>

\* Mutant of NewItem: the access of an explicit item stays provisional.
NewItemProvisional == item

\* _explicit_item declares a writer exactly when the route's sandbox lets it write.
NewItem == IF item.kind = "explicit" THEN [item EXCEPT !.access = route.sandbox] ELSE item

\* The state that is stored before anything is dispatched.
CreateRun ==
  /\ RoutedFor({"planned", "explicit"})
  /\ run = None
  /\ run' = [item |-> NewItem, route |-> route, created |-> config, digest |-> config,
             finished |-> FALSE]
  /\ Goto("dispatch")
  /\ UNCHANGED <<routerVars, plannerVars, command, inventory, commands>>

\* _adopt_current_configuration and its checkpoint.
AdoptCurrentConfiguration ==
  /\ RoutedFor(Kind)
  /\ run # None
  /\ item = run.item
  /\ run' = [run EXCEPT !.route = route, !.digest = config]
  /\ Goto("inventory")
  /\ UNCHANGED <<routerVars, plannerVars, command, inventory, commands>>

\* A turn; an interrupt or a missing approval leaves the item unfinished.
Turn ==
  /\ phase = "dispatch"
  /\ ~run.finished
  /\ \/ run' = [run EXCEPT !.finished = TRUE] /\ UNCHANGED phase
     \/ Goto("end") /\ UNCHANGED run
  /\ UNCHANGED <<routerVars, plannerVars, command, inventory, commands>>

\* The work of an objective is done: the review is routed by this configuration.
RouteCompletion ==
  /\ phase = "dispatch"
  /\ run.finished
  /\ run.item.kind = "planned"
  /\ Ask("completion", config.completion, {}, "read-only")
  /\ Goto("routing")
  /\ UNCHANGED <<plannerVars, command, inventory, run, commands>>

AppendCompletion ==
  /\ RoutedFor({"completion"})
  /\ run.item # item
  /\ run' = [run EXCEPT !.item = item, !.route = route, !.finished = FALSE]
  /\ Goto("dispatch")
  /\ UNCHANGED <<routerVars, plannerVars, command, inventory, commands>>

-----------------------------------------------------------------------------
Next ==
  \/ Start \/ LoadConfiguration \/ CheckDigest \/ ReadInventory \/ Route \/ NoRoute
  \/ StartPlanning \/ Plan \/ PlanAccepted \/ CreateRun \/ AdoptCurrentConfiguration
  \/ Turn \/ RouteCompletion \/ AppendCompletion \/ End

Spec == Init /\ [][Next]_vars

-----------------------------------------------------------------------------
(* Properties.                                                             *)

(***************************************************************************)
(* Two validations meet: the planner's look-up of each task and that of    *)
(* the configuration leave only names an operator typed, or tasks another  *)
(* configuration has dropped, without a route.                             *)
(***************************************************************************)
OnlyNamesAreUnknown ==
  /\ pc # "error"
  /\ pc = "unknown" => item.kind = "explicit" \/ (run # None /\ item = run.item)

(***************************************************************************)
(* No turn asks for a model that this command did not see offered, also    *)
(* when its route was computed by an earlier command or configuration.     *)
(***************************************************************************)
TurnsUseAvailableModels ==
  /\ phase = "planning" => route.model \in inventory
  /\ phase = "dispatch" /\ ~run.finished => run.route.model \in inventory

\* The stored route of unfinished work obeys the configuration the run is bound to.
StoredRoutesMeetFloors ==
  run # None /\ ~run.finished => MeetsFloors(run.digest, run.item, run.route)

(***************************************************************************)
(* The scheduler tells writers by an item's access, Codex by the route's   *)
(* sandbox: for an explicit item the two agree as long as the run is under *)
(* the configuration that created it, whatever it was adopted to between.  *)
(***************************************************************************)
ExplicitAccessIsSandbox ==
  run # None /\ ~run.finished /\ run.item.kind = "explicit" /\ run.digest = run.created =>
    run.item.access = run.route.sandbox

(***************************************************************************)
(* The planner's two properties, for whatever configuration it validates   *)
(* against: its search accepts exactly the lists that are plans.           *)
(***************************************************************************)
AcceptsExactlyPlans == Planner!AcceptedIsPlan /\ Planner!RejectedIsNoPlan
=============================================================================
