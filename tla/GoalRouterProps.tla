--------------------------- MODULE GoalRouterProps ---------------------------
(***************************************************************************)
(* What GoalRouter promises about runs, leases, approvals and checkpoints. *)
(***************************************************************************)
EXTENDS GoalRouter

Stored(r) == disk[r] # None

InTurn(p, i) == pc[p] = "turn" /\ i \in batch[p]

\* Where a process has a RunState object in its hands.
Holding == Pc \ {"idle", "prepare", "load", "unwind", "draining"}

(***************************************************************************)
(* A busy process has a command; past create or load it has a RunState;    *)
(* only an interrupted one has a store call it no longer waits for.        *)
(***************************************************************************)
CommandsHaveState ==
  \A p \in Proc :
    /\ pc[p] # "idle" => job[p] # None
    /\ pc[p] \in Holding => mem[p] # None
    /\ late[p] # None => pc[p] \in {"unwind", "draining"}

-----------------------------------------------------------------------------
(* Writers and leases.                                                     *)

\* Items whose turn runs, or whose result is not yet checkpointed and logged.
AtWork(p) ==
  IF pc[p] \in {"turn", "persist", "log"}
    THEN batch[p] \cup {e.item : e \in todo[p]}
    ELSE {}

WriterAtWork(p) == \E i \in AtWork(p) : i \in WriterItems(mem[p])

(***************************************************************************)
(* run_ready holds the project lease from a writer's dispatch through its  *)
(* state and event: no two processes have a writer at work, whatever runs  *)
(* they own and however the others are interrupted or killed.  A store     *)
(* thread that outlives its interrupted command writes without the lease   *)
(* and is not counted as work: see LeaseHeldThroughWrites.                 *)
(***************************************************************************)
OneWriterPerProject ==
  \A p, q \in Proc : WriterAtWork(p) /\ WriterAtWork(q) => p = q

(***************************************************************************)
(* Where ProjectBusyError may strike, nothing is left to undo: the run on  *)
(* disk is the one in memory, neither "running" nor "awaiting-approval",   *)
(* and what was picked may still be dispatched from it, approval included, *)
(* so that a later resume takes it up again (docs/operations.md:112-114).  *)
(***************************************************************************)
BusyRunsStayReady ==
  \A p \in Proc : pc[p] = "acquire" =>
    /\ disk[RunOf(p)] = mem[p]
    /\ mem[p].status \notin PreWriter
    /\ batch[p] # {} /\ batch[p] \subseteq Dispatchable(mem[p])

(***************************************************************************)
(* JsonRunStore.save rewrites the whole state.json from a process's copy,  *)
(* so the copy must already hold every result that is on disk.             *)
(***************************************************************************)
CopyHasStoredResults ==
  \A p \in Proc : mem[p] # None /\ pc[p] \notin {"mkdir", "unwind"} /\ Stored(RunOf(p)) =>
    \A i \in Item : disk[RunOf(p)].results[i] # "none" =>
      mem[p].results[i] = disk[RunOf(p)].results[i]

\* Terminal results on disk are final: no later checkpoint drops or changes one.
TerminalResultsStay ==
  [][\A r \in Run : Stored(r) =>
       /\ disk'[r] # None
       /\ \A i \in Item : disk[r].results[i] # "none" =>
            disk'[r].results[i] = disk[r].results[i]]_disk

\* Without an interruption no item is given to Codex twice; each allows one more.
RepeatsNeedInterrupts ==
  \A r \in Run, i \in Item : dispatched[r][i] <= 1 + interrupts

-----------------------------------------------------------------------------
(* Approvals and routes.                                                   *)

(***************************************************************************)
(* A turn runs under the policy of the command that runs it, and when that *)
(* policy requires approval an operator granted it for this very item,     *)
(* route and configuration, across resumes and configuration changes.      *)
(***************************************************************************)
ApprovedUnderCurrentPolicy ==
  \A p \in Proc, i \in Item : InTurn(p, i) =>
    LET config == job[p].config IN
    /\ mem[p].routes[i] = config
    /\ i \in NeedsApproval[config] =>
         [item |-> i, digest |-> config, route |-> config] \in granted[RunOf(p)]

-----------------------------------------------------------------------------
(* Dependencies and outcomes.                                              *)

\* A dependent starts only when its dependencies' success is on disk.
DependenciesDurable ==
  \A p \in Proc, i \in Item : InTurn(p, i) =>
    \A d \in Dependencies(mem[p], i) : Succeeded(disk[RunOf(p)], d)

\* A dispatched item's dependencies all succeeded; a blocked one has a cause.
OutcomesFollowDependencies ==
  \A r \in Run : Stored(r) => \A i \in WorkItems(disk[r]) :
    LET outcomes == {disk[r].results[d] : d \in Dependencies(disk[r], i)} IN
    /\ disk[r].results[i] \in {"succeeded", "failed"} => outcomes \subseteq {"succeeded"}
    /\ disk[r].results[i] = "blocked" => outcomes \cap {"failed", "blocked"} # {}

\* Pending items one of whose own dependencies failed.
FailedBefore(s) ==
  {i \in PendingItems(s) : \E d \in Dependencies(s, i) : s.results[d] = "failed"}

(***************************************************************************)
(* The loop of run_ready, bounded by the number of items, never stops too  *)
(* early: no pending item can be dispatched, and none has a dependency     *)
(* that failed, whichever command recorded the failure.  Dependents of     *)
(* what an iteration blocks may wait for the next command.                 *)
(***************************************************************************)
NothingLeftToDecide ==
  \A p \in Proc : pc[p] = "final" =>
    Dispatchable(mem[p]) = {} /\ FailedBefore(mem[p]) = {}

(***************************************************************************)
(* A pass ends decided: completed, failed, or waiting for an approval.  As *)
(* plans have no cycles it cannot end "planned", with work that nothing    *)
(* holds up, nor "blocked", without a failure that explains it.            *)
(***************************************************************************)
PassesEndDecided ==
  \A p \in Proc : pc[p] = "final" =>
    FinalStatus(mem[p]) \in {"completed", "failed", "awaiting-approval"}

-----------------------------------------------------------------------------
(* Records of a run.                                                       *)

\* events.jsonl never tells of an outcome or a review that state.json lacks.
EventsFollowState ==
  \A r \in Run : \A e \in events[r] :
    /\ e.event = "work-item-finished" => Stored(r) /\ disk[r].results[e.item] = e.outcome
    /\ e.event = "completion-review-appended" => Stored(r) /\ disk[r].reviewed

\* The commands that run work; approve and report only show what they loaded.
Runs(p) == job[p].cmd \in {"run-task", "run-objective", "resume", "resume-acknowledged"}

(***************************************************************************)
(* When run or resume gets to its report and calls the run completed, that *)
(* is on disk, every item succeeded, and an objective's review did too.    *)
(***************************************************************************)
ConcludedIsReviewed ==
  \A p \in Proc : pc[p] = "report" /\ Runs(p) /\ mem[p].status = "completed" =>
    /\ disk[RunOf(p)] = mem[p]
    /\ AllSucceeded(mem[p])
    /\ mem[p].plan.explicit \/ Succeeded(mem[p], Completion)

-----------------------------------------------------------------------------
(* Refinement.                                                             *)

\* What state.json keeps for good; statuses, routes and approvals come and go.
Recorded(s) == [plan |-> s.plan, reviewed |-> s.reviewed, results |-> s.results]

\* A run that does not exist is told from every run.
ASSUME RecordedAssumption ==
  None \notin [plan: Plan, reviewed: BOOLEAN, results: [Item -> Outcome \cup {"none"}]]

\* The checkpoints as the abstract specification sees them.
recorded == [r \in Run |-> IF disk[r] = None THEN None ELSE Recorded(disk[r])]

Lifecycle == INSTANCE RunLifecycle WITH run <- recorded

(***************************************************************************)
(* Every checkpoint of every process is a step of the run's lifecycle, or  *)
(* leaves it alone: leases, restarts and interrupts are invisible in it.   *)
(***************************************************************************)
ImplementsLifecycle == Lifecycle!Spec

-----------------------------------------------------------------------------
(* Liveness.                                                               *)

\* A command that is not interrupted ends, and with it its leases.
CommandsEnd == \A p \in Proc : pc[p] # "idle" ~> pc[p] = "idle"

-----------------------------------------------------------------------------
(* Statements of the documentation that the code does not keep.            *)

\* docs/architecture.md:197: a review "must succeed before the run is complete".
CompletedIsReviewed ==
  \A r \in Run : Stored(r) /\ disk[r].status = "completed" =>
    disk[r].plan.explicit \/ Succeeded(disk[r], Completion)

\* docs/operations.md:113: "`failed` and `blocked` states are not rewritten".
FailuresNotRewritten ==
  \A r \in Run : runLease[r] = None /\ Stored(r) /\ disk[r].status = "planned" =>
    \A i \in Item : disk[r].results[i] \notin {"failed", "blocked"}

\* docs/architecture.md:196: "Failed dependencies block dependents".
FailuresBlockDependents ==
  \A p \in Proc : pc[p] = "report" /\ Runs(p) => NewlyBlocked(mem[p]) = {}

\* docs/architecture.md:233: the lease is held "through their final write".
LeaseHeldThroughWrites ==
  [][\A r \in Run : disk'[r] # disk[r] => runLease[r] # None]_vars

\* docs/architecture.md:191: "at most one write-capable item per physical target project".
OneWriteCapableItem ==
  \A p, q \in Proc, i, j \in Item :
    /\ InTurn(p, i) /\ i \in WriteSandbox[mem[p].routes[i]]
    /\ InTurn(q, j) /\ j \in WriteSandbox[mem[q].routes[j]]
    => p = q /\ i = j
=============================================================================
