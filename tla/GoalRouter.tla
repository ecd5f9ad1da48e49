----------------------------- MODULE GoalRouter -----------------------------
(***************************************************************************)
(* GoalRouter commands running concurrently against one state root and one *)
(* target project.  A process runs one command at a time: it takes the     *)
(* run's lease without waiting, creates or loads the run, works on its own *)
(* copy (mem) of the RunState, and checkpoints that copy to state.json     *)
(* (disk).  Writers also take the project lease.  A process may be         *)
(* interrupted (SIGINT, a store error) or killed between any two steps.    *)
(***************************************************************************)
EXTENDS RunModel

CONSTANTS
  Proc,           \* operating-system processes
  Run,            \* run identifiers
  None,           \* no process, no state, no command
  LateWrites,     \* may an interrupt hit a store call whose thread then finishes?
  MaxCommands,    \* bound on the commands issued
  MaxInterrupts   \* bound on interrupts and kills

ASSUME BoundAssumption == /\ LateWrites \in BOOLEAN
                          /\ MaxCommands \in Nat /\ MaxInterrupts \in Nat

VARIABLES
  disk,        \* state.json of each run
  dirs,        \* runs whose directory exists
  events,      \* events.jsonl of each run, as the set of its records
  report,      \* the status line of report.md
  runLease,    \* owner of each run's lockfile lease
  projLease,   \* owner of the project directory lease
  pc,          \* where each process is
  job,         \* the command a process executes
  mem,         \* the RunState object a process holds
  batch,       \* items chosen by this iteration of run_ready, then still in a turn
  todo,        \* results of this iteration not yet checkpointed and logged
  left,        \* iterations of run_ready's for loop that are left
  pass,        \* 1: base work, 2: the run_ready call that reviews completion
  late,        \* state.json content a cancelled store call will still write
  dispatched,  \* history: turns started, per run and item
  granted,     \* history: fingerprints an operator approved, per run
  commands,    \* number of commands issued
  interrupts   \* number of interrupts and kills

storeVars == <<disk, dirs, events, report>>
leaseVars == <<runLease, projLease>>
procVars  == <<pc, job, mem, batch, todo, left, pass, late>>
history   == <<dispatched, granted, commands, interrupts>>
vars == <<storeVars, leaseVars, procVars, history>>

Creating == {"plan", "run-task", "run-objective"}
Command == Creating \cup {"approve", "resume", "resume-acknowledged", "report"}
Job == [cmd: Command, run: Run, config: Config]

ASSUME NoneAssumption == None \notin Proc \cup RunState \cup Job

Result == [item: Item, outcome: Outcome]

Event ==
  [event: {"run-created", "configuration-change-acknowledged",
           "completion-review-appended"}]
    \cup [event: {"approval-recorded"}, item: Item]
    \cup [event: {"work-item-finished"}, item: Item, outcome: Outcome]

(***************************************************************************)
(* Where a process goes after a plain checkpoint, and after the event that *)
(* follows it.  PersistResult and LogResult handle work-item results.      *)
(***************************************************************************)
AfterSave ==
  [create        |-> "event_created",
   save_approval |-> "event_approval",
   save_config   |-> "event_config",
   save_planned  |-> "acquire",
   save_final    |-> "ran",
   save_review   |-> "event_review"]

AfterEvent ==
  [event_created  |-> "created",
   event_approval |-> "report",
   event_config   |-> "validate",
   event_review   |-> "review"]

Persisting == {"persist_blocked", "persist"}
Writing == DOMAIN AfterSave \cup Persisting

Pc == {"idle", "prepare", "mkdir", "created", "load", "approve", "resume", "validate",
       "scan", "pick", "acquire", "turn", "log_blocked", "log", "release_project",
       "final", "ran", "review", "report", "unwind", "draining"}
        \cup Writing \cup DOMAIN AfterEvent

RunOf(p) == job[p].run

TypeOK ==
  /\ disk \in [Run -> RunState \cup {None}]
  /\ dirs \subseteq Run
  /\ events \in [Run -> SUBSET Event]
  /\ report \in [Run -> RunStatus \cup {"none"}]
  /\ runLease \in [Run -> Proc \cup {None}]
  /\ projLease \in Proc \cup {None}
  /\ pc \in [Proc -> Pc]
  /\ job \in [Proc -> Job \cup {None}]
  /\ mem \in [Proc -> RunState \cup {None}]
  /\ batch \in [Proc -> SUBSET Item]
  /\ todo \in [Proc -> SUBSET Result]
  /\ left \in [Proc -> Nat]
  /\ pass \in [Proc -> {1, 2}]
  /\ late \in [Proc -> RunState \cup {None}]
  /\ dispatched \in [Run -> [Item -> Nat]]
  /\ granted \in [Run -> SUBSET Approval]
  /\ commands \in 0 .. MaxCommands
  /\ interrupts \in 0 .. MaxInterrupts

Init ==
  /\ disk = [r \in Run |-> None]
  /\ dirs = {}
  /\ events = [r \in Run |-> {}]
  /\ report = [r \in Run |-> "none"]
  /\ runLease = [r \in Run |-> None]
  /\ projLease = None
  /\ pc = [p \in Proc |-> "idle"]
  /\ job = [p \in Proc |-> None]
  /\ mem = [p \in Proc |-> None]
  /\ batch = [p \in Proc |-> {}]
  /\ todo = [p \in Proc |-> {}]
  /\ left = [p \in Proc |-> 0]
  /\ pass = [p \in Proc |-> 1]
  /\ late = [p \in Proc |-> None]
  /\ dispatched = [r \in Run |-> [i \in Item |-> 0]]
  /\ granted = [r \in Run |-> {}]
  /\ commands = 0
  /\ interrupts = 0

-----------------------------------------------------------------------------
(* Steps shared by the commands.                                           *)

Goto(p, to) == pc' = [pc EXCEPT ![p] = to]

Step(p, from, to) == pc[p] = from /\ Goto(p, to)

Hold(p, s) == mem' = [mem EXCEPT ![p] = s]

\* Mutant of EnterRunReady: one iteration too few.
EnterRunReadyShort(p, s, n) ==
  /\ left' = [left EXCEPT ![p] = Cardinality(WorkItems(s)) - 1]
  /\ pass' = [pass EXCEPT ![p] = n]

\* Entering run_ready: for _ in range(len(state.work_items)).
EnterRunReady(p, s, n) ==
  /\ left' = [left EXCEPT ![p] = Cardinality(WorkItems(s))]
  /\ pass' = [pass EXCEPT ![p] = n]

\* JsonRunStore.save, or the state.json step of create: os.replace is the effect.
Save(p) ==
  /\ pc[p] \in DOMAIN AfterSave
  /\ disk' = [disk EXCEPT ![RunOf(p)] = mem[p]]
  /\ Goto(p, AfterSave[pc[p]])
  /\ UNCHANGED <<dirs, events, report, leaseVars, job, mem, batch, todo, left, pass,
                 late, history>>

EventAt(p) ==
  CASE pc[p] = "event_created"  -> {[event |-> "run-created"]}
    [] pc[p] = "event_config"   -> {[event |-> "configuration-change-acknowledged"]}
    [] pc[p] = "event_review"   -> {[event |-> "completion-review-appended"]}
    [] pc[p] = "event_approval" -> {[event |-> "approval-recorded", item |-> i] :
                                      i \in batch[p]}

\* GoalRouterApplication._event.
AppendEvent(p) ==
  /\ pc[p] \in DOMAIN AfterEvent
  /\ events' = [events EXCEPT ![RunOf(p)] = @ \cup EventAt(p)]
  /\ batch' = [batch EXCEPT ![p] = {}]
  /\ Goto(p, AfterEvent[pc[p]])
  /\ UNCHANGED <<disk, dirs, report, leaseVars, job, mem, todo, left, pass, late,
                 history>>

-----------------------------------------------------------------------------
(* Commands up to the point where work runs.                               *)

(***************************************************************************)
(* A command starts by taking the run's lease.  When another process holds *)
(* it, RunBusyError ends the command before it touches anything, which is  *)
(* no step here.                                                           *)
(***************************************************************************)
StartCommand(p) ==
  \E cmd \in Command, r \in Run, config \in Config :
    /\ pc[p] = "idle"
    /\ commands < MaxCommands
    /\ runLease[r] = None
    /\ runLease' = [runLease EXCEPT ![r] = p]
    /\ job' = [job EXCEPT ![p] = [cmd |-> cmd, run |-> r, config |-> config]]
    /\ Goto(p, IF cmd \in Creating THEN "prepare" ELSE "load")
    /\ commands' = commands + 1
    /\ UNCHANGED <<storeVars, projLease, mem, batch, todo, left, pass, late, dispatched,
                   granted, interrupts>>

(***************************************************************************)
(* Inspection, model validation and planning produce the first RunState.   *)
(* The item of a task command writes exactly when its routed sandbox does. *)
(***************************************************************************)
Prepare(p) ==
  /\ Step(p, "prepare", "mkdir")
  /\ \E plan \in Plans :
       /\ plan.explicit = (job[p].cmd = "run-task")
       /\ plan.explicit => plan.writers = plan.items \cap WriteSandbox[job[p].config]
       /\ Hold(p, NewRun(plan, job[p].config))
  /\ UNCHANGED <<storeVars, leaseVars, job, batch, todo, left, pass, late, history>>

\* mkdir(exist_ok=False): a run identifier can be created once.
CreateDirectory(p) ==
  /\ pc[p] = "mkdir"
  /\ dirs' = dirs \cup {RunOf(p)}
  /\ Goto(p, IF RunOf(p) \in dirs THEN "unwind" ELSE "create")
  /\ UNCHANGED <<disk, events, report, leaseVars, job, mem, batch, todo, left, pass,
                 late, history>>

Created(p) ==
  /\ pc[p] = "created"
  /\ Goto(p, IF job[p].cmd = "plan" THEN "unwind" ELSE "scan")
  /\ EnterRunReady(p, mem[p], 1)
  /\ UNCHANGED <<storeVars, leaseVars, job, mem, batch, todo, late, history>>

\* JsonRunStore.load refuses another digest unless the change is acknowledged.
Loadable(p) ==
  /\ disk[RunOf(p)] # None
  /\ disk[RunOf(p)].digest # job[p].config =>
       job[p].cmd \in {"resume-acknowledged", "report"}

AfterLoad ==
  [cmd \in Command |-> CASE cmd = "approve" -> "approve"
                         [] cmd = "report"  -> "report"
                         [] OTHER           -> "resume"]

Load(p) ==
  /\ pc[p] = "load"
  /\ IF Loadable(p)
       THEN Hold(p, disk[RunOf(p)]) /\ Goto(p, AfterLoad[job[p].cmd])
       ELSE Goto(p, "unwind") /\ UNCHANGED mem
  /\ UNCHANGED <<storeVars, leaseVars, job, batch, todo, left, pass, late, history>>

\* GoalRouterApplication.approve, for any routed item of the run.
RecordApproval(p) ==
  /\ Step(p, "approve", "save_approval")
  /\ \E i \in WorkItems(mem[p]) :
       /\ Hold(p, Approve(mem[p], i))
       /\ batch' = [batch EXCEPT ![p] = {i}]
       /\ granted' = [granted EXCEPT ![RunOf(p)] = @ \cup {Fingerprint(mem[p], i)}]
  /\ UNCHANGED <<storeVars, leaseVars, job, todo, left, pass, late, dispatched,
                 commands, interrupts>>

Resume(p) ==
  /\ pc[p] = "resume"
  /\ IF mem[p].digest # job[p].config
       THEN /\ Hold(p, AdoptCurrentConfiguration(mem[p], job[p].config))
            /\ Goto(p, "save_config")
       ELSE Goto(p, "validate") /\ UNCHANGED mem
  /\ UNCHANGED <<storeVars, leaseVars, job, batch, todo, left, pass, late, history>>

\* The model inventory is validated, then _continue enters run_ready.
Validate(p) ==
  /\ Step(p, "validate", "scan")
  /\ EnterRunReady(p, mem[p], 1)
  /\ UNCHANGED <<storeVars, leaseVars, job, mem, batch, todo, late, history>>

-----------------------------------------------------------------------------
(* Scheduler.run_ready.                                                    *)

Entry(p, e) == e \in todo[p] /\ \A f \in todo[p] : e.item <= f.item

\* Scheduler._persist_result, the in-memory result and its checkpoint.
PersistResult(p) ==
  \E e \in todo[p] :
    /\ pc[p] \in Persisting
    /\ Entry(p, e)
    /\ Hold(p, WithResult(mem[p], e.item, e.outcome))
    /\ disk' = [disk EXCEPT ![RunOf(p)] = WithResult(mem[p], e.item, e.outcome)]
    /\ Goto(p, IF pc[p] = "persist" THEN "log" ELSE "log_blocked")
    /\ UNCHANGED <<dirs, events, report, leaseVars, job, batch, todo, left, pass, late,
                   history>>

\* Where the iteration goes on once a list of results is recorded.
AfterResults(p) ==
  IF pc[p] = "log_blocked" THEN "pick"
  ELSE IF projLease = p THEN "release_project" ELSE "scan"

\* Scheduler._persist_result, its work-item-finished event.
LogResult(p) ==
  \E e \in todo[p] :
    /\ pc[p] \in {"log", "log_blocked"}
    /\ Entry(p, e)
    /\ events' = [events EXCEPT ![RunOf(p)] = @ \cup
                    {[event |-> "work-item-finished", item |-> e.item,
                      outcome |-> e.outcome]}]
    /\ todo' = [todo EXCEPT ![p] = @ \ {e}]
    /\ Goto(p, IF todo[p] # {e}
                 THEN IF pc[p] = "log" THEN "persist" ELSE "persist_blocked"
                 ELSE AfterResults(p))
    /\ UNCHANGED <<disk, dirs, report, leaseVars, job, mem, batch, left, pass, late,
                   history>>

\* Mutant of Scan: the loop is not bounded.
ScanForever(p) ==
  /\ pc[p] = "scan"
  /\ left' = [left EXCEPT ![p] = @ - 1]
  /\ todo' = [todo EXCEPT ![p] =
                {[item |-> i, outcome |-> "blocked"] : i \in NewlyBlocked(mem[p])}]
  /\ Goto(p, IF NewlyBlocked(mem[p]) = {} THEN "pick" ELSE "persist_blocked")
  /\ UNCHANGED <<storeVars, leaseVars, job, mem, batch, pass, late, history>>

\* The top of an iteration: the list of newly blocked items is taken once.
Scan(p) ==
  /\ pc[p] = "scan"
  /\ left[p] > 0
  /\ left' = [left EXCEPT ![p] = @ - 1]
  /\ todo' = [todo EXCEPT ![p] =
                {[item |-> i, outcome |-> "blocked"] : i \in NewlyBlocked(mem[p])}]
  /\ Goto(p, IF NewlyBlocked(mem[p]) = {} THEN "pick" ELSE "persist_blocked")
  /\ UNCHANGED <<storeVars, leaseVars, job, mem, batch, pass, late, history>>

\* Mutant of EndOfLoop: the loop goes on while there is pending work.
EndOfLoopWhilePending(p) ==
  /\ \/ pc[p] = "scan" /\ left[p] = 0
     \/ pc[p] = "pick" /\ Dispatchable(mem[p]) = {}
  /\ IF PendingItems(mem[p]) = {}
       THEN Goto(p, "final") /\ UNCHANGED left
       ELSE Goto(p, "scan") /\ left' = [left EXCEPT ![p] = 1]
  /\ UNCHANGED <<storeVars, leaseVars, job, mem, batch, todo, pass, late, history>>

EndOfLoop(p) ==
  /\ \/ pc[p] = "scan" /\ left[p] = 0
     \/ pc[p] = "pick" /\ Dispatchable(mem[p]) = {}
  /\ Goto(p, "final")
  /\ UNCHANGED <<storeVars, leaseVars, job, mem, batch, todo, left, pass, late, history>>

ReadyWriters(s) == Dispatchable(s) \cap WriterItems(s)

PreWriter == {"awaiting-approval", "running"}

\* Mutant of PickWriter: the normalised status is not saved.
PickWriterUnsaved(p) ==
  /\ Step(p, "pick", "acquire")
  /\ \E i \in ReadyWriters(mem[p]) :
       /\ IsFirst(i, ReadyWriters(mem[p]))
       /\ batch' = [batch EXCEPT ![p] = {i}]
  /\ Hold(p, IF mem[p].status \in PreWriter THEN WithStatus(mem[p], "planned") ELSE mem[p])
  /\ UNCHANGED <<storeVars, leaseVars, job, todo, left, pass, late, history>>

\* A writer goes before every reader; the status it meets is normalised first.
PickWriter(p) ==
  /\ pc[p] = "pick"
  /\ \E i \in ReadyWriters(mem[p]) :
       /\ IsFirst(i, ReadyWriters(mem[p]))
       /\ batch' = [batch EXCEPT ![p] = {i}]
  /\ IF mem[p].status \in PreWriter
       THEN Hold(p, WithStatus(mem[p], "planned")) /\ Goto(p, "save_planned")
       ELSE Goto(p, "acquire") /\ UNCHANGED mem
  /\ UNCHANGED <<storeVars, leaseVars, job, todo, left, pass, late, history>>

Count(r, items) ==
  dispatched' = [dispatched EXCEPT ![r] =
                   [i \in Item |-> IF i \in items THEN @[i] + 1 ELSE @[i]]]

DispatchReaders(p) ==
  /\ Step(p, "pick", "turn")
  /\ Dispatchable(mem[p]) # {}
  /\ ReadyWriters(mem[p]) = {}
  /\ Hold(p, WithStatus(mem[p], "running"))
  /\ batch' = [batch EXCEPT ![p] = ReadBatch(Dispatchable(mem[p]))]
  /\ Count(RunOf(p), ReadBatch(Dispatchable(mem[p])))
  /\ UNCHANGED <<storeVars, leaseVars, job, todo, left, pass, late, granted, commands,
                 interrupts>>

\* The lease, the second approval check, and _run_one's dispatch.
DispatchWriter(p) ==
  /\ Step(p, "acquire", "turn")
  /\ projLease = None
  /\ \A i \in batch[p] : RequireDispatchable(mem[p], i)
  /\ projLease' = p
  /\ Hold(p, WithStatus(mem[p], "running"))
  /\ Count(RunOf(p), batch[p])
  /\ UNCHANGED <<storeVars, runLease, job, batch, todo, left, pass, late, granted,
                 commands, interrupts>>

\* ProjectBusyError leaves run_ready and the command.
ProjectBusy(p) ==
  /\ Step(p, "acquire", "unwind")
  /\ projLease # None
  /\ batch' = [batch EXCEPT ![p] = {}]
  /\ UNCHANGED <<storeVars, leaseVars, job, mem, todo, left, pass, late, history>>

\* Mutant of EndTurns: the event is appended before the state is saved.
EndTurnsLogFirst(p, remaining, results) ==
  /\ batch' = [batch EXCEPT ![p] = remaining]
  /\ todo' = [todo EXCEPT ![p] = @ \cup results]
  /\ Goto(p, IF remaining = {} THEN "log" ELSE "turn")
  /\ UNCHANGED <<storeVars, leaseVars, job, mem, left, pass, late, history>>

\* Mutant of EndTurns: the project lease covers the turn but not its checkpoint.
EndTurnsReleased(p, remaining, results) ==
  /\ batch' = [batch EXCEPT ![p] = remaining]
  /\ todo' = [todo EXCEPT ![p] = @ \cup results]
  /\ Goto(p, IF remaining = {} THEN "persist" ELSE "turn")
  /\ projLease' = IF projLease = p THEN None ELSE projLease
  /\ UNCHANGED <<storeVars, runLease, job, mem, left, pass, late, history>>

EndTurns(p, remaining, results) ==
  /\ batch' = [batch EXCEPT ![p] = remaining]
  /\ todo' = [todo EXCEPT ![p] = @ \cup results]
  /\ Goto(p, IF remaining = {} THEN "persist" ELSE "turn")
  /\ UNCHANGED <<storeVars, leaseVars, job, mem, left, pass, late, history>>

TurnSucceeds(p) ==
  \E i \in batch[p] :
    /\ pc[p] = "turn"
    /\ EndTurns(p, batch[p] \ {i}, {[item |-> i, outcome |-> "succeeded"]})

(***************************************************************************)
(* An error or a timeout in one turn.  The TaskGroup of a read batch       *)
(* cancels the siblings that still run, and they are recorded as failed;   *)
(* siblings that had finished keep their result.                           *)
(***************************************************************************)
TurnFails(p) ==
  /\ pc[p] = "turn"
  /\ EndTurns(p, {}, {[item |-> i, outcome |-> "failed"] : i \in batch[p]})

ReleaseProject(p) ==
  /\ Step(p, "release_project", "scan")
  /\ projLease' = None
  /\ UNCHANGED <<storeVars, runLease, job, mem, batch, todo, left, pass, late, history>>

\* The status after the loop is saved only when it differs.
Conclude(p) ==
  /\ pc[p] = "final"
  /\ Hold(p, WithStatus(mem[p], FinalStatus(mem[p])))
  /\ Goto(p, IF mem[p].status = FinalStatus(mem[p]) THEN "ran" ELSE "save_final")
  /\ UNCHANGED <<storeVars, leaseVars, job, batch, todo, left, pass, late, history>>

-----------------------------------------------------------------------------
(* GoalRouterApplication._continue after run_ready, and the end.           *)

\* Mutant of ReviewDue: only the command that planned the objective reviews it.
ReviewDueAtFirst(p) ==
  /\ pass[p] = 1
  /\ job[p].cmd = "run-objective"
  /\ BaseWorkSucceeded(mem[p])

ReviewDue(p) == pass[p] = 1 /\ ~mem[p].plan.explicit /\ BaseWorkSucceeded(mem[p])

AfterRunReady(p) ==
  /\ pc[p] = "ran"
  /\ IF ReviewDue(p) /\ ~mem[p].reviewed
       THEN /\ Hold(p, AppendCompletion(mem[p], job[p].config))
            /\ Goto(p, "save_review")
       ELSE /\ Goto(p, IF ReviewDue(p) THEN "review" ELSE "report")
            /\ UNCHANGED mem
  /\ UNCHANGED <<storeVars, leaseVars, job, batch, todo, left, pass, late, history>>

Review(p) ==
  /\ pc[p] = "review"
  /\ Goto(p, IF mem[p].results[Completion] = "none" THEN "scan" ELSE "report")
  /\ EnterRunReady(p, mem[p], 2)
  /\ UNCHANGED <<storeVars, leaseVars, job, mem, batch, todo, late, history>>

WriteReport(p) ==
  /\ Step(p, "report", "unwind")
  /\ report' = [report EXCEPT ![RunOf(p)] = mem[p].status]
  /\ UNCHANGED <<disk, dirs, events, leaseVars, job, mem, batch, todo, left, pass, late,
                 history>>

\* Forget a finished command's local variables.
Forget(p) ==
  /\ mem' = [mem EXCEPT ![p] = None]
  /\ batch' = [batch EXCEPT ![p] = {}]
  /\ todo' = [todo EXCEPT ![p] = {}]
  /\ left' = [left EXCEPT ![p] = 0]
  /\ pass' = [pass EXCEPT ![p] = 1]

\* The run lease is released; the process still joins its store thread.
Exit(p) ==
  /\ pc[p] = "unwind"
  /\ runLease' = [runLease EXCEPT ![RunOf(p)] = None]
  /\ Goto(p, IF late[p] = None THEN "idle" ELSE "draining")
  /\ job' = IF late[p] = None THEN [job EXCEPT ![p] = None] ELSE job
  /\ Forget(p)
  /\ UNCHANGED <<storeVars, projLease, late, history>>

(***************************************************************************)
(* An interrupt or an error outside a turn's own handling: the context     *)
(* managers release the project lease and then, in Exit, the run lease.    *)
(* A store call runs in a thread that asyncio.to_thread cannot stop: when  *)
(* the interrupt hits it, what it was writing may still be written later.  *)
(***************************************************************************)
PendingWrites(p) ==
  IF ~LateWrites THEN {}
  ELSE IF pc[p] \in DOMAIN AfterSave THEN {mem[p]}
  ELSE IF pc[p] \in Persisting
         THEN {WithResult(mem[p], e.item, e.outcome) : e \in {f \in todo[p] : Entry(p, f)}}
  ELSE {}

FreeProject(p) == projLease' = IF projLease = p THEN None ELSE projLease

Interrupt(p) ==
  /\ pc[p] \notin {"idle", "unwind", "draining"}
  /\ interrupts < MaxInterrupts
  /\ interrupts' = interrupts + 1
  /\ Goto(p, "unwind")
  /\ FreeProject(p)
  /\ \E s \in {None} \cup PendingWrites(p) : late' = [late EXCEPT ![p] = s]
  /\ Forget(p)
  /\ UNCHANGED <<storeVars, runLease, job, dispatched, granted, commands>>

LateWrite(p) ==
  /\ late[p] # None
  /\ disk' = [disk EXCEPT ![RunOf(p)] = late[p]]
  /\ late' = [late EXCEPT ![p] = None]
  /\ Goto(p, IF pc[p] = "draining" THEN "idle" ELSE pc[p])
  /\ job' = IF pc[p] = "draining" THEN [job EXCEPT ![p] = None] ELSE job
  /\ UNCHANGED <<dirs, events, report, leaseVars, mem, batch, todo, left, pass, history>>

\* SIGKILL or a machine crash: the kernel drops both leases, memory is gone.
Kill(p) ==
  /\ pc[p] # "idle"
  /\ interrupts < MaxInterrupts
  /\ interrupts' = interrupts + 1
  /\ Goto(p, "idle")
  /\ runLease' = [r \in Run |-> IF runLease[r] = p THEN None ELSE runLease[r]]
  /\ FreeProject(p)
  /\ job' = [job EXCEPT ![p] = None]
  /\ late' = [late EXCEPT ![p] = None]
  /\ Forget(p)
  /\ UNCHANGED <<storeVars, dispatched, granted, commands>>

-----------------------------------------------------------------------------
\* Every step a running command takes by itself; turns end by their timeout.
Work(p) ==
  \/ Save(p) \/ AppendEvent(p)
  \/ Prepare(p) \/ CreateDirectory(p) \/ Created(p)
  \/ Load(p) \/ RecordApproval(p) \/ Resume(p) \/ Validate(p)
  \/ Scan(p) \/ PersistResult(p) \/ LogResult(p) \/ EndOfLoop(p)
  \/ PickWriter(p) \/ DispatchReaders(p) \/ DispatchWriter(p) \/ ProjectBusy(p)
  \/ TurnSucceeds(p) \/ TurnFails(p) \/ ReleaseProject(p) \/ Conclude(p)
  \/ AfterRunReady(p) \/ Review(p) \/ WriteReport(p)
  \/ Exit(p) \/ LateWrite(p)

Next == \E p \in Proc : StartCommand(p) \/ Work(p) \/ Interrupt(p) \/ Kill(p)

Spec == Init /\ [][Next]_vars

\* asyncio keeps running a command, and every turn has a timeout.
FairSpec == Spec /\ \A p \in Proc : WF_vars(Work(p))
=============================================================================
