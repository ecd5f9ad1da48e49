-------------------------- MODULE GoalRouter_proofs --------------------------
(***************************************************************************)
(* What needs no run lease: for every number of processes, runs and items, *)
(* every policy, with kills anywhere, and with store calls that outlive    *)
(* interrupts and write after the run lease has passed on.                 *)
(*                                                                         *)
(* TypeInv is type correctness.  LeaseInv ties the project lease to the    *)
(* work: whoever has a writer at work holds it, and whoever is about to    *)
(* release it holds it.  SoundInv says that a run is sound wherever it is: *)
(* on disk, in a command's memory, in a thread that outlived its command.  *)
(* RouteInv says the same of its digest, its routes and its approvals.     *)
(* LoopInv counts what run_ready's loop has left to do, and BlockInv says  *)
(* what an iteration has blocked before it picks.                          *)
(***************************************************************************)
EXTENDS GoalRouterProps, FiniteSetTheorems, WellFoundedInduction, TLAPS

-----------------------------------------------------------------------------
(* The operators of RunModel stay within RunState.                         *)

\* Counting the items of a run, as run_ready does, makes sense.
LEMMA ItemFinite == IsFiniteSet(Item)
  BY BaseAssumption, FS_AddElement DEF Item, Completion

\* The completion review is an item beside those a planner names.
LEMMA CompletionIsItem == Completion \in Item /\ Base \subseteq Item
  BY DEF Item

\* plan_objective and run_task start from a well-formed state.
LEMMA NewRunType ==
  ASSUME NEW plan \in Plans, NEW config \in Config
  PROVE  NewRun(plan, config) \in RunState
  BY PlansAssumption DEF NewRun, RunState, RunStatus

\* Recording a result keeps a state well formed.
LEMMA WithResultType ==
  ASSUME NEW s \in RunState, NEW i \in Item, NEW o \in Outcome
  PROVE  WithResult(s, i, o) \in RunState
  BY DEF WithResult, RunState

\* So does setting its status.
LEMMA WithStatusType ==
  ASSUME NEW s \in RunState, NEW st \in RunStatus
  PROVE  WithStatus(s, st) \in RunState
  BY DEF WithStatus, RunState

\* _final_status always answers with a status.
LEMMA FinalStatusType ==
  ASSUME NEW s
  PROVE  FinalStatus(s) \in RunStatus
  BY DEF FinalStatus, RunStatus

\* A fingerprint names an item, a digest and a route.
LEMMA FingerprintType ==
  ASSUME NEW s \in RunState, NEW i \in Item
  PROVE  Fingerprint(s, i) \in Approval
  BY DEF Fingerprint, RunState, Approval

\* Recording an approval keeps a state well formed.
LEMMA ApproveType ==
  ASSUME NEW s \in RunState, NEW i \in Item
  PROVE  Approve(s, i) \in RunState
  BY FingerprintType DEF Approve, RunState

\* So does adopting another configuration.
LEMMA AdoptType ==
  ASSUME NEW s \in RunState, NEW config \in Config
  PROVE  AdoptCurrentConfiguration(s, config) \in RunState
  BY DEF AdoptCurrentConfiguration, RunState

\* So does appending the completion review.
LEMMA AppendCompletionType ==
  ASSUME NEW s \in RunState, NEW config \in Config
  PROVE  AppendCompletion(s, config) \in RunState
  BY CompletionIsItem DEF AppendCompletion, RunState, RunStatus

\* run_ready's loop has a natural number of iterations.
LEMMA WorkItemsType ==
  ASSUME NEW s \in RunState
  PROVE  /\ WorkItems(s) \subseteq Item
         /\ Cardinality(WorkItems(s)) \in Nat
<1>1. WorkItems(s) \subseteq Item
  BY CompletionIsItem DEF WorkItems, RunState, Plan
<1>2. IsFiniteSet(WorkItems(s))
  BY <1>1, ItemFinite, FS_Subset
<1>3. QED
  BY <1>1, <1>2, FS_CardinalityType

\* The scheduler only ever chooses among the run's items.
LEMMA ScheduledItems ==
  ASSUME NEW s \in RunState
  PROVE  /\ PendingItems(s) \subseteq Item
         /\ NewlyBlocked(s) \subseteq Item
         /\ Dispatchable(s) \subseteq Item
         /\ ReadyWriters(s) \subseteq Item
         /\ ReadBatch(Dispatchable(s)) \subseteq Item
  BY WorkItemsType
     DEF PendingItems, NewlyBlocked, Dispatchable, ReadyWriters, ReadBatch

-----------------------------------------------------------------------------
(* Where a process goes.                                                   *)

\* A checkpoint leads to a place where the process still holds its copy.
LEMMA AfterSavePc ==
  /\ DOMAIN AfterSave \subseteq Holding
  /\ \A at \in DOMAIN AfterSave : AfterSave[at] \in Holding
  BY DEF AfterSave, AfterEvent, Holding, Pc, Writing, Persisting

\* So does the event after a checkpoint.
LEMMA AfterEventPc ==
  /\ DOMAIN AfterEvent \subseteq Holding
  /\ \A at \in DOMAIN AfterEvent : AfterEvent[at] \in Holding
  BY DEF AfterSave, AfterEvent, Holding, Pc, Writing, Persisting

\* A loaded run is approved, reported on or resumed.
LEMMA AfterLoadPc ==
  \A cmd \in Command : AfterLoad[cmd] \in {"approve", "report", "resume"}
  BY DEF AfterLoad

\* Every place a process can be at belongs to Pc, and these are in no hands.
LEMMA PcNames ==
  /\ {"idle", "prepare", "load", "unwind", "draining"} \subseteq Pc
  /\ {"idle", "prepare", "load", "unwind", "draining"} \cap Holding = {}
  /\ Holding \subseteq Pc
  /\ {"mkdir", "create", "created", "approve", "save_approval", "resume", "save_config",
      "validate", "scan", "pick", "save_planned", "acquire", "turn", "persist_blocked",
      "log_blocked", "persist", "log", "release_project", "final", "save_final", "ran",
      "save_review", "review", "report"} \subseteq Holding
  BY DEF AfterSave, AfterEvent, Holding, Pc, Writing, Persisting

-----------------------------------------------------------------------------
(* The inductive invariant.                                                *)

TypeInv == TypeOK /\ CommandsHaveState

\* Nothing exists and every process is idle at first.
LEMMA TypeInvInit == Init => TypeInv
<1> SUFFICES ASSUME Init PROVE TypeInv
  OBVIOUS
<1>1. TypeOK
  BY PcNames, BoundAssumption DEF Init, TypeOK
<1>2. CommandsHaveState
  BY PcNames DEF Init, CommandsHaveState
<1>3. QED
  BY <1>1, <1>2 DEF TypeInv

\* A process that holds a copy has a run to store it in.
LEMMA HolderFacts ==
  ASSUME TypeInv, NEW p \in Proc, pc[p] \in Holding
  PROVE  /\ mem[p] \in RunState
         /\ job[p] \in Job
         /\ RunOf(p) \in Run
         /\ late[p] = None
  BY PcNames DEF TypeInv, TypeOK, CommandsHaveState, RunOf, Job

\* The steps the commands share.
LEMMA CheckpointSteps ==
  ASSUME TypeInv, NEW p \in Proc, Save(p) \/ AppendEvent(p)
  PROVE  TypeInv'
<1> USE DEF storeVars, leaseVars, history, Goto
<1>1. CASE Save(p)
  <2>1. pc[p] \in Holding /\ AfterSave[pc[p]] \in Holding
    BY <1>1, AfterSavePc DEF Save
  <2>2. mem[p] \in RunState /\ RunOf(p) \in Run /\ late[p] = None /\ job[p] # None
    BY <2>1, HolderFacts, PcNames DEF TypeInv, CommandsHaveState
  <2>3. TypeOK'
    BY <1>1, <2>1, <2>2, PcNames DEF TypeInv, TypeOK, Save
  <2>4. CommandsHaveState'
    BY <1>1, <2>1, <2>2, PcNames DEF TypeInv, TypeOK, CommandsHaveState, Save
  <2>5. QED
    BY <2>3, <2>4 DEF TypeInv
<1>2. CASE AppendEvent(p)
  <2>1. pc[p] \in Holding /\ AfterEvent[pc[p]] \in Holding
    BY <1>2, AfterEventPc DEF AppendEvent
  <2>2. mem[p] \in RunState /\ RunOf(p) \in Run /\ late[p] = None /\ job[p] # None
    BY <2>1, HolderFacts, PcNames DEF TypeInv, CommandsHaveState
  <2>3. EventAt(p) \subseteq Event
    BY <1>2 DEF AppendEvent, AfterEvent, EventAt, Event, TypeInv, TypeOK
  <2>4. TypeOK'
    BY <1>2, <2>1, <2>2, <2>3, PcNames DEF TypeInv, TypeOK, AppendEvent
  <2>5. CommandsHaveState'
    BY <1>2, <2>1, <2>2, PcNames DEF TypeInv, TypeOK, CommandsHaveState, AppendEvent
  <2>6. QED
    BY <2>4, <2>5 DEF TypeInv
<1>3. QED
  BY <1>1, <1>2

\* The steps from a command's start to the scheduler.
LEMMA CommandSteps ==
  ASSUME TypeInv, NEW p \in Proc,
         \/ StartCommand(p) \/ Prepare(p) \/ CreateDirectory(p) \/ Created(p)
         \/ Load(p) \/ RecordApproval(p) \/ Resume(p) \/ Validate(p)
  PROVE  TypeInv'
<1> USE PcNames DEF TypeInv, TypeOK, CommandsHaveState, storeVars, leaseVars, history, Goto,
        Step, Hold, RunOf
<1>1. CASE StartCommand(p)
  <2>1. PICK cmd \in Command, r \in Run, config \in Config :
          /\ pc[p] = "idle"
          /\ commands < MaxCommands
          /\ runLease' = [runLease EXCEPT ![r] = p]
          /\ job' = [job EXCEPT ![p] = [cmd |-> cmd, run |-> r, config |-> config]]
          /\ Goto(p, IF cmd \in Creating THEN "prepare" ELSE "load")
          /\ commands' = commands + 1
    BY <1>1 DEF StartCommand
  <2>2. [cmd |-> cmd, run |-> r, config |-> config] \in Job
    BY DEF Job
  <2>3. [cmd |-> cmd, run |-> r, config |-> config] # None
    BY <2>2, NoneAssumption
  <2>4. commands' \in 0 .. MaxCommands
    BY <2>1, BoundAssumption
  <2>5. QED
    BY <1>1, <2>1, <2>2, <2>3, <2>4 DEF StartCommand
<1>2. CASE Prepare(p)
  <2>1. job[p] \in Job
    BY <1>2 DEF Prepare
  <2>2. PICK plan \in Plans : mem' = [mem EXCEPT ![p] = NewRun(plan, job[p].config)]
    BY <1>2 DEF Prepare
  <2>3. NewRun(plan, job[p].config) \in RunState
    BY <2>1, NewRunType DEF Job
  <2>4. QED
    BY <1>2, <2>2, <2>3, NoneAssumption DEF Prepare
<1>3. CASE CreateDirectory(p)
  BY <1>3, HolderFacts DEF CreateDirectory
<1>4. CASE Created(p)
  BY <1>4, HolderFacts, WorkItemsType DEF Created, EnterRunReady
<1>5. CASE Load(p)
  <2>1. job[p] \in Job
    BY <1>5 DEF Load
  <2>2. AfterLoad[job[p].cmd] \in {"approve", "report", "resume"}
    BY <2>1, AfterLoadPc DEF Job
  <2>3. Loadable(p) => disk[RunOf(p)] \in RunState /\ disk[RunOf(p)] # None
    BY <2>1 DEF Loadable, Job
  <2>4. CASE Loadable(p)
    <3>1. mem' = [mem EXCEPT ![p] = disk[RunOf(p)]]
      BY <1>5, <2>4 DEF Load
    <3>2. pc' = [pc EXCEPT ![p] = AfterLoad[job[p].cmd]]
      BY <1>5, <2>4 DEF Load
    <3>3. QED
      BY <1>5, <2>2, <2>3, <2>4, <3>1, <3>2 DEF Load
  <2>5. CASE ~Loadable(p)
    <3>1. mem' = mem /\ pc' = [pc EXCEPT ![p] = "unwind"]
      BY <1>5, <2>5 DEF Load
    <3>2. QED
      BY <1>5, <3>1 DEF Load
  <2>6. QED
    BY <2>4, <2>5
<1>6. CASE RecordApproval(p)
  <2>1. mem[p] \in RunState /\ RunOf(p) \in Run
    BY <1>6, HolderFacts DEF RecordApproval
  <2>2. PICK i \in WorkItems(mem[p]) :
          /\ mem' = [mem EXCEPT ![p] = Approve(mem[p], i)]
          /\ batch' = [batch EXCEPT ![p] = {i}]
          /\ granted' = [granted EXCEPT ![RunOf(p)] = @ \cup {Fingerprint(mem[p], i)}]
    BY <1>6 DEF RecordApproval
  <2>3. i \in Item
    BY <2>1, WorkItemsType
  <2>4. Approve(mem[p], i) \in RunState /\ Fingerprint(mem[p], i) \in Approval
    BY <2>1, <2>3, ApproveType, FingerprintType
  <2>5. mem' \in [Proc -> RunState \cup {None}] /\ mem'[p] # None
    BY <2>1, <2>2, <2>4, NoneAssumption
  <2>6. batch' \in [Proc -> SUBSET Item] /\ granted' \in [Run -> SUBSET Approval]
    BY <2>1, <2>2, <2>3, <2>4
  <2>7. QED
    BY <1>6, <2>5, <2>6, <2>2 DEF RecordApproval
<1>7. CASE Resume(p)
  <2>1. mem[p] \in RunState /\ job[p] \in Job
    BY <1>7, HolderFacts DEF Resume
  <2>2. AdoptCurrentConfiguration(mem[p], job[p].config) \in RunState
    BY <2>1, AdoptType DEF Job
  <2>3. CASE mem' = mem
    BY <1>7, <2>1, <2>3 DEF Resume
  <2>4. CASE mem' = [mem EXCEPT ![p] = AdoptCurrentConfiguration(mem[p], job[p].config)]
    <3>1. pc' \in [Proc -> Pc] /\ late[p] = None
      BY <1>7, <2>4, HolderFacts DEF Resume
    <3>2. mem' \in [Proc -> RunState \cup {None}] /\ mem'[p] # None
      BY <2>2, <2>4, NoneAssumption
    <3>3. QED
      BY <1>7, <2>4, <3>1, <3>2 DEF Resume
  <2>5. QED
    BY <1>7, <2>3, <2>4 DEF Resume
<1>8. CASE Validate(p)
  BY <1>8, HolderFacts, WorkItemsType DEF Validate, EnterRunReady
<1>9. QED
  BY <1>1, <1>2, <1>3, <1>4, <1>5, <1>6, <1>7, <1>8

\* The steps of run_ready's loop.
LEMMA LoopSteps ==
  ASSUME TypeInv, NEW p \in Proc,
         \/ Scan(p) \/ PersistResult(p) \/ LogResult(p) \/ EndOfLoop(p)
         \/ PickWriter(p) \/ DispatchReaders(p) \/ DispatchWriter(p) \/ ProjectBusy(p)
         \/ TurnSucceeds(p) \/ TurnFails(p) \/ ReleaseProject(p) \/ Conclude(p)
  PROVE  TypeInv'
<1>1. /\ pc[p] \in Holding
      /\ mem[p] \in RunState
      /\ job[p] # None
      /\ RunOf(p) \in Run
      /\ late[p] = None
  <2>1. pc[p] \in Holding
    BY PcNames DEF Scan, PersistResult, LogResult, EndOfLoop, PickWriter, DispatchReaders,
       DispatchWriter, ProjectBusy, TurnSucceeds, TurnFails, ReleaseProject, Conclude,
       EndTurns, Step, Persisting
  <2>2. QED
    BY <2>1, HolderFacts, PcNames DEF TypeInv, CommandsHaveState
<1> USE PcNames DEF TypeInv, TypeOK, CommandsHaveState, storeVars, leaseVars, history, Goto,
        Step, Hold
<1>2. CASE Scan(p)
  <2>1. {[item |-> i, outcome |-> "blocked"] : i \in NewlyBlocked(mem[p])} \subseteq Result
    BY <1>1, ScheduledItems DEF Result, Outcome
  <2>2. left[p] - 1 \in Nat
    BY <1>2 DEF Scan
  <2>3. QED
    BY <1>1, <1>2, <2>1, <2>2 DEF Scan
<1>3. CASE PersistResult(p)
  <2>1. PICK e \in todo[p] :
          /\ mem' = [mem EXCEPT ![p] = WithResult(mem[p], e.item, e.outcome)]
          /\ disk' = [disk EXCEPT ![RunOf(p)] = WithResult(mem[p], e.item, e.outcome)]
          /\ pc' = [pc EXCEPT ![p] = IF pc[p] = "persist" THEN "log" ELSE "log_blocked"]
    BY <1>3 DEF PersistResult
  <2>2. e.item \in Item /\ e.outcome \in Outcome
    BY <2>1 DEF Result
  <2>3. WithResult(mem[p], e.item, e.outcome) \in RunState
    BY <1>1, <2>2, WithResultType
  <2>4. /\ mem' \in [Proc -> RunState \cup {None}] /\ mem'[p] # None
        /\ disk' \in [Run -> RunState \cup {None}]
        /\ pc' \in [Proc -> Pc]
    BY <1>1, <2>1, <2>3, NoneAssumption
  <2>5. QED
    BY <1>1, <1>3, <2>1, <2>4 DEF PersistResult
<1>4. CASE LogResult(p)
  <2>1. PICK e \in todo[p] :
          /\ events' = [events EXCEPT ![RunOf(p)] = @ \cup
                          {[event |-> "work-item-finished", item |-> e.item,
                            outcome |-> e.outcome]}]
          /\ todo' = [todo EXCEPT ![p] = @ \ {e}]
          /\ pc' = [pc EXCEPT ![p] =
                      IF todo[p] # {e}
                        THEN IF pc[p] = "log" THEN "persist" ELSE "persist_blocked"
                        ELSE AfterResults(p)]
    BY <1>4 DEF LogResult
  <2>2. [event |-> "work-item-finished", item |-> e.item, outcome |-> e.outcome] \in Event
    BY <2>1 DEF Result, Event
  <2>3. AfterResults(p) \in Holding
    BY DEF AfterResults
  <2>4. events' \in [Run -> SUBSET Event] /\ todo' \in [Proc -> SUBSET Result]
    BY <1>1, <2>1, <2>2
  <2>5. pc' \in [Proc -> Pc] /\ pc'[p] \in Holding
    BY <2>1, <2>3
  <2>6. QED
    BY <1>1, <1>4, <2>1, <2>4, <2>5 DEF LogResult
<1>5. CASE EndOfLoop(p)
  BY <1>1, <1>5 DEF EndOfLoop
<1>6. CASE PickWriter(p)
  <2>1. WithStatus(mem[p], "planned") \in RunState
    BY <1>1, WithStatusType DEF RunStatus
  <2>2. batch' \in [Proc -> SUBSET Item]
    BY <1>1, <1>6, ScheduledItems DEF PickWriter
  <2>3. mem' \in [Proc -> RunState \cup {None}] /\ mem'[p] # None
    BY <1>1, <1>6, <2>1, NoneAssumption DEF PickWriter
  <2>4. pc' \in [Proc -> Pc] /\ pc'[p] \in Holding
    <3>1. \/ pc' = [pc EXCEPT ![p] = "save_planned"]
          \/ pc' = [pc EXCEPT ![p] = "acquire"]
      BY <1>6 DEF PickWriter
    <3>2. QED
      BY <3>1
  <2>5. \A q \in Proc \ {p} : pc'[q] = pc[q] /\ mem'[q] = mem[q]
    BY <1>6 DEF PickWriter
  <2>6. UNCHANGED <<storeVars, leaseVars, job, todo, left, pass, late, history>>
    BY <1>6 DEF PickWriter
  <2>7. TypeOK'
    BY <2>2, <2>3, <2>4, <2>6
  <2>8. QED
    BY <1>1, <2>3, <2>4, <2>5, <2>6, <2>7
<1>7. CASE DispatchReaders(p)
  <2>1. WithStatus(mem[p], "running") \in RunState
    BY <1>1, WithStatusType DEF RunStatus
  <2>2. ReadBatch(Dispatchable(mem[p])) \subseteq Item
    BY <1>1, ScheduledItems
  <2>3. dispatched' \in [Run -> [Item -> Nat]]
    BY <1>1, <1>7 DEF DispatchReaders, Count
  <2>4. mem' \in [Proc -> RunState \cup {None}] /\ mem'[p] # None
    BY <1>1, <1>7, <2>1, NoneAssumption DEF DispatchReaders
  <2>5. batch' \in [Proc -> SUBSET Item]
    BY <1>7, <2>2 DEF DispatchReaders
  <2>6. QED
    BY <1>1, <1>7, <2>3, <2>4, <2>5 DEF DispatchReaders
<1>8. CASE DispatchWriter(p)
  <2>1. WithStatus(mem[p], "running") \in RunState
    BY <1>1, WithStatusType DEF RunStatus
  <2>2. dispatched' \in [Run -> [Item -> Nat]]
    BY <1>1, <1>8 DEF DispatchWriter, Count
  <2>3. mem' \in [Proc -> RunState \cup {None}] /\ mem'[p] # None
    BY <1>1, <1>8, <2>1, NoneAssumption DEF DispatchWriter
  <2>4. QED
    BY <1>1, <1>8, <2>2, <2>3 DEF DispatchWriter
<1>9. CASE ProjectBusy(p)
  BY <1>1, <1>9 DEF ProjectBusy
<1>10. CASE TurnSucceeds(p)
  <2>1. PICK i \in batch[p] : EndTurns(p, batch[p] \ {i}, {[item |-> i, outcome |-> "succeeded"]})
    BY <1>10 DEF TurnSucceeds
  <2>2. {[item |-> i, outcome |-> "succeeded"]} \subseteq Result /\ batch[p] \ {i} \subseteq Item
    BY <2>1 DEF Result, Outcome
  <2>3. QED
    BY <1>1, <2>1, <2>2 DEF EndTurns
<1>11. CASE TurnFails(p)
  <2>1. {[item |-> i, outcome |-> "failed"] : i \in batch[p]} \subseteq Result
    BY DEF Result, Outcome
  <2>2. QED
    BY <1>1, <1>11, <2>1 DEF TurnFails, EndTurns
<1>12. CASE ReleaseProject(p)
  BY <1>1, <1>12 DEF ReleaseProject
<1>13. CASE Conclude(p)
  <2>1. WithStatus(mem[p], FinalStatus(mem[p])) \in RunState
    BY <1>1, WithStatusType, FinalStatusType
  <2>2. mem' \in [Proc -> RunState \cup {None}] /\ mem'[p] # None
    BY <1>1, <1>13, <2>1, NoneAssumption DEF Conclude
  <2>3. pc' \in [Proc -> Pc] /\ pc'[p] \in Holding
    BY <1>13 DEF Conclude
  <2>4. QED
    BY <1>1, <1>13, <2>2, <2>3 DEF Conclude
<1>14. QED
  BY <1>2, <1>3, <1>4, <1>5, <1>6, <1>7, <1>8, <1>9, <1>10, <1>11, <1>12, <1>13

\* The review, the report and the end of a command.
LEMMA ClosingSteps ==
  ASSUME TypeInv, NEW p \in Proc,
         AfterRunReady(p) \/ Review(p) \/ WriteReport(p) \/ Exit(p)
  PROVE  TypeInv'
<1> USE PcNames DEF TypeInv, TypeOK, CommandsHaveState, storeVars, leaseVars, history, Goto,
        Step, Hold
<1>1. CASE AfterRunReady(p)
  <2>1. mem[p] \in RunState /\ job[p] \in Job /\ job[p] # None /\ late[p] = None
    BY <1>1, HolderFacts DEF AfterRunReady
  <2>2. AppendCompletion(mem[p], job[p].config) \in RunState
    BY <2>1, AppendCompletionType DEF Job
  <2>3. mem' \in [Proc -> RunState \cup {None}] /\ mem'[p] # None
    BY <1>1, <2>1, <2>2, NoneAssumption DEF AfterRunReady
  <2>4. pc' \in [Proc -> Pc] /\ pc'[p] \in Holding
    BY <1>1 DEF AfterRunReady
  <2>5. /\ \A q \in Proc \ {p} : pc'[q] = pc[q] /\ mem'[q] = mem[q]
        /\ UNCHANGED <<storeVars, leaseVars, job, batch, todo, left, pass, late, history>>
    BY <1>1 DEF AfterRunReady
  <2>6. TypeOK'
    BY <2>3, <2>4, <2>5
  <2>7. QED
    BY <2>1, <2>3, <2>4, <2>5, <2>6
<1>2. CASE Review(p)
  <2>1. mem[p] \in RunState /\ late[p] = None /\ mem[p] # None
    BY <1>2, HolderFacts, NoneAssumption DEF Review
  <2>2. Cardinality(WorkItems(mem[p])) \in Nat
    BY <2>1, WorkItemsType
  <2>3. QED
    BY <1>2, <2>1, <2>2 DEF Review, EnterRunReady
<1>3. CASE WriteReport(p)
  <2>1. mem[p] \in RunState /\ RunOf(p) \in Run
    BY <1>3, HolderFacts DEF WriteReport
  <2>2. mem[p].status \in RunStatus
    BY <2>1 DEF RunState
  <2>3. QED
    BY <1>3, <2>1, <2>2 DEF WriteReport
<1>4. CASE Exit(p)
  <2>1. runLease' \in [Run -> Proc \cup {None}]
    BY <1>4 DEF Exit
  <2>2. pc' \in [Proc -> Pc] /\ pc'[p] \in {"idle", "draining"}
    BY <1>4 DEF Exit
  <2>3. job' \in [Proc -> Job \cup {None}] /\ (pc'[p] # "idle" => job'[p] # None)
    BY <1>4 DEF Exit
  <2>4. QED
    BY <1>4, <2>1, <2>2, <2>3 DEF Exit, Forget
<1>5. QED
  BY <1>1, <1>2, <1>3, <1>4

\* Interrupts, kills, and the store calls that outlive an interrupt.
LEMMA FailureSteps ==
  ASSUME TypeInv, NEW p \in Proc, Interrupt(p) \/ Kill(p) \/ LateWrite(p)
  PROVE  TypeInv'
<1> USE PcNames DEF TypeInv, TypeOK, CommandsHaveState, storeVars, leaseVars, history, Goto,
        FreeProject, Forget
<1>1. CASE Interrupt(p)
  <2>1. PendingWrites(p) \subseteq RunState
    <3>1. CASE pc[p] \in DOMAIN AfterSave
      BY <3>1, AfterSavePc, HolderFacts DEF PendingWrites
    <3>2. CASE pc[p] \notin DOMAIN AfterSave /\ pc[p] \in Persisting
      <4>1. mem[p] \in RunState
        BY <3>2, HolderFacts DEF Persisting
      <4>2. \A e \in todo[p] : WithResult(mem[p], e.item, e.outcome) \in RunState
        BY <4>1, WithResultType DEF Result
      <4>3. QED
        BY <3>2, <4>2 DEF PendingWrites
    <3>3. CASE pc[p] \notin DOMAIN AfterSave /\ pc[p] \notin Persisting
      BY <3>3 DEF PendingWrites
    <3>4. QED
      BY <3>1, <3>2, <3>3
  <2>2. late' \in [Proc -> RunState \cup {None}]
    BY <1>1, <2>1 DEF Interrupt
  <2>3. interrupts' \in 0 .. MaxInterrupts
    BY <1>1, BoundAssumption DEF Interrupt
  <2>4. \A q \in Proc \ {p} : late'[q] = late[q]
    BY <1>1 DEF Interrupt
  <2>5. QED
    BY <1>1, <2>2, <2>3, <2>4 DEF Interrupt
<1>2. CASE Kill(p)
  <2>1. interrupts' \in 0 .. MaxInterrupts
    BY <1>2, BoundAssumption DEF Kill
  <2>2. runLease' \in [Run -> Proc \cup {None}]
    BY <1>2 DEF Kill
  <2>3. QED
    BY <1>2, <2>1, <2>2 DEF Kill
<1>3. CASE LateWrite(p)
  <2>1. pc[p] \in {"unwind", "draining"} /\ late[p] \in RunState /\ job[p] \in Job
    BY <1>3 DEF LateWrite
  <2>2. disk' \in [Run -> RunState \cup {None}]
    BY <1>3, <2>1 DEF LateWrite, RunOf, Job
  <2>3. pc' \in [Proc -> Pc] /\ pc'[p] \in {"idle", "unwind"}
    BY <1>3, <2>1 DEF LateWrite
  <2>4. job' \in [Proc -> Job \cup {None}] /\ (pc'[p] # "idle" => job'[p] # None)
    BY <1>3, <2>1 DEF LateWrite
  <2>5. QED
    BY <1>3, <2>2, <2>3, <2>4 DEF LateWrite
<1>4. QED
  BY <1>1, <1>2, <1>3

-----------------------------------------------------------------------------
(* The theorem.                                                            *)

\* Each step of a process keeps the types.
LEMMA TypeStep ==
  ASSUME TypeInv, NEW p \in Proc, StartCommand(p) \/ Work(p) \/ Interrupt(p) \/ Kill(p)
  PROVE  TypeInv'
  BY CheckpointSteps, CommandSteps, LoopSteps, ClosingSteps, FailureSteps DEF Work

(***************************************************************************)
(* Every state file, copy, lease, event and counter keeps its type, and a  *)
(* busy process always has a command and, past create or load, its run.    *)
(***************************************************************************)
THEOREM TypeCorrect == Spec => [](TypeOK /\ CommandsHaveState)
<1>1. Init => TypeInv
  BY TypeInvInit
<1>2. TypeInv /\ [Next]_vars => TypeInv'
  <2> SUFFICES ASSUME TypeInv, [Next]_vars PROVE TypeInv'
    OBVIOUS
  <2>1. CASE UNCHANGED vars
    BY <2>1 DEF TypeInv, TypeOK, CommandsHaveState, vars, storeVars, leaseVars, procVars,
       history
  <2>2. CASE Next
    <3>1. PICK p \in Proc : StartCommand(p) \/ Work(p) \/ Interrupt(p) \/ Kill(p)
      BY <2>2 DEF Next
    <3>2. QED
      BY <3>1, TypeStep
  <2>3. QED
    BY <2>1, <2>2
<1>3. QED
  BY <1>1, <1>2, PTL DEF Spec, TypeInv

-----------------------------------------------------------------------------
(* Writers and the project lease.                                          *)

\* Results wait for their checkpoint only where a turn or an iteration put them.
TodoWhere == {"persist_blocked", "log_blocked", "turn", "persist", "log"}

LeaseInv ==
  \A p \in Proc :
    /\ pc[p] \notin TodoWhere => todo[p] = {}
    /\ WriterAtWork(p) => projLease = p
    /\ pc[p] = "release_project" => projLease = p

\* The checkpoints that stand between two places where no turn is running.
LEMMA CheckpointsAreQuiet ==
  /\ DOMAIN AfterSave \cap TodoWhere = {}
  /\ "release_project" \notin DOMAIN AfterSave
  /\ \A at \in DOMAIN AfterSave : AfterSave[at] \notin {"turn", "persist", "log", "release_project"}
  /\ DOMAIN AfterEvent \cap TodoWhere = {}
  /\ \A at \in DOMAIN AfterEvent : AfterEvent[at] \notin {"turn", "persist", "log", "release_project"}
  BY DEF AfterSave, AfterEvent, TodoWhere

\* A process away from its turns and their results has no writer at work.
LEMMA QuietHasNoWriter ==
  ASSUME NEW p \in Proc, pc[p] \notin {"turn", "persist", "log"}
  PROVE  ~WriterAtWork(p)
  BY DEF WriterAtWork, AtWork

(***************************************************************************)
(* A step of p disturbs the invariant at p only, or by taking or freeing   *)
(* the lease: what it needs to keep it, at p and at every other process.   *)
(***************************************************************************)
LEMMA LeaseStep ==
  ASSUME LeaseInv, TypeInv, NEW p \in Proc,
         \A q \in Proc \ {p} : /\ pc'[q] = pc[q] /\ batch'[q] = batch[q]
                               /\ todo'[q] = todo[q] /\ mem'[q] = mem[q],
         projLease' = projLease \/ projLease \in {None, p},
         pc'[p] \notin TodoWhere => todo'[p] = {},
         WriterAtWork(p)' => projLease' = p,
         pc'[p] = "release_project" => projLease' = p
  PROVE  LeaseInv'
<1> SUFFICES ASSUME NEW q \in Proc, q # p
             PROVE  /\ pc'[q] \notin TodoWhere => todo'[q] = {}
                    /\ WriterAtWork(q)' => projLease' = q
                    /\ pc'[q] = "release_project" => projLease' = q
  BY DEF LeaseInv
<1>1. WriterAtWork(q)' = WriterAtWork(q)
  BY DEF WriterAtWork, AtWork
<1>2. projLease = q => projLease' = q
  BY NoneAssumption
<1>3. QED
  BY <1>1, <1>2 DEF LeaseInv

(***************************************************************************)
(* Most steps neither start nor continue a turn and leave the lease alone. *)
(***************************************************************************)
LEMMA QuietSteps ==
  ASSUME LeaseInv, TypeInv, NEW p \in Proc,
         \/ StartCommand(p) \/ Save(p) \/ AppendEvent(p)
         \/ Prepare(p) \/ CreateDirectory(p) \/ Created(p)
         \/ Load(p) \/ RecordApproval(p) \/ Resume(p) \/ Validate(p)
         \/ Scan(p) \/ EndOfLoop(p) \/ PickWriter(p) \/ ProjectBusy(p) \/ Conclude(p)
         \/ AfterRunReady(p) \/ Review(p) \/ WriteReport(p) \/ Exit(p) \/ LateWrite(p)
  PROVE  LeaseInv'
<1> USE DEF storeVars, leaseVars, history, Goto, Step, Hold, Forget
<1>1. /\ projLease' = projLease
      /\ pc' \in [Proc -> Pc]
      /\ \A q \in Proc \ {p} : /\ pc'[q] = pc[q] /\ batch'[q] = batch[q]
                               /\ todo'[q] = todo[q] /\ mem'[q] = mem[q]
  <2>1. pc' \in [Proc -> Pc]
    BY CheckpointSteps, CommandSteps, LoopSteps, ClosingSteps, FailureSteps DEF TypeInv, TypeOK
  <2>2. /\ projLease' = projLease
        /\ \A q \in Proc \ {p} : /\ pc'[q] = pc[q] /\ batch'[q] = batch[q]
                                 /\ todo'[q] = todo[q] /\ mem'[q] = mem[q]
    <3> USE DEF TypeInv, TypeOK
    <3>1. CASE StartCommand(p) \/ Save(p) \/ AppendEvent(p)
      BY <3>1 DEF StartCommand, Save, AppendEvent
    <3>2. CASE Prepare(p) \/ CreateDirectory(p) \/ Created(p)
      BY <3>2 DEF Prepare, CreateDirectory, Created
    <3>3. CASE Load(p) \/ RecordApproval(p) \/ Resume(p) \/ Validate(p)
      BY <3>3 DEF Load, RecordApproval, Resume, Validate
    <3>4. CASE Scan(p) \/ EndOfLoop(p) \/ PickWriter(p) \/ ProjectBusy(p) \/ Conclude(p)
      BY <3>4 DEF Scan, EndOfLoop, PickWriter, ProjectBusy, Conclude
    <3>5. CASE AfterRunReady(p) \/ Review(p) \/ WriteReport(p) \/ Exit(p) \/ LateWrite(p)
      BY <3>5 DEF AfterRunReady, Review, WriteReport, Exit, LateWrite
    <3>6. QED
      BY <3>1, <3>2, <3>3, <3>4, <3>5
  <2>3. QED
    BY <2>1, <2>2
<1>2. /\ pc'[p] \notin {"turn", "persist", "log", "release_project"}
      /\ pc'[p] \notin TodoWhere => todo'[p] = {}
  <2> USE DEF TypeInv, TypeOK, LeaseInv, TodoWhere
  <2>1. CASE Save(p) \/ AppendEvent(p)
    BY <2>1, CheckpointsAreQuiet DEF Save, AppendEvent
  <2>2. CASE StartCommand(p) \/ Prepare(p) \/ CreateDirectory(p) \/ Created(p)
    BY <2>2 DEF StartCommand, Prepare, CreateDirectory, Created
  <2>3. CASE Load(p)
    <3>1. job[p] \in Job
      BY <2>3, PcNames DEF Load, CommandsHaveState
    <3>2. AfterLoad[job[p].cmd] \in {"approve", "report", "resume"}
      BY <3>1, AfterLoadPc DEF Job
    <3>3. pc'[p] \in {"approve", "report", "resume", "unwind"} /\ todo' = todo /\ pc[p] = "load"
      BY <2>3, <3>2 DEF Load
    <3>4. QED
      BY <3>3
  <2>4. CASE RecordApproval(p) \/ Resume(p) \/ Validate(p)
    BY <2>4 DEF RecordApproval, Resume, Validate
  <2>5. CASE Scan(p)
    BY <2>5 DEF Scan
  <2>6. CASE EndOfLoop(p) \/ PickWriter(p) \/ ProjectBusy(p) \/ Conclude(p)
    BY <2>6 DEF EndOfLoop, PickWriter, ProjectBusy, Conclude
  <2>7. CASE AfterRunReady(p) \/ Review(p) \/ WriteReport(p)
    BY <2>7 DEF AfterRunReady, Review, WriteReport
  <2>8. CASE Exit(p)
    BY <2>8 DEF Exit
  <2>9. CASE LateWrite(p)
    BY <2>9 DEF LateWrite, CommandsHaveState
  <2>10. QED
    BY <2>1, <2>2, <2>3, <2>4, <2>5, <2>6, <2>7, <2>8, <2>9
<1>3. ~WriterAtWork(p)'
  BY <1>2 DEF WriterAtWork, AtWork
<1>4. QED
  BY <1>1, <1>2, <1>3, LeaseStep

\* A result does not make a reader a writer.
LEMMA ResultKeepsWriters ==
  ASSUME NEW s \in RunState, NEW i, NEW o
  PROVE  WriterItems(WithResult(s, i, o)) = WriterItems(s)
  BY DEF WriterItems, WithResult, RunState

\* Nor does a status.
LEMMA StatusKeepsWriters ==
  ASSUME NEW s \in RunState, NEW st
  PROVE  WriterItems(WithStatus(s, st)) = WriterItems(s)
  BY DEF WriterItems, WithStatus, RunState

(***************************************************************************)
(* Readers go without the lease, and none of them is a writer.  A writer   *)
(* takes the lease when nobody has it, and gives it back after its result. *)
(***************************************************************************)
LEMMA TurnSteps ==
  ASSUME LeaseInv, TypeInv, NEW p \in Proc,
         \/ DispatchReaders(p) \/ DispatchWriter(p) \/ TurnSucceeds(p) \/ TurnFails(p)
         \/ PersistResult(p) \/ LogResult(p) \/ ReleaseProject(p)
  PROVE  LeaseInv'
<1>1. /\ pc[p] \in Holding
      /\ mem[p] \in RunState
  <2>1. pc[p] \in Holding
    BY PcNames DEF DispatchReaders, DispatchWriter, TurnSucceeds, TurnFails, PersistResult,
       LogResult, ReleaseProject, EndTurns, Step, Persisting
  <2>2. QED
    BY <2>1, HolderFacts
<1> USE DEF TypeInv, TypeOK, LeaseInv, TodoWhere, storeVars, leaseVars, history, Goto, Step,
        Hold
<1>2. CASE DispatchReaders(p)
  <2>1. /\ pc'[p] = "turn" /\ todo'[p] = {} /\ projLease' = projLease
        /\ batch'[p] = ReadBatch(Dispatchable(mem[p]))
        /\ mem'[p] = WithStatus(mem[p], "running")
    BY <1>2 DEF DispatchReaders
  <2>2. \A i \in batch'[p] : i \notin WriterItems(mem'[p])
    BY <1>1, <1>2, <2>1, StatusKeepsWriters DEF DispatchReaders, ReadyWriters, ReadBatch
  <2>3. ~WriterAtWork(p)'
    BY <2>1, <2>2 DEF WriterAtWork, AtWork
  <2>4. QED
    BY <1>2, <2>1, <2>3, LeaseStep DEF DispatchReaders
<1>3. CASE DispatchWriter(p)
  BY <1>3, LeaseStep DEF DispatchWriter
<1>4. ASSUME NEW remaining, NEW results, EndTurns(p, remaining, results), pc[p] = "turn",
             remaining \cup {e.item : e \in results} \subseteq batch[p]
      PROVE  LeaseInv'
  <2>1. /\ pc'[p] \in {"turn", "persist"} /\ projLease' = projLease /\ mem' = mem
        /\ batch'[p] = remaining /\ todo'[p] = todo[p] \cup results
    BY <1>4 DEF EndTurns
  <2>2. AtWork(p)' \subseteq AtWork(p)
    BY <1>4, <2>1 DEF AtWork
  <2>3. WriterAtWork(p)' => projLease' = p
    BY <2>1, <2>2 DEF WriterAtWork
  <2>4. \A q \in Proc \ {p} : /\ pc'[q] = pc[q] /\ batch'[q] = batch[q]
                               /\ todo'[q] = todo[q] /\ mem'[q] = mem[q]
    BY <1>4 DEF EndTurns
  <2>5. QED
    BY <2>1, <2>3, <2>4, LeaseStep
<1>5. CASE TurnSucceeds(p)
  BY <1>4, <1>5 DEF TurnSucceeds
<1>6. CASE TurnFails(p)
  BY <1>4, <1>6 DEF TurnFails
<1>7. CASE PersistResult(p)
  <2>1. PICK e \in todo[p] :
          /\ pc[p] \in Persisting
          /\ mem' = [mem EXCEPT ![p] = WithResult(mem[p], e.item, e.outcome)]
          /\ pc' = [pc EXCEPT ![p] = IF pc[p] = "persist" THEN "log" ELSE "log_blocked"]
          /\ UNCHANGED <<leaseVars, batch, todo>>
    BY <1>7 DEF PersistResult
  <2>2. WriterAtWork(p)' => WriterAtWork(p)
    <3>1. WriterItems(mem'[p]) = WriterItems(mem[p])
      BY <1>1, <2>1, ResultKeepsWriters
    <3>2. pc'[p] = "log" => pc[p] = "persist"
      BY <2>1
    <3>3. AtWork(p)' \subseteq AtWork(p)
      BY <2>1, <3>2 DEF AtWork
    <3>4. QED
      BY <3>1, <3>3 DEF WriterAtWork
  <2>3. /\ pc'[p] \in {"log", "log_blocked"}
        /\ projLease' = projLease
        /\ \A q \in Proc \ {p} : /\ pc'[q] = pc[q] /\ batch'[q] = batch[q]
                                 /\ todo'[q] = todo[q] /\ mem'[q] = mem[q]
    BY <2>1
  <2>4. WriterAtWork(p)' => projLease' = p
    BY <2>2, <2>3
  <2>5. QED
    BY <2>3, <2>4, LeaseStep
<1>8. CASE LogResult(p)
  <2>1. PICK e \in todo[p] :
          /\ pc[p] \in {"log", "log_blocked"}
          /\ todo' = [todo EXCEPT ![p] = @ \ {e}]
          /\ pc' = [pc EXCEPT ![p] =
                      IF todo[p] # {e}
                        THEN IF pc[p] = "log" THEN "persist" ELSE "persist_blocked"
                        ELSE AfterResults(p)]
          /\ UNCHANGED <<leaseVars, batch, mem>>
    BY <1>8 DEF LogResult
  <2>2. \/ pc'[p] = "persist" /\ pc[p] = "log"
        \/ pc'[p] = "persist_blocked"
        \/ /\ pc'[p] \in {"pick", "scan", "release_project"}
           /\ todo'[p] = {}
           /\ pc'[p] = "release_project" => projLease = p
    BY <2>1 DEF AfterResults
  <2>3. WriterAtWork(p)' => WriterAtWork(p)
    BY <2>1, <2>2 DEF WriterAtWork, AtWork
  <2>4. QED
    BY <2>1, <2>2, <2>3, LeaseStep
<1>9. CASE ReleaseProject(p)
  <2>1. /\ pc'[p] = "scan" /\ projLease = p /\ todo'[p] = {}
        /\ \A q \in Proc \ {p} : /\ pc'[q] = pc[q] /\ batch'[q] = batch[q]
                                 /\ todo'[q] = todo[q] /\ mem'[q] = mem[q]
    BY <1>9 DEF ReleaseProject
  <2>2. ~WriterAtWork(p)'
    BY <2>1 DEF WriterAtWork, AtWork
  <2>3. QED
    BY <2>1, <2>2, LeaseStep
<1>10. QED
  BY <1>2, <1>3, <1>5, <1>6, <1>7, <1>8, <1>9

\* An interrupted or killed process gives back its own lease, and only that.
LEMMA StopSteps ==
  ASSUME LeaseInv, TypeInv, NEW p \in Proc, Interrupt(p) \/ Kill(p)
  PROVE  LeaseInv'
<1> USE DEF TypeInv, TypeOK, LeaseInv, storeVars, history, Goto, FreeProject, Forget
<1>1. /\ pc'[p] \in {"unwind", "idle"} /\ todo'[p] = {}
      /\ projLease' = projLease \/ projLease = p
      /\ \A q \in Proc \ {p} : /\ pc'[q] = pc[q] /\ batch'[q] = batch[q]
                               /\ todo'[q] = todo[q] /\ mem'[q] = mem[q]
  <2>1. CASE Interrupt(p)
    BY <2>1 DEF Interrupt
  <2>2. CASE Kill(p)
    BY <2>2 DEF Kill
  <2>3. QED
    BY <2>1, <2>2
<1>2. ~WriterAtWork(p)'
  BY <1>1 DEF WriterAtWork, AtWork
<1>3. QED
  BY <1>1, <1>2, LeaseStep

(***************************************************************************)
(* run_ready holds the project lease from a writer's dispatch through its  *)
(* checkpoint and event, so no two processes have a writer at work.        *)
(***************************************************************************)
THEOREM WritersExclude == Spec => []OneWriterPerProject
<1>1. Init => LeaseInv
  BY DEF Init, LeaseInv, WriterAtWork, AtWork
<1>2. TypeInv /\ LeaseInv /\ [Next]_vars => LeaseInv'
  <2> SUFFICES ASSUME TypeInv, LeaseInv, [Next]_vars PROVE LeaseInv'
    OBVIOUS
  <2>1. CASE UNCHANGED vars
    BY <2>1 DEF LeaseInv, WriterAtWork, AtWork, vars, storeVars, leaseVars, procVars
  <2>2. CASE Next
    <3>1. PICK p \in Proc : StartCommand(p) \/ Work(p) \/ Interrupt(p) \/ Kill(p)
      BY <2>2 DEF Next
    <3>2. QED
      BY <3>1, QuietSteps, TurnSteps, StopSteps DEF Work
  <2>3. QED
    BY <2>1, <2>2
<1>3. LeaseInv => OneWriterPerProject
  BY DEF LeaseInv, OneWriterPerProject
<1>4. Spec => []TypeInv
  BY TypeCorrect DEF TypeInv
<1>5. QED
  BY <1>1, <1>2, <1>3, <1>4, PTL DEF Spec

-----------------------------------------------------------------------------
(* One step at a time.                                                     *)

\* What a step of p leaves alone: the locals of the others, and every run but p's.
Frame(p) ==
  /\ \A q \in Proc \ {p} :
       /\ pc'[q] = pc[q] /\ job'[q] = job[q] /\ mem'[q] = mem[q] /\ batch'[q] = batch[q]
       /\ todo'[q] = todo[q] /\ left'[q] = left[q] /\ pass'[q] = pass[q] /\ late'[q] = late[q]
  /\ \A r \in Run : pc[p] = "idle" \/ r # RunOf(p) =>
       /\ disk'[r] = disk[r] /\ events'[r] = events[r]
       /\ granted'[r] = granted[r] /\ dispatched'[r] = dispatched[r]
  /\ \A r \in Run : granted[r] \subseteq granted'[r]
  /\ dirs \subseteq dirs'
  /\ interrupts' \in {interrupts, interrupts + 1}

\* Every step is one of a process, and keeps to its run.
LEMMA StepsAreFramed ==
  ASSUME TypeInv, NEW p \in Proc, StartCommand(p) \/ Work(p) \/ Interrupt(p) \/ Kill(p)
  PROVE  Frame(p)
<1> USE DEF TypeInv, TypeOK, storeVars, leaseVars, history, Goto, Step, Hold, Forget, Frame
<1>1. CASE StartCommand(p)
  BY <1>1 DEF StartCommand
<1>2. CASE Save(p)
  BY <1>2, AfterSavePc, PcNames DEF Save
<1>12. CASE AppendEvent(p)
  BY <1>12, AfterEventPc, PcNames DEF AppendEvent
<1>3. CASE Prepare(p) \/ CreateDirectory(p) \/ Created(p)
  BY <1>3 DEF Prepare, CreateDirectory, Created, EnterRunReady
<1>4. CASE Load(p) \/ Resume(p) \/ Validate(p)
  BY <1>4 DEF Load, Resume, Validate, EnterRunReady
<1>15. CASE RecordApproval(p)
  BY <1>15 DEF RecordApproval
<1>5. CASE Scan(p) \/ EndOfLoop(p)
  BY <1>5 DEF Scan, EndOfLoop
<1>13. CASE PersistResult(p)
  BY <1>13 DEF PersistResult, Persisting
<1>14. CASE LogResult(p)
  BY <1>14 DEF LogResult
<1>6. CASE PickWriter(p) \/ DispatchReaders(p) \/ DispatchWriter(p) \/ ProjectBusy(p)
  BY <1>6 DEF PickWriter, DispatchReaders, DispatchWriter, ProjectBusy, Count
<1>7. CASE TurnSucceeds(p) \/ TurnFails(p) \/ ReleaseProject(p) \/ Conclude(p)
  BY <1>7 DEF TurnSucceeds, TurnFails, EndTurns, ReleaseProject, Conclude
<1>8. CASE AfterRunReady(p) \/ Review(p) \/ WriteReport(p) \/ Exit(p)
  BY <1>8 DEF AfterRunReady, Review, WriteReport, Exit, EnterRunReady
<1>9. CASE LateWrite(p)
  BY <1>9 DEF LateWrite, CommandsHaveState
<1>10. CASE Interrupt(p) \/ Kill(p)
  BY <1>10, BoundAssumption DEF Interrupt, Kill
<1>11. QED
  BY <1>1, <1>2, <1>3, <1>4, <1>5, <1>6, <1>7, <1>8, <1>9, <1>10, <1>12, <1>13, <1>14, <1>15 DEF Work

-----------------------------------------------------------------------------
(* What is kept of a run for good.                                         *)

\* Two states of a run that differ in status, routes and approvals at most.
Same(s, t) == s.plan = t.plan /\ s.reviewed = t.reviewed /\ s.results = t.results

\* A run whose outcomes its dependencies explain, reviewed after its base work only.
Sound(s) ==
  /\ s.plan \in Plans
  /\ \A i \in Item : s.results[i] # "none" => i \in WorkItems(s)
  /\ s.reviewed => ~s.plan.explicit /\ \A i \in s.plan.items : Succeeded(s, i)
  /\ \A i \in WorkItems(s) :
       /\ s.results[i] \in {"succeeded", "failed"} => \A d \in Dependencies(s, i) : Succeeded(s, d)
       /\ s.results[i] = "blocked" =>
            \E d \in Dependencies(s, i) : s.results[d] \in {"failed", "blocked"}

\* Pending work whose dependencies succeeded, approved or not.
Ready(s) == {i \in PendingItems(s) : \A d \in Dependencies(s, i) : Succeeded(s, d)}

\* A result that may be recorded now.
Recordable(s, e) ==
  /\ e.item \in PendingItems(s)
  /\ IF e.outcome = "blocked"
       THEN \E d \in Dependencies(s, e.item) : s.results[d] \in {"failed", "blocked"}
       ELSE e.item \in Ready(s)

\* The operators of RunModel look at nothing else of a state.
LEMMA SameRuns ==
  ASSUME NEW s, NEW t, Same(s, t)
  PROVE  /\ Sound(s) <=> Sound(t)
         /\ Ready(s) = Ready(t)
         /\ PendingItems(s) = PendingItems(t)
         /\ \A e : Recordable(s, e) <=> Recordable(t, e)
<1>1. /\ WorkItems(s) = WorkItems(t)
      /\ \A i : Succeeded(s, i) <=> Succeeded(t, i)
      /\ \A i : Dependencies(s, i) = Dependencies(t, i)
  BY DEF Same, WorkItems, Succeeded, Dependencies
<1>2. PendingItems(s) = PendingItems(t)
  BY <1>1 DEF Same, PendingItems
<1>3. Ready(s) = Ready(t)
  BY <1>1, <1>2 DEF Ready
<1>4. Sound(s) <=> Sound(t)
  BY <1>1 DEF Same, Sound
<1>5. \A e : Recordable(s, e) <=> Recordable(t, e)
  BY <1>1, <1>2, <1>3 DEF Same, Recordable
<1>6. QED
  BY <1>2, <1>3, <1>4, <1>5

\* A status, an approval and another configuration leave a run what it is.
LEMMA KeepRuns ==
  ASSUME NEW s \in RunState
  PROVE  /\ \A st : Same(WithStatus(s, st), s)
         /\ \A i : Same(Approve(s, i), s)
         /\ \A c : Same(AdoptCurrentConfiguration(s, c), s)
  BY DEF RunState, Same, WithStatus, Approve, AdoptCurrentConfiguration

\* A new run has decided nothing.
LEMMA NewRunIsSound ==
  ASSUME NEW plan \in Plans, NEW config
  PROVE  /\ Sound(NewRun(plan, config))
         /\ ~NewRun(plan, config).reviewed
         /\ \A i \in Item : NewRun(plan, config).results[i] = "none"
<1>1. /\ NewRun(plan, config).plan = plan
      /\ NewRun(plan, config).reviewed = FALSE
      /\ NewRun(plan, config).results = [i \in Item |-> "none"]
  BY DEF NewRun
<1>2. WorkItems(NewRun(plan, config)) \subseteq Item
  BY <1>1, PlansAssumption DEF WorkItems, Plan, Item
<1>3. QED
  BY <1>1, <1>2 DEF Sound

\* What the scheduler blocks or dispatches may be recorded.
LEMMA ScheduledIsRecordable ==
  ASSUME NEW s
  PROVE  /\ \A i \in NewlyBlocked(s) : Recordable(s, [item |-> i, outcome |-> "blocked"])
         /\ Dispatchable(s) \subseteq Ready(s)
         /\ \A i \in Ready(s) : /\ Recordable(s, [item |-> i, outcome |-> "succeeded"])
                                /\ Recordable(s, [item |-> i, outcome |-> "failed"])
  BY DEF NewlyBlocked, Recordable, Dispatchable, Ready

\* _persist_result: the result is explained, and so are those still to be recorded.
LEMMA ResultIsSound ==
  ASSUME NEW s \in RunState, Sound(s), NEW e \in Result, Recordable(s, e)
  PROVE  /\ Sound(WithResult(s, e.item, e.outcome))
         /\ \A f \in Result : f.item # e.item /\ Recordable(s, f) =>
              Recordable(WithResult(s, e.item, e.outcome), f)
<1> DEFINE t == WithResult(s, e.item, e.outcome)
<1>1. /\ t.plan = s.plan /\ t.reviewed = s.reviewed
      /\ e.item \in Item /\ e.outcome \in Outcome
      /\ t.results[e.item] = e.outcome
      /\ \A i : i # e.item => t.results[i] = s.results[i]
  BY DEF WithResult, RunState, Result
<1>2. /\ WorkItems(t) = WorkItems(s)
      /\ \A i : Dependencies(t, i) = Dependencies(s, i)
  BY <1>1 DEF WorkItems, Dependencies
<1>3. s.results[e.item] = "none" /\ e.item \in WorkItems(s)
  BY DEF Recordable, PendingItems
<1>4. /\ \A i : Succeeded(s, i) => Succeeded(t, i)
      /\ \A i : s.results[i] \in {"failed", "blocked"} => t.results[i] = s.results[i]
  BY <1>1, <1>3 DEF Succeeded
<1>5. Sound(t)
  <2>1. t.reviewed => \A i \in t.plan.items : Succeeded(t, i)
    BY <1>1, <1>4 DEF Sound
  <2>2. ASSUME NEW i \in WorkItems(t)
        PROVE  /\ t.results[i] \in {"succeeded", "failed"} =>
                    \A d \in Dependencies(t, i) : Succeeded(t, d)
               /\ t.results[i] = "blocked" =>
                    \E d \in Dependencies(t, i) : t.results[d] \in {"failed", "blocked"}
    <3>1. CASE i = e.item
      BY <1>1, <1>2, <1>4, <3>1 DEF Recordable, Ready
    <3>2. CASE i # e.item
      <4>1. t.results[i] = s.results[i] /\ i \in WorkItems(s)
        BY <1>1, <1>2, <3>2
      <4>2. QED
        BY <1>2, <1>4, <4>1 DEF Sound
    <3>3. QED
      BY <3>1, <3>2
  <2>3. QED
    BY <1>1, <1>2, <1>3, <2>1, <2>2 DEF Sound
<1>6. ASSUME NEW f \in Result, f.item # e.item, Recordable(s, f)
      PROVE  Recordable(t, f)
  <2>1. f.item \in PendingItems(t)
    BY <1>1, <1>2, <1>6 DEF Recordable, PendingItems
  <2>2. f.item \in Ready(s) => f.item \in Ready(t)
    BY <1>2, <1>4, <2>1 DEF Ready
  <2>3. QED
    BY <1>2, <1>4, <1>6, <2>1, <2>2 DEF Recordable
<1>7. QED
  BY <1>5, <1>6

\* _continue: the review is appended to base work that succeeded.
LEMMA ReviewIsSound ==
  ASSUME NEW s \in RunState, NEW config, Sound(s), BaseWorkSucceeded(s), ~s.plan.explicit
  PROVE  /\ Sound(AppendCompletion(s, config))
         /\ AppendCompletion(s, config).plan = s.plan
         /\ AppendCompletion(s, config).results = s.results
         /\ AppendCompletion(s, config).reviewed = TRUE
<1> DEFINE t == AppendCompletion(s, config)
<1>1. t.plan = s.plan /\ t.results = s.results /\ t.reviewed = TRUE
  BY DEF AppendCompletion, RunState
<1>2. /\ WorkItems(t) = s.plan.items \cup {Completion}
      /\ \A i : Dependencies(t, i) = Dependencies(s, i)
      /\ \A i : Succeeded(t, i) <=> Succeeded(s, i)
      /\ s.plan.items \subseteq WorkItems(s) /\ WorkItems(s) \subseteq WorkItems(t)
  BY <1>1 DEF WorkItems, Dependencies, Succeeded
<1>3. Completion \in WorkItems(s) \/ s.results[Completion] = "none"
  BY CompletionIsItem DEF Sound
<1>4. Sound(t)
  <2>1. ASSUME NEW i \in WorkItems(t)
        PROVE  /\ t.results[i] \in {"succeeded", "failed"} =>
                    \A d \in Dependencies(t, i) : Succeeded(t, d)
               /\ t.results[i] = "blocked" =>
                    \E d \in Dependencies(t, i) : t.results[d] \in {"failed", "blocked"}
    <3>1. i \in WorkItems(s) \/ t.results[i] = "none"
      BY <1>1, <1>2, <1>3
    <3>2. QED
      BY <1>1, <1>2, <3>1 DEF Sound
  <2>2. QED
    BY <1>1, <1>2, <2>1 DEF Sound, BaseWorkSucceeded
<1>5. QED
  BY <1>1, <1>4

-----------------------------------------------------------------------------
(* What a command holds by itself, and is about to record.                 *)

\* A copy is sound; a new run has decided nothing; a review is reviewed after it was appended.
CopySound(p) ==
  pc[p] \in Holding =>
    /\ Sound(mem[p])
    /\ pc[p] \in {"mkdir", "create"} =>
         ~mem[p].reviewed /\ \A i \in Item : mem[p].results[i] = "none"
    /\ pc[p] \in {"save_review", "event_review", "review"} => mem[p].reviewed

\* Results in hand may be recorded, but for the one whose event is about to be.
WorkInv(p) ==
  /\ pc[p] \in {"save_planned", "acquire", "turn"} => batch[p] \subseteq Ready(mem[p])
  /\ \A e, f \in todo[p] : e.item = f.item => e = f
  /\ pc[p] = "turn" => \A e \in todo[p] : e.item \notin batch[p]
  /\ pc[p] \in {"persist", "log"} => batch[p] = {}
  /\ pc[p] \in {"turn", "persist", "persist_blocked"} =>
       \A e \in todo[p] : Recordable(mem[p], e)
  /\ pc[p] \in {"log", "log_blocked"} =>
       \A e \in todo[p] : IF Entry(p, e) THEN mem[p].results[e.item] = e.outcome
                                         ELSE Recordable(mem[p], e)

\* On disk, in memory or in a thread that outlived its command, a run is sound.
SoundInv ==
  /\ \A r \in Run : disk[r] # None => Sound(disk[r])
  /\ \A p \in Proc : late[p] # None => Sound(late[p])
  /\ \A p \in Proc : CopySound(p) /\ WorkInv(p)

SelfInv == TypeInv /\ LeaseInv /\ SoundInv

\* A step of p keeps the rest when what it writes, leaves behind and holds is sound.
LEMMA SoundStep ==
  ASSUME SelfInv, NEW p \in Proc, Frame(p),
         \A r \in Run : disk'[r] = disk[r] \/ Sound(disk'[r]),
         late'[p] \in {late[p], None} \/ Sound(late'[p]),
         CopySound(p)', WorkInv(p)'
  PROVE  SoundInv'
<1>1. ASSUME NEW q \in Proc, q # p
      PROVE  CopySound(q)' /\ WorkInv(q)' /\ late'[q] = late[q]
  <2>1. /\ pc'[q] = pc[q] /\ mem'[q] = mem[q] /\ batch'[q] = batch[q] /\ todo'[q] = todo[q]
        /\ late'[q] = late[q]
    BY <1>1 DEF Frame
  <2>2. CopySound(q) /\ WorkInv(q)
    BY DEF SelfInv, SoundInv
  <2>3. CopySound(q)'
    BY <2>1, <2>2 DEF CopySound
  <2>4. WorkInv(q)'
    BY <2>1, <2>2 DEF WorkInv, Entry
  <2>5. QED
    BY <2>1, <2>3, <2>4
<1>2. QED
  BY <1>1 DEF SelfInv, SoundInv

\* A command that leaves its copy, or has none yet, keeps the rest.
LEMMA LeavesCopy ==
  ASSUME SelfInv, NEW p \in Proc, Frame(p), disk' = disk,
         pc'[p] \in {"idle", "prepare", "load", "unwind", "draining"},
         todo'[p] \in {todo[p], {}},
         late'[p] \in {late[p], None} \/ Sound(late'[p])
  PROVE  SoundInv'
<1>1. CopySound(p)'
  BY PcNames DEF CopySound
<1>2. WorkInv(p)'
  BY DEF SelfInv, SoundInv, WorkInv
<1>3. QED
  BY <1>1, <1>2, SoundStep

(***************************************************************************)
(* Most steps of a command write nothing and keep what they hold of the    *)
(* run; what they choose to do next is ready.                              *)
(***************************************************************************)
LEMMA KeepsCopy ==
  ASSUME SelfInv, NEW p \in Proc, Frame(p), UNCHANGED <<disk, late>>,
         pc[p] \in Holding,
         pc'[p] \in Holding \ {"mkdir", "create", "save_review", "event_review"},
         Same(mem'[p], mem[p]),
         pc'[p] = "review" => mem[p].reviewed,
         WorkInv(p)'
  PROVE  SoundInv'
<1>1. CopySound(p)'
  BY SameRuns DEF SelfInv, SoundInv, CopySound, Same
<1>2. QED
  BY <1>1, SoundStep

\* From a command's start to the scheduler.
LEMMA CommandsKeepCopies ==
  ASSUME SelfInv, NEW p \in Proc, Frame(p),
         \/ StartCommand(p) \/ Prepare(p) \/ CreateDirectory(p) \/ Created(p)
         \/ Load(p) \/ RecordApproval(p) \/ Resume(p) \/ Validate(p)
  PROVE  SoundInv'
<1> USE DEF storeVars, leaseVars, history, Goto, Step, Hold
<1>0. /\ pc \in [Proc -> Pc] /\ mem \in [Proc -> RunState \cup {None}]
      /\ pc[p] # "idle" => job[p] \in Job /\ RunOf(p) \in Run
      /\ pc[p] \in Holding => mem[p] \in RunState
      /\ CopySound(p) /\ WorkInv(p)
  BY HolderFacts DEF SelfInv, TypeInv, TypeOK, CommandsHaveState, RunOf, Job, SoundInv
<1>1. CASE StartCommand(p)
  <2>1. pc'[p] \in {"prepare", "load"} /\ UNCHANGED <<disk, todo, late>>
    BY <1>0, <1>1 DEF StartCommand
  <2>2. QED
    BY <2>1, LeavesCopy
<1>2. CASE Prepare(p)
  <2>1. PICK plan \in Plans :
          /\ pc'[p] = "mkdir" /\ mem'[p] = NewRun(plan, job[p].config)
          /\ UNCHANGED <<disk, todo, late>>
    BY <1>0, <1>2 DEF Prepare
  <2>2. CopySound(p)'
    BY <2>1, NewRunIsSound DEF CopySound
  <2>3. WorkInv(p)'
    BY <1>0, <2>1 DEF WorkInv
  <2>4. QED
    BY <2>1, <2>2, <2>3, SoundStep
<1>3. CASE CreateDirectory(p)
  <2>1. /\ pc[p] = "mkdir" /\ pc'[p] \in {"unwind", "create"}
        /\ UNCHANGED <<disk, mem, todo, late>>
    BY <1>0, <1>3 DEF CreateDirectory
  <2>2. CopySound(p)'
    BY <1>0, <2>1, PcNames DEF CopySound
  <2>3. WorkInv(p)'
    BY <1>0, <2>1 DEF WorkInv
  <2>4. QED
    BY <2>1, <2>2, <2>3, SoundStep
<1>4. ASSUME UNCHANGED <<disk, late, todo>>,
             pc[p] \in {"created", "approve", "resume", "validate"},
             pc'[p] \in {"save_approval", "save_config", "validate", "scan"},
             Same(mem'[p], mem[p])
      PROVE  SoundInv'
  <2>1. WorkInv(p)'
    BY <1>0, <1>4 DEF WorkInv
  <2>2. pc'[p] \in Holding \ {"mkdir", "create", "save_review", "event_review"}
    BY <1>4, PcNames
  <2>3. QED
    BY <1>4, <2>1, <2>2, PcNames, KeepsCopy
<1>5. CASE Created(p)
  <2>1. CASE job[p].cmd = "plan"
    BY <1>0, <1>5, <2>1, LeavesCopy DEF Created
  <2>2. CASE job[p].cmd # "plan"
    <3>1. /\ pc[p] = "created" /\ pc'[p] = "scan" /\ mem' = mem /\ UNCHANGED <<disk, late, todo>>
      BY <1>0, <1>5, <2>2 DEF Created
    <3>2. QED
      BY <1>4, <3>1 DEF Same
  <2>3. QED
    BY <2>1, <2>2
<1>6. CASE Load(p)
  <2>1. /\ pc[p] = "load" /\ UNCHANGED <<disk, todo, late>>
        /\ AfterLoad[job[p].cmd] \in {"approve", "report", "resume"}
    BY <1>0, <1>6, AfterLoadPc, PcNames DEF Load, Job
  <2>2. CASE ~Loadable(p)
    BY <1>0, <1>6, <2>1, <2>2, LeavesCopy DEF Load
  <2>3. CASE Loadable(p)
    <3>1. /\ disk[RunOf(p)] # None /\ mem'[p] = disk[RunOf(p)]
          /\ pc'[p] \in {"approve", "report", "resume"}
      BY <1>0, <1>6, <2>1, <2>3 DEF Load, Loadable
    <3>2. Sound(disk[RunOf(p)])
      BY <1>0, <2>1, <3>1 DEF SelfInv, SoundInv
    <3>3. CopySound(p)'
      BY <3>1, <3>2 DEF CopySound
    <3>4. WorkInv(p)'
      BY <1>0, <2>1, <3>1 DEF WorkInv
    <3>5. QED
      BY <2>1, <3>3, <3>4, SoundStep
  <2>4. QED
    BY <2>2, <2>3
<1>7. CASE RecordApproval(p)
  <2>1. PICK i \in WorkItems(mem[p]) :
          /\ pc[p] = "approve" /\ pc'[p] = "save_approval"
          /\ mem'[p] = Approve(mem[p], i)
          /\ UNCHANGED <<disk, late, todo>>
    BY <1>0, <1>7 DEF RecordApproval
  <2>2. QED
    BY <1>0, <1>4, <2>1, KeepRuns, PcNames
<1>8. CASE Resume(p)
  <2>1. /\ pc[p] = "resume" /\ UNCHANGED <<disk, late, todo>>
        /\ \/ /\ pc'[p] = "save_config"
              /\ mem'[p] = AdoptCurrentConfiguration(mem[p], job[p].config)
           \/ pc'[p] = "validate" /\ mem' = mem
    BY <1>0, <1>8 DEF Resume
  <2>2. Same(mem'[p], mem[p])
    BY <1>0, <2>1, KeepRuns, PcNames DEF Same
  <2>3. QED
    BY <1>4, <2>1, <2>2
<1>9. CASE Validate(p)
  <2>1. /\ pc[p] = "validate" /\ pc'[p] = "scan" /\ mem' = mem /\ UNCHANGED <<disk, late, todo>>
    BY <1>0, <1>9 DEF Validate
  <2>2. QED
    BY <1>4, <2>1 DEF Same
<1>10. QED
  BY <1>1, <1>2, <1>3, <1>5, <1>6, <1>7, <1>8, <1>9

\* A checkpoint writes what the command holds, and its event follows.
LEMMA CheckpointsKeepCopies ==
  ASSUME SelfInv, NEW p \in Proc, Frame(p), Save(p) \/ AppendEvent(p)
  PROVE  SoundInv'
<1>0. /\ pc[p] \in Holding /\ RunOf(p) \in Run
      /\ pc \in [Proc -> Pc] /\ batch \in [Proc -> SUBSET Item]
      /\ disk \in [Run -> RunState \cup {None}]
      /\ CopySound(p) /\ WorkInv(p)
  BY AfterSavePc, AfterEventPc, HolderFacts
     DEF Save, AppendEvent, SelfInv, TypeInv, TypeOK, SoundInv
<1>1. CASE Save(p)
  <2>1. /\ pc[p] \in DOMAIN AfterSave /\ pc'[p] = AfterSave[pc[p]]
        /\ disk' = [disk EXCEPT ![RunOf(p)] = mem[p]]
        /\ UNCHANGED <<mem, batch, todo, late>>
    BY <1>0, <1>1 DEF Save, Goto
  <2>2. /\ pc'[p] \in {"event_created", "event_approval", "event_config", "acquire", "ran",
                       "event_review"}
        /\ pc'[p] = "event_review" => pc[p] = "save_review"
        /\ pc'[p] = "acquire" => pc[p] = "save_planned"
    BY <2>1 DEF AfterSave
  <2>3. CopySound(p)' /\ WorkInv(p)'
    BY <1>0, <2>1, <2>2 DEF CopySound, WorkInv
  <2>4. \A r \in Run : disk'[r] = disk[r] \/ Sound(disk'[r])
    BY <1>0, <2>1 DEF CopySound
  <2>5. QED
    BY <2>1, <2>3, <2>4, SoundStep
<1>2. CASE AppendEvent(p)
  <2>1. /\ pc[p] \in DOMAIN AfterEvent /\ pc'[p] = AfterEvent[pc[p]]
        /\ UNCHANGED <<disk, mem, todo, late>>
    BY <1>0, <1>2 DEF AppendEvent, Goto
  <2>2. /\ pc'[p] \in {"created", "report", "validate", "review"}
        /\ pc'[p] = "review" => pc[p] = "event_review"
    BY <2>1 DEF AfterEvent
  <2>3. CopySound(p)' /\ WorkInv(p)'
    BY <1>0, <2>1, <2>2 DEF CopySound, WorkInv
  <2>4. QED
    BY <2>1, <2>3, SoundStep
<1>3. QED
  BY <1>1, <1>2

\* Nothing waits to be recorded where no turn and no iteration left it.
LEMMA NothingInHand ==
  ASSUME SelfInv, NEW p \in Proc, pc[p] \notin TodoWhere
  PROVE  todo[p] = {}
  BY DEF SelfInv, LeaseInv

\* sorted(): of the results in hand one is the first.
LEMMA FirstIsOne ==
  ASSUME SelfInv, NEW p \in Proc, NEW e \in todo[p], NEW f \in todo[p], Entry(p, e), Entry(p, f)
  PROVE  e = f
<1>1. e.item \in Nat /\ f.item \in Nat
  <2>1. e \in Result /\ f \in Result
    BY DEF SelfInv, TypeInv, TypeOK
  <2>2. Item \subseteq Nat
    BY BaseAssumption DEF Item, Completion
  <2>3. QED
    BY <2>1, <2>2 DEF Result
<1>2. e.item <= f.item /\ f.item <= e.item
  BY DEF Entry
<1>3. e.item = f.item
  BY <1>1, <1>2
<1>4. QED
  BY <1>3 DEF SelfInv, SoundInv, WorkInv

\* An iteration that blocks, dispatches or ends.
LEMMA IterationsKeepCopies ==
  ASSUME SelfInv, NEW p \in Proc, Frame(p),
         \/ Scan(p) \/ EndOfLoop(p) \/ PickWriter(p) \/ DispatchReaders(p) \/ DispatchWriter(p)
         \/ ProjectBusy(p) \/ ReleaseProject(p) \/ Conclude(p)
  PROVE  SoundInv'
<1> USE DEF storeVars, leaseVars, history, Goto, Step, Hold
<1>0. /\ pc \in [Proc -> Pc] /\ mem \in [Proc -> RunState \cup {None}]
      /\ batch \in [Proc -> SUBSET Item] /\ todo \in [Proc -> SUBSET Result]
      /\ pc[p] \in {"scan", "pick", "acquire", "release_project", "final"}
      /\ pc[p] \in Holding \ {"mkdir", "create", "save_review"}
      /\ mem[p] \in RunState /\ CopySound(p) /\ WorkInv(p)
      /\ todo[p] = {}
  <2>1. pc[p] \in {"scan", "pick", "acquire", "release_project", "final"}
    BY DEF Scan, EndOfLoop, PickWriter, DispatchReaders, DispatchWriter, ProjectBusy,
       ReleaseProject, Conclude
  <2>2. todo[p] = {}
    BY <2>1, NothingInHand DEF TodoWhere
  <2>3. pc[p] \in Holding \ {"mkdir", "create", "save_review"}
    BY <2>1, PcNames
  <2>4. QED
    BY <2>1, <2>2, <2>3, HolderFacts DEF SelfInv, TypeInv, TypeOK, SoundInv
<1>1. ASSUME UNCHANGED <<disk, late>>, Same(mem'[p], mem[p]),
             pc'[p] \in {"persist_blocked", "pick", "final", "save_planned", "acquire", "turn",
                         "scan", "save_final", "ran"},
             WorkInv(p)'
      PROVE  SoundInv'
  <2>1. pc'[p] \in Holding \ {"mkdir", "create", "save_review", "event_review", "review"}
    BY <1>1, PcNames
  <2>2. QED
    BY <1>0, <1>1, <2>1, KeepsCopy
<1>2. CASE Scan(p)
  <2>1. /\ mem' = mem /\ UNCHANGED <<disk, late>>
        /\ pc'[p] \in {"pick", "persist_blocked"}
        /\ todo'[p] = {[item |-> i, outcome |-> "blocked"] : i \in NewlyBlocked(mem[p])}
    BY <1>0, <1>2 DEF Scan
  <2>2. WorkInv(p)'
    BY <2>1, ScheduledIsRecordable DEF WorkInv
  <2>3. QED
    BY <1>1, <2>1, <2>2 DEF Same
<1>3. CASE EndOfLoop(p)
  <2>1. /\ mem' = mem /\ UNCHANGED <<disk, late, todo>> /\ pc'[p] = "final"
    BY <1>0, <1>3 DEF EndOfLoop
  <2>2. WorkInv(p)'
    BY <1>0, <2>1 DEF WorkInv
  <2>3. QED
    BY <1>1, <2>1, <2>2 DEF Same
<1>4. CASE PickWriter(p)
  <2>1. PICK i \in ReadyWriters(mem[p]) : batch'[p] = {i}
    BY <1>0, <1>4 DEF PickWriter
  <2>2. i \in Ready(mem[p])
    BY ScheduledIsRecordable DEF ReadyWriters
  <2>3. /\ UNCHANGED <<disk, late, todo>>
        /\ pc'[p] \in {"save_planned", "acquire"}
        /\ mem'[p] \in {mem[p], WithStatus(mem[p], "planned")}
    BY <1>0, <1>4 DEF PickWriter
  <2>4. Same(mem'[p], mem[p])
    BY <1>0, <2>3, KeepRuns DEF Same
  <2>5. WorkInv(p)'
    BY <1>0, <2>1, <2>2, <2>3, <2>4, SameRuns DEF WorkInv
  <2>6. QED
    BY <1>1, <2>3, <2>4, <2>5
<1>5. CASE DispatchReaders(p)
  <2>1. /\ UNCHANGED <<disk, late, todo>>
        /\ pc'[p] = "turn" /\ mem'[p] = WithStatus(mem[p], "running")
        /\ batch'[p] = ReadBatch(Dispatchable(mem[p]))
    BY <1>0, <1>5 DEF DispatchReaders
  <2>2. Same(mem'[p], mem[p])
    BY <1>0, <2>1, KeepRuns
  <2>3. batch'[p] \subseteq Ready(mem'[p])
    BY <2>1, <2>2, ScheduledIsRecordable, SameRuns DEF ReadBatch
  <2>4. WorkInv(p)'
    BY <1>0, <2>1, <2>3 DEF WorkInv
  <2>5. QED
    BY <1>1, <2>1, <2>2, <2>4
<1>6. CASE DispatchWriter(p)
  <2>1. /\ UNCHANGED <<disk, late, todo, batch>> /\ pc[p] = "acquire"
        /\ pc'[p] = "turn" /\ mem'[p] = WithStatus(mem[p], "running")
    BY <1>0, <1>6 DEF DispatchWriter
  <2>2. Same(mem'[p], mem[p])
    BY <1>0, <2>1, KeepRuns
  <2>3. batch'[p] \subseteq Ready(mem'[p])
    BY <1>0, <2>1, <2>2, SameRuns DEF WorkInv
  <2>4. WorkInv(p)'
    BY <1>0, <2>1, <2>3 DEF WorkInv
  <2>5. QED
    BY <1>1, <2>1, <2>2, <2>4
<1>7. CASE ProjectBusy(p)
  <2>1. UNCHANGED <<disk, late, todo>> /\ pc'[p] = "unwind"
    BY <1>0, <1>7 DEF ProjectBusy
  <2>2. QED
    BY <2>1, LeavesCopy
<1>8. CASE ReleaseProject(p)
  <2>1. mem' = mem /\ UNCHANGED <<disk, late, todo>> /\ pc'[p] = "scan"
    BY <1>0, <1>8 DEF ReleaseProject
  <2>2. WorkInv(p)'
    BY <1>0, <2>1 DEF WorkInv
  <2>3. QED
    BY <1>1, <2>1, <2>2 DEF Same
<1>9. CASE Conclude(p)
  <2>1. /\ UNCHANGED <<disk, late, todo>> /\ pc'[p] \in {"ran", "save_final"}
        /\ mem'[p] = WithStatus(mem[p], FinalStatus(mem[p]))
    BY <1>0, <1>9 DEF Conclude
  <2>2. WorkInv(p)'
    BY <1>0, <2>1 DEF WorkInv
  <2>3. QED
    BY <1>0, <1>1, <2>1, <2>2, KeepRuns
<1>10. QED
  BY <1>2, <1>3, <1>4, <1>5, <1>6, <1>7, <1>8, <1>9

\* Turns end, all together or one by one: each item that is through has one result.
LEMMA TurnsKeepCopies ==
  ASSUME SelfInv, NEW p \in Proc, Frame(p), TurnSucceeds(p) \/ TurnFails(p)
  PROVE  SoundInv'
<1>1. PICK remaining \in SUBSET batch[p], outcome \in {"succeeded", "failed"} :
        /\ pc[p] = "turn"
        /\ EndTurns(p, remaining, {[item |-> i, outcome |-> outcome] : i \in batch[p] \ remaining})
  <2>1. CASE TurnSucceeds(p)
    <3>1. PICK i \in batch[p] :
            /\ pc[p] = "turn"
            /\ EndTurns(p, batch[p] \ {i}, {[item |-> i, outcome |-> "succeeded"]})
      BY <2>1 DEF TurnSucceeds
    <3>2. {[item |-> j, outcome |-> "succeeded"] : j \in batch[p] \ (batch[p] \ {i})}
            = {[item |-> i, outcome |-> "succeeded"]}
      OBVIOUS
    <3>3. QED
      BY <3>1, <3>2
  <2>2. CASE TurnFails(p)
    <3>1. {[item |-> i, outcome |-> "failed"] : i \in batch[p] \ {}}
            = {[item |-> i, outcome |-> "failed"] : i \in batch[p]}
      OBVIOUS
    <3>2. QED
      BY <2>2, <3>1 DEF TurnFails
  <2>3. QED
    BY <2>1, <2>2
<1> DEFINE results == {[item |-> i, outcome |-> outcome] : i \in batch[p] \ remaining}
<1>2. /\ UNCHANGED <<disk, late, mem>>
      /\ batch'[p] = remaining /\ todo'[p] = todo[p] \cup results
      /\ pc'[p] = IF remaining = {} THEN "persist" ELSE "turn"
  BY <1>1 DEF EndTurns, Goto, storeVars, leaseVars, history, SelfInv, TypeInv, TypeOK
<1>3. WorkInv(p) /\ batch[p] \subseteq Ready(mem[p])
  BY <1>1 DEF SelfInv, SoundInv, WorkInv
<1>4. WorkInv(p)'
  <2>1. ASSUME NEW e \in results
        PROVE  Recordable(mem[p], e) /\ e.item \in batch[p] \ remaining
    <3>1. PICK i \in batch[p] \ remaining : e = [item |-> i, outcome |-> outcome]
      OBVIOUS
    <3>2. i \in Ready(mem[p])
      BY <1>3
    <3>3. QED
      BY <1>1, <3>1, <3>2, ScheduledIsRecordable
  <2>2. \A e, f \in todo'[p] : e.item = f.item => e = f
    BY <1>1, <1>2, <1>3 DEF WorkInv
  <2>3. QED
    BY <1>1, <1>2, <1>3, <2>1, <2>2 DEF WorkInv
<1>5. pc[p] \in Holding \ {"mkdir", "create", "save_review"}
  BY <1>1, PcNames
<1>6. pc'[p] \in Holding \ {"mkdir", "create", "save_review", "event_review", "review"}
  BY <1>2, PcNames
<1>7. QED
  BY <1>2, <1>4, <1>5, <1>6, KeepsCopy DEF Same

\* The first of the results in hand goes into the copy and to disk, and its event follows.
LEMMA RecordingKeepsCopies ==
  ASSUME SelfInv, NEW p \in Proc, Frame(p), PersistResult(p) \/ LogResult(p)
  PROVE  SoundInv'
<1> USE DEF storeVars, leaseVars, history, Goto, Hold
<1>0. /\ pc \in [Proc -> Pc] /\ mem \in [Proc -> RunState \cup {None}]
      /\ batch \in [Proc -> SUBSET Item] /\ todo \in [Proc -> SUBSET Result]
      /\ disk \in [Run -> RunState \cup {None}]
      /\ pc[p] \in Holding /\ mem[p] \in RunState
      /\ CopySound(p) /\ WorkInv(p)
  <2>1. pc[p] \in Holding
    BY PcNames DEF PersistResult, LogResult, Persisting
  <2>2. QED
    BY <2>1, HolderFacts DEF SelfInv, TypeInv, TypeOK, SoundInv
<1>1. CASE PersistResult(p)
  <2>1. PICK e \in todo[p] :
          /\ pc[p] \in Persisting /\ Entry(p, e)
          /\ mem' = [mem EXCEPT ![p] = WithResult(mem[p], e.item, e.outcome)]
          /\ disk' = [disk EXCEPT ![RunOf(p)] = WithResult(mem[p], e.item, e.outcome)]
          /\ pc' = [pc EXCEPT ![p] = IF pc[p] = "persist" THEN "log" ELSE "log_blocked"]
          /\ UNCHANGED <<batch, todo, late>>
    BY <1>1 DEF PersistResult
  <2> DEFINE t == WithResult(mem[p], e.item, e.outcome)
  <2>2. /\ pc'[p] = IF pc[p] = "persist" THEN "log" ELSE "log_blocked"
        /\ mem'[p] = t /\ batch'[p] = batch[p] /\ todo'[p] = todo[p]
        /\ pc[p] \in {"persist", "persist_blocked"}
    BY <1>0, <2>1 DEF Persisting
  <2>3. Sound(mem[p]) /\ Recordable(mem[p], e)
    BY <1>0, <2>1, <2>2 DEF CopySound, WorkInv
  <2>4. /\ Sound(t)
        /\ \A f \in todo[p] : f.item # e.item => Recordable(t, f)
        /\ t.results[e.item] = e.outcome
    <3>1. e \in Result /\ todo[p] \subseteq Result /\ e.item \in Item /\ e.outcome \in Outcome
      BY <1>0 DEF Result
    <3>2. /\ Sound(WithResult(mem[p], e.item, e.outcome))
          /\ \A f \in Result : f.item # e.item /\ Recordable(mem[p], f) =>
               Recordable(WithResult(mem[p], e.item, e.outcome), f)
      BY <1>0, <2>3, <3>1, ResultIsSound
    <3>3. t.results[e.item] = e.outcome
      BY <1>0, <3>1 DEF WithResult, RunState
    <3>4. \A f \in todo[p] : f.item # e.item => Recordable(mem[p], f)
      BY <1>0, <2>1, <2>2 DEF WorkInv
    <3>5. QED
      BY <3>1, <3>2, <3>3, <3>4
  <2>5. CopySound(p)'
    BY <2>2, <2>4 DEF CopySound
  <2>6. WorkInv(p)'
    <3>1. \A f \in todo[p] : Entry(p, f)' <=> Entry(p, f)
      BY <2>1 DEF Entry
    <3>2. \A f \in todo[p] : f = e \/ (f.item # e.item /\ ~Entry(p, f))
      BY <1>0, <2>1, FirstIsOne DEF WorkInv
    <3>3. \A f \in todo'[p] : IF Entry(p, f)' THEN mem'[p].results[f.item] = f.outcome
                                              ELSE Recordable(mem'[p], f)
      BY <2>1, <2>2, <2>4, <3>1, <3>2
    <3>4. QED
      BY <1>0, <2>2, <3>3 DEF WorkInv
  <2>7. \A r \in Run : disk'[r] = disk[r] \/ Sound(disk'[r])
    BY <1>0, <2>1, <2>4
  <2>8. QED
    BY <2>1, <2>5, <2>6, <2>7, SoundStep
<1>2. CASE LogResult(p)
  <2>1. PICK e \in todo[p] :
          /\ pc[p] \in {"log", "log_blocked"} /\ Entry(p, e)
          /\ todo' = [todo EXCEPT ![p] = @ \ {e}]
          /\ pc' = [pc EXCEPT ![p] =
                      IF todo[p] # {e}
                        THEN IF pc[p] = "log" THEN "persist" ELSE "persist_blocked"
                        ELSE AfterResults(p)]
          /\ UNCHANGED <<disk, late, mem, batch>>
    BY <1>2 DEF LogResult
  <2>2. /\ todo'[p] = todo[p] \ {e}
        /\ pc'[p] = IF todo[p] # {e}
                      THEN IF pc[p] = "log" THEN "persist" ELSE "persist_blocked"
                      ELSE AfterResults(p)
    BY <1>0, <2>1
  <2>3. /\ pc'[p] \in {"persist", "persist_blocked", "pick", "release_project", "scan"}
        /\ pc'[p] = "persist" => pc[p] = "log"
    BY <2>2 DEF AfterResults
  <2>4. WorkInv(p)'
    <3>1. \A f \in todo'[p] : Recordable(mem[p], f)
      BY <1>0, <2>1, <2>2, FirstIsOne DEF WorkInv
    <3>2. QED
      BY <1>0, <2>1, <2>2, <2>3, <3>1 DEF WorkInv
  <2>5. pc'[p] \in Holding \ {"mkdir", "create", "save_review", "event_review", "review"}
    BY <2>3, PcNames
  <2>6. QED
    BY <1>0, <2>1, <2>4, <2>5, KeepsCopy DEF Same
<1>3. QED
  BY <1>1, <1>2

\* The review and the report.
LEMMA ClosingKeepsCopies ==
  ASSUME SelfInv, NEW p \in Proc, Frame(p), AfterRunReady(p) \/ Review(p) \/ WriteReport(p)
  PROVE  SoundInv'
<1> USE DEF storeVars, leaseVars, history, Goto, Step, Hold
<1>0. /\ pc \in [Proc -> Pc] /\ mem \in [Proc -> RunState \cup {None}]
      /\ CopySound(p) /\ WorkInv(p)
  BY DEF SelfInv, TypeInv, TypeOK, SoundInv
<1>1. CASE AfterRunReady(p)
  <2>1. /\ pc[p] = "ran" /\ pc[p] \in Holding /\ mem[p] \in RunState
        /\ UNCHANGED <<disk, late, batch, todo>>
    BY <1>1, HolderFacts, PcNames DEF AfterRunReady, SelfInv
  <2>2. CASE ReviewDue(p) /\ ~mem[p].reviewed
    <3>1. mem'[p] = AppendCompletion(mem[p], job[p].config) /\ pc'[p] = "save_review"
      BY <1>0, <1>1, <2>2 DEF AfterRunReady
    <3>2. Sound(mem'[p]) /\ mem'[p].reviewed = TRUE
      <4>1. Sound(mem[p]) /\ BaseWorkSucceeded(mem[p]) /\ ~mem[p].plan.explicit
        BY <1>0, <2>1, <2>2 DEF ReviewDue, CopySound
      <4>2. /\ Sound(AppendCompletion(mem[p], job[p].config))
            /\ AppendCompletion(mem[p], job[p].config).reviewed = TRUE
        BY <2>1, <4>1, ReviewIsSound
      <4>3. QED
        BY <3>1, <4>2
    <3>3. CopySound(p)'
      BY <3>1, <3>2 DEF CopySound
    <3>4. WorkInv(p)'
      BY <1>0, <2>1, <3>1 DEF WorkInv
    <3>5. QED
      BY <2>1, <3>3, <3>4, SoundStep
  <2>3. CASE ~(ReviewDue(p) /\ ~mem[p].reviewed)
    <3>1. /\ mem' = mem /\ pc'[p] \in {"review", "report"}
          /\ pc'[p] = "review" => mem[p].reviewed
      BY <1>0, <1>1, <2>3 DEF AfterRunReady
    <3>2. WorkInv(p)'
      BY <1>0, <2>1, <3>1 DEF WorkInv
    <3>3. pc'[p] \in Holding \ {"mkdir", "create", "save_review", "event_review"}
      BY <3>1, PcNames
    <3>4. QED
      BY <2>1, <3>1, <3>2, <3>3, KeepsCopy DEF Same
  <2>4. QED
    BY <2>2, <2>3
<1>2. CASE Review(p)
  <2>1. /\ pc[p] = "review" /\ pc'[p] \in {"scan", "report"}
        /\ UNCHANGED <<disk, late, mem, batch, todo>>
    BY <1>0, <1>2 DEF Review
  <2>2. WorkInv(p)'
    BY <1>0, <2>1 DEF WorkInv
  <2>3. pc'[p] \in Holding \ {"mkdir", "create", "save_review", "event_review", "review"}
    BY <2>1, PcNames
  <2>4. QED
    BY <2>1, <2>2, <2>3, KeepsCopy, PcNames DEF Same
<1>3. CASE WriteReport(p)
  BY <1>0, <1>3, LeavesCopy DEF WriteReport
<1>4. QED
  BY <1>1, <1>2, <1>3

\* What an interrupted save still writes is what it was given.
LEMMA PendingIsSound ==
  ASSUME SelfInv, NEW p \in Proc, NEW s \in PendingWrites(p)
  PROVE  Sound(s)
<1>1. CopySound(p) /\ WorkInv(p) /\ todo[p] \subseteq Result
  BY DEF SelfInv, SoundInv, TypeInv, TypeOK
<1>2. CASE pc[p] \in DOMAIN AfterSave
  BY <1>1, <1>2, AfterSavePc DEF PendingWrites, CopySound
<1>3. CASE pc[p] \notin DOMAIN AfterSave
  <2>1. PICK e \in todo[p] : pc[p] \in Persisting /\ s = WithResult(mem[p], e.item, e.outcome)
    BY <1>3 DEF PendingWrites
  <2>2. pc[p] \in Holding /\ mem[p] \in RunState
    BY <2>1, PcNames, HolderFacts DEF Persisting, SelfInv
  <2>3. Sound(mem[p]) /\ Recordable(mem[p], e)
    BY <1>1, <2>1, <2>2 DEF CopySound, WorkInv, Persisting
  <2>4. QED
    BY <1>1, <2>1, <2>2, <2>3, ResultIsSound
<1>4. QED
  BY <1>2, <1>3

\* The end of a command, however it comes, and the write that comes after it.
LEMMA EndsKeepCopies ==
  ASSUME SelfInv, NEW p \in Proc, Frame(p),
         Exit(p) \/ Interrupt(p) \/ Kill(p) \/ LateWrite(p)
  PROVE  SoundInv'
<1> USE DEF storeVars, leaseVars, history, Goto, Forget
<1>0. /\ pc \in [Proc -> Pc] /\ todo \in [Proc -> SUBSET Result]
      /\ late \in [Proc -> RunState \cup {None}] /\ disk \in [Run -> RunState \cup {None}]
      /\ late[p] # None => pc[p] \in {"unwind", "draining"} /\ Sound(late[p])
  BY DEF SelfInv, TypeInv, TypeOK, CommandsHaveState, SoundInv
<1>1. CASE Exit(p)
  BY <1>0, <1>1, LeavesCopy DEF Exit
<1>2. CASE Interrupt(p)
  <2>1. PICK s \in {None} \cup PendingWrites(p) : late' = [late EXCEPT ![p] = s]
    BY <1>2 DEF Interrupt
  <2>2. late'[p] = None \/ Sound(late'[p])
    BY <1>0, <2>1, PendingIsSound
  <2>3. QED
    BY <1>0, <1>2, <2>2, LeavesCopy DEF Interrupt
<1>3. CASE Kill(p)
  BY <1>0, <1>3, LeavesCopy DEF Kill
<1>4. CASE LateWrite(p)
  <2>1. /\ disk' = [disk EXCEPT ![RunOf(p)] = late[p]] /\ Sound(late[p])
        /\ late'[p] = None /\ todo'[p] = todo[p]
        /\ pc'[p] \in {"idle", "unwind"}
    BY <1>0, <1>4 DEF LateWrite
  <2>2. \A r \in Run : disk'[r] = disk[r] \/ Sound(disk'[r])
    BY <1>0, <2>1
  <2>3. CopySound(p)' /\ WorkInv(p)'
    BY <2>1, PcNames DEF CopySound, WorkInv, SelfInv, SoundInv
  <2>4. QED
    BY <2>1, <2>2, <2>3, SoundStep
<1>5. QED
  BY <1>1, <1>2, <1>3, <1>4

\* Every step is one of a process, and framed.
LEMMA StepsOfProcesses ==
  ASSUME TypeInv, [Next]_vars, ~UNCHANGED vars
  PROVE  \E p \in Proc : /\ Frame(p)
                         /\ StartCommand(p) \/ Work(p) \/ Interrupt(p) \/ Kill(p)
  BY StepsAreFramed DEF Next

LEMMA SelfInvStep ==
  ASSUME SelfInv, [Next]_vars
  PROVE  SelfInv'
<1>1. CASE UNCHANGED vars
  BY <1>1 DEF SelfInv, TypeInv, TypeOK, CommandsHaveState, LeaseInv, WriterAtWork, AtWork,
     SoundInv, CopySound, WorkInv, Entry, vars, storeVars, leaseVars, procVars, history
<1>2. CASE ~UNCHANGED vars
  <2>1. PICK p \in Proc : /\ Frame(p)
                          /\ StartCommand(p) \/ Work(p) \/ Interrupt(p) \/ Kill(p)
    BY <1>2, StepsOfProcesses DEF SelfInv
  <2>2. TypeInv'
    BY <2>1, TypeStep DEF SelfInv
  <2>3. LeaseInv'
    BY <2>1, QuietSteps, TurnSteps, StopSteps DEF SelfInv, Work
  <2>4. SoundInv'
    BY <2>1, CommandsKeepCopies, CheckpointsKeepCopies, IterationsKeepCopies, TurnsKeepCopies,
       RecordingKeepsCopies, ClosingKeepsCopies, EndsKeepCopies DEF Work
  <2>5. QED
    BY <2>2, <2>3, <2>4 DEF SelfInv
<1>3. QED
  BY <1>1, <1>2

\* Nothing exists and nobody is busy at first.
LEMMA SelfInvInit == Init => SelfInv
<1> SUFFICES ASSUME Init PROVE SelfInv
  OBVIOUS
<1>1. TypeInv
  BY TypeInvInit
<1>2. LeaseInv
  BY DEF Init, LeaseInv, WriterAtWork, AtWork
<1>3. SoundInv
  BY PcNames DEF Init, SoundInv, CopySound, WorkInv
<1>4. QED
  BY <1>1, <1>2, <1>3 DEF SelfInv

LEMMA SelfInvariance == Spec => []SelfInv
<1>1. SelfInv /\ [Next]_vars => SelfInv'
  BY SelfInvStep
<1>2. QED
  BY <1>1, SelfInvInit, PTL DEF Spec

(***************************************************************************)
(* Scheduler.run_ready records only what its dependencies explain, and no  *)
(* interrupt, kill, adoption or write of a cancelled save's thread puts    *)
(* anything else on disk: what is there is explained, be it older.         *)
(***************************************************************************)
THEOREM OutcomesAreExplained == Spec => []OutcomesFollowDependencies
<1>1. ASSUME SelfInv
      PROVE  OutcomesFollowDependencies
  <2> SUFFICES ASSUME NEW r \in Run, Stored(r), NEW i \in WorkItems(disk[r])
               PROVE  LET outcomes == {disk[r].results[d] : d \in Dependencies(disk[r], i)} IN
                      /\ disk[r].results[i] \in {"succeeded", "failed"} =>
                           outcomes \subseteq {"succeeded"}
                      /\ disk[r].results[i] = "blocked" =>
                           outcomes \cap {"failed", "blocked"} # {}
    BY DEF OutcomesFollowDependencies
  <2>1. Sound(disk[r])
    BY <1>1 DEF SelfInv, SoundInv, Stored
  <2>2. QED
    BY <2>1 DEF Sound, Succeeded
<1>2. QED
  BY <1>1, SelfInvariance, PTL

-----------------------------------------------------------------------------
(* Under which routes and approvals.                                       *)

\* Unfinished work is routed by the configuration whose digest the run bears.
Routed(s) == \A i \in Item : s.results[i] = "none" => s.routes[i] = s.digest

StoreRoutes(r) == disk[r] # None => Routed(disk[r]) /\ disk[r].approvals \subseteq granted[r]

\* Only resume and report meet another digest; what runs has passed its check.
CopyRoutes(p) ==
  /\ pc[p] \in Holding =>
       /\ Routed(mem[p])
       /\ mem[p].approvals \subseteq granted[RunOf(p)]
       /\ pc[p] \notin {"resume", "report"} => mem[p].digest = job[p].config
  /\ pc[p] = "turn" => \A i \in batch[p] : RequireDispatchable(mem[p], i)

\* What a cancelled save has been given.
LateRoutes(p) ==
  late[p] # None => Routed(late[p]) /\ late[p].approvals \subseteq granted[RunOf(p)]

KnownRoutes == /\ \A r \in Run : StoreRoutes(r)
               /\ \A p \in Proc : CopyRoutes(p)

RouteInv == KnownRoutes /\ \A p \in Proc : LateRoutes(p)

\* Two states whose routes and approvals say the same.
SameRoutes(s, t) ==
  /\ s.routes = t.routes /\ s.digest = t.digest /\ s.approvals = t.approvals
  /\ s.results = t.results

LEMMA KeepRoutes ==
  ASSUME NEW s \in RunState
  PROVE  \A st : /\ SameRoutes(WithStatus(s, st), s)
                 /\ Routed(WithStatus(s, st)) <=> Routed(s)
                 /\ \A i : RequireDispatchable(WithStatus(s, st), i) <=> RequireDispatchable(s, i)
<1> SUFFICES ASSUME NEW st
             PROVE  /\ SameRoutes(WithStatus(s, st), s)
                    /\ Routed(WithStatus(s, st)) <=> Routed(s)
                    /\ \A i : RequireDispatchable(WithStatus(s, st), i) <=> RequireDispatchable(s, i)
  OBVIOUS
<1>1. SameRoutes(WithStatus(s, st), s)
  BY DEF RunState, WithStatus, SameRoutes
<1>2. QED
  BY <1>1 DEF SameRoutes, Routed, RequireDispatchable, Fingerprint

\* A step keeps the rest when it keeps the run and the copy it is about.
LEMMA RouteStep ==
  ASSUME SelfInv, RouteInv, NEW p \in Proc, Frame(p), CopyRoutes(p)',
         pc[p] # "idle" => \A r \in Run : r = RunOf(p) => StoreRoutes(r)'
  PROVE  KnownRoutes'
<1>1. ASSUME NEW r \in Run
      PROVE  StoreRoutes(r)'
  BY DEF Frame, RouteInv, KnownRoutes, StoreRoutes
<1>2. ASSUME NEW q \in Proc, q # p
      PROVE  CopyRoutes(q)'
  <2>1. /\ pc'[q] = pc[q] /\ mem'[q] = mem[q] /\ batch'[q] = batch[q] /\ job'[q] = job[q]
        /\ pc[q] \in Holding => granted[RunOf(q)] \subseteq granted'[RunOf(q)]
    BY <1>2, HolderFacts DEF Frame, SelfInv
  <2>2. CopyRoutes(q)
    BY DEF RouteInv, KnownRoutes
  <2>3. QED
    BY <2>1, <2>2, PcNames DEF CopyRoutes, RunOf
<1>3. QED
  BY <1>1, <1>2 DEF KnownRoutes

\* Most steps neither write nor approve, and leave the routes they hold.
LEMMA QuietRoutes ==
  ASSUME SelfInv, RouteInv, NEW p \in Proc, Frame(p), UNCHANGED <<disk, granted>>,
         \/ pc'[p] \notin Holding
         \/ /\ pc[p] \in Holding /\ job' = job /\ SameRoutes(mem'[p], mem[p])
            /\ pc[p] \in {"resume", "report"} => mem[p].digest = job[p].config
            /\ pc'[p] = "turn" => \A i \in batch'[p] : RequireDispatchable(mem[p], i)
  PROVE  KnownRoutes'
<1>1. \A r \in Run : StoreRoutes(r)'
  BY DEF RouteInv, KnownRoutes, StoreRoutes
<1>2. CopyRoutes(p)'
  <2>1. CopyRoutes(p)
    BY DEF RouteInv, KnownRoutes
  <2>2. CASE pc'[p] \notin Holding
    BY <2>2, PcNames DEF CopyRoutes
  <2>3. CASE /\ pc[p] \in Holding /\ job' = job /\ SameRoutes(mem'[p], mem[p])
             /\ pc[p] \in {"resume", "report"} => mem[p].digest = job[p].config
             /\ pc'[p] = "turn" => \A i \in batch'[p] : RequireDispatchable(mem[p], i)
    BY <2>1, <2>3 DEF CopyRoutes, SameRoutes, Routed, RequireDispatchable, Fingerprint, RunOf
  <2>4. QED
    BY <2>2, <2>3
<1>3. QED
  BY <1>1, <1>2, RouteStep

\* From a command's start to the scheduler.
LEMMA CommandsKeepRoutes ==
  ASSUME SelfInv, RouteInv, NEW p \in Proc, Frame(p),
         \/ StartCommand(p) \/ Prepare(p) \/ CreateDirectory(p) \/ Created(p)
         \/ Load(p) \/ RecordApproval(p) \/ Resume(p) \/ Validate(p)
  PROVE  KnownRoutes'
<1> USE DEF storeVars, leaseVars, history, Goto, Step, Hold
<1>0. /\ pc \in [Proc -> Pc] /\ mem \in [Proc -> RunState \cup {None}]
      /\ job \in [Proc -> Job \cup {None}]
      /\ granted \in [Run -> SUBSET Approval]
      /\ disk \in [Run -> RunState \cup {None}]
      /\ pc[p] # "idle" => job[p] \in Job /\ RunOf(p) \in Run
      /\ pc[p] \in Holding => mem[p] \in RunState
      /\ CopyRoutes(p) /\ \A r \in Run : StoreRoutes(r)
  BY HolderFacts DEF SelfInv, TypeInv, TypeOK, CommandsHaveState, RunOf, Job, RouteInv, KnownRoutes
<1>1. CASE StartCommand(p)
  <2>1. pc'[p] \in {"prepare", "load"} /\ UNCHANGED <<disk, granted>>
    BY <1>0, <1>1 DEF StartCommand
  <2>2. QED
    BY <2>1, QuietRoutes, PcNames
<1>2. CASE Prepare(p)
  <2>1. PICK plan \in Plans :
          /\ pc[p] = "prepare" /\ pc'[p] = "mkdir" /\ mem'[p] = NewRun(plan, job[p].config)
          /\ UNCHANGED <<disk, granted, job>>
    BY <1>0, <1>2 DEF Prepare
  <2>2. CopyRoutes(p)'
    BY <2>1 DEF CopyRoutes, NewRun, Routed
  <2>3. \A r \in Run : StoreRoutes(r)'
    BY <1>0, <2>1 DEF StoreRoutes
  <2>4. QED
    BY <2>2, <2>3, RouteStep
<1>3. CASE CreateDirectory(p) \/ Created(p) \/ Validate(p)
  <2>1. /\ pc[p] \in {"mkdir", "created", "validate"} /\ pc'[p] # "turn"
        /\ mem' = mem /\ UNCHANGED <<disk, granted, job>>
    BY <1>0, <1>3 DEF CreateDirectory, Created, Validate
  <2>2. QED
    BY <2>1, QuietRoutes, PcNames DEF SameRoutes
<1>4. CASE Load(p)
  <2>1. /\ pc[p] = "load" /\ UNCHANGED <<disk, granted, job, batch>>
        /\ job[p].cmd \in Command
    BY <1>0, <1>4, PcNames DEF Load, Job
  <2>2. CASE ~Loadable(p)
    <3>1. pc'[p] = "unwind"
      BY <1>0, <1>4, <2>2 DEF Load
    <3>2. QED
      BY <2>1, <3>1, QuietRoutes, PcNames
  <2>3. CASE Loadable(p)
    <3>1. /\ disk[RunOf(p)] # None /\ mem'[p] = disk[RunOf(p)]
          /\ pc'[p] = AfterLoad[job[p].cmd]
          /\ disk[RunOf(p)].digest # job[p].config =>
               job[p].cmd \in {"resume-acknowledged", "report"}
      BY <1>0, <1>4, <2>1, <2>3 DEF Load, Loadable
    <3>2. /\ pc'[p] \in {"approve", "report", "resume"}
          /\ job[p].cmd \in {"resume-acknowledged", "report"} => pc'[p] \in {"report", "resume"}
      BY <2>1, <3>1 DEF AfterLoad
    <3>3. RunOf(p) \in Run
      BY <1>0, <2>1
    <3>4. CopyRoutes(p)'
      BY <1>0, <2>1, <3>1, <3>2, <3>3 DEF CopyRoutes, StoreRoutes, RunOf
    <3>5. \A r \in Run : StoreRoutes(r)'
      BY <1>0, <2>1 DEF StoreRoutes
    <3>6. QED
      BY <3>4, <3>5, RouteStep
  <2>4. QED
    BY <2>2, <2>3
<1>5. CASE RecordApproval(p)
  <2>1. PICK i \in WorkItems(mem[p]) :
          /\ pc[p] = "approve" /\ pc'[p] = "save_approval"
          /\ mem'[p] = Approve(mem[p], i)
          /\ granted' = [granted EXCEPT ![RunOf(p)] = @ \cup {Fingerprint(mem[p], i)}]
          /\ UNCHANGED <<disk, job>>
    BY <1>0, <1>5 DEF RecordApproval
  <2>2. /\ mem[p] \in RunState /\ RunOf(p) \in Run /\ RunOf(p)' = RunOf(p)
        /\ granted'[RunOf(p)] = granted[RunOf(p)] \cup {Fingerprint(mem[p], i)}
    BY <1>0, <2>1, PcNames DEF RunOf
  <2>3. /\ Approve(mem[p], i).routes = mem[p].routes
        /\ Approve(mem[p], i).digest = mem[p].digest
        /\ Approve(mem[p], i).results = mem[p].results
        /\ Approve(mem[p], i).approvals \subseteq mem[p].approvals \cup {Fingerprint(mem[p], i)}
    BY <2>2 DEF Approve, RunState
  <2>4. CopyRoutes(p)'
    BY <1>0, <2>1, <2>2, <2>3, PcNames DEF CopyRoutes, Routed
  <2>5. \A r \in Run : r = RunOf(p) => StoreRoutes(r)'
    BY <1>0, <2>1, <2>2 DEF StoreRoutes
  <2>6. QED
    BY <2>4, <2>5, RouteStep
<1>6. CASE Resume(p)
  <2>1. pc[p] = "resume" /\ UNCHANGED <<disk, granted, job>> /\ mem[p] \in RunState
    BY <1>0, <1>6, PcNames DEF Resume
  <2>2. CASE mem[p].digest = job[p].config
    <3>1. mem' = mem /\ pc'[p] = "validate"
      BY <1>0, <1>6, <2>2 DEF Resume
    <3>2. QED
      BY <2>1, <2>2, <3>1, QuietRoutes, PcNames DEF SameRoutes
  <2>3. CASE mem[p].digest # job[p].config
    <3>1. /\ mem'[p] = AdoptCurrentConfiguration(mem[p], job[p].config)
          /\ pc'[p] = "save_config"
      BY <1>0, <1>6, <2>3 DEF Resume
    <3>2. CopyRoutes(p)'
      BY <2>1, <3>1, PcNames DEF CopyRoutes, AdoptCurrentConfiguration, RunState, Routed
    <3>3. \A r \in Run : StoreRoutes(r)'
      BY <1>0, <2>1 DEF StoreRoutes
    <3>4. QED
      BY <3>2, <3>3, RouteStep
  <2>4. QED
    BY <2>2, <2>3
<1>7. QED
  BY <1>1, <1>2, <1>3, <1>4, <1>5, <1>6

\* The scheduler, its checkpoints, and the end of a command.
LEMMA WorkKeepsRoutes ==
  ASSUME SelfInv, RouteInv, NEW p \in Proc, Frame(p),
         \/ Save(p) \/ AppendEvent(p) \/ Scan(p) \/ PersistResult(p) \/ LogResult(p)
         \/ EndOfLoop(p) \/ PickWriter(p) \/ DispatchReaders(p) \/ DispatchWriter(p)
         \/ ProjectBusy(p) \/ TurnSucceeds(p) \/ TurnFails(p) \/ ReleaseProject(p)
         \/ Conclude(p) \/ AfterRunReady(p) \/ Review(p)
  PROVE  KnownRoutes'
<1> USE DEF storeVars, leaseVars, history, Goto, Step, Hold
<1>0. /\ pc \in [Proc -> Pc] /\ mem \in [Proc -> RunState \cup {None}]
      /\ batch \in [Proc -> SUBSET Item] /\ disk \in [Run -> RunState \cup {None}]
      /\ CopyRoutes(p) /\ \A r \in Run : StoreRoutes(r)
      /\ pc[p] \in Holding \ {"resume", "report"}
      /\ mem[p] \in RunState /\ mem[p] # None /\ RunOf(p) \in Run
  <2>1. pc[p] \in Holding \ {"resume", "report"}
    <3>1. CASE Save(p) \/ AppendEvent(p)
      BY <3>1, AfterSavePc, AfterEventPc DEF Save, AppendEvent, AfterSave, AfterEvent
    <3>2. CASE ~Save(p) /\ ~AppendEvent(p)
      BY <3>2, PcNames
         DEF Scan, PersistResult, LogResult, EndOfLoop, PickWriter, DispatchReaders,
             DispatchWriter, ProjectBusy, TurnSucceeds, TurnFails, EndTurns, ReleaseProject,
             Conclude, AfterRunReady, Review, Persisting
    <3>3. QED
      BY <3>1, <3>2
  <2>2. QED
    BY <2>1, HolderFacts, NoneAssumption DEF SelfInv, TypeInv, TypeOK, RouteInv, KnownRoutes
<1>1. CASE Save(p)
  <2>1. /\ disk'[RunOf(p)] = mem[p] /\ UNCHANGED <<mem, job, granted>>
        /\ pc'[p] = AfterSave[pc[p]] /\ pc[p] \in DOMAIN AfterSave
    BY <1>0, <1>1 DEF Save
  <2>2. pc'[p] # "turn"
    BY <2>1 DEF AfterSave
  <2>3. CopyRoutes(p)'
    BY <1>0, <2>1, <2>2 DEF CopyRoutes, RunOf
  <2>4. \A r \in Run : r = RunOf(p) => StoreRoutes(r)'
    BY <1>0, <2>1 DEF StoreRoutes, CopyRoutes
  <2>5. QED
    BY <2>3, <2>4, RouteStep
<1>2. CASE AppendEvent(p)
  <2>1. /\ mem' = mem /\ UNCHANGED <<disk, granted, job>> /\ batch'[p] = {}
    BY <1>0, <1>2 DEF AppendEvent
  <2>2. QED
    BY <1>0, <2>1, QuietRoutes DEF SameRoutes
<1>3. CASE PersistResult(p)
  <2>1. PICK e \in todo[p] :
          /\ mem'[p] = WithResult(mem[p], e.item, e.outcome)
          /\ disk'[RunOf(p)] = WithResult(mem[p], e.item, e.outcome)
          /\ pc'[p] \in {"log", "log_blocked"}
          /\ UNCHANGED <<job, granted>>
    BY <1>0, <1>3 DEF PersistResult
  <2>2. e.outcome # "none" /\ e.item \in Item
    BY DEF SelfInv, TypeInv, TypeOK, Result, Outcome
  <2>3. /\ WithResult(mem[p], e.item, e.outcome).routes = mem[p].routes
        /\ WithResult(mem[p], e.item, e.outcome).digest = mem[p].digest
        /\ WithResult(mem[p], e.item, e.outcome).approvals = mem[p].approvals
        /\ \A i \in Item : WithResult(mem[p], e.item, e.outcome).results[i] = "none" =>
             mem[p].results[i] = "none"
    BY <1>0, <2>2 DEF WithResult, RunState
  <2>4. Routed(WithResult(mem[p], e.item, e.outcome))
    BY <1>0, <2>3 DEF CopyRoutes, Routed
  <2>5. CopyRoutes(p)'
    BY <1>0, <2>1, <2>3, <2>4 DEF CopyRoutes, RunOf
  <2>6. \A r \in Run : r = RunOf(p) => StoreRoutes(r)'
    BY <1>0, <2>1, <2>3, <2>4 DEF StoreRoutes, CopyRoutes
  <2>7. QED
    BY <2>5, <2>6, RouteStep
<1>4. CASE \/ Scan(p) \/ LogResult(p) \/ EndOfLoop(p) \/ ProjectBusy(p) \/ ReleaseProject(p)
           \/ Review(p)
  <2>1. mem' = mem /\ UNCHANGED <<disk, granted, job>> /\ pc'[p] # "turn"
    BY <1>0, <1>4
       DEF Scan, LogResult, EndOfLoop, ProjectBusy, ReleaseProject, Review, AfterResults
  <2>2. QED
    BY <1>0, <2>1, QuietRoutes DEF SameRoutes
<1>5. CASE PickWriter(p) \/ Conclude(p)
  <2>1. /\ \E st : mem'[p] \in {mem[p], WithStatus(mem[p], st)}
        /\ UNCHANGED <<disk, granted, job>> /\ pc'[p] # "turn"
    BY <1>0, <1>5 DEF PickWriter, Conclude
  <2>2. SameRoutes(mem'[p], mem[p])
    BY <1>0, <2>1, KeepRoutes DEF SameRoutes
  <2>3. QED
    BY <1>0, <2>1, <2>2, QuietRoutes
<1>6. CASE DispatchReaders(p)
  <2>1. /\ mem'[p] = WithStatus(mem[p], "running")
        /\ UNCHANGED <<disk, granted, job>>
        /\ batch'[p] = ReadBatch(Dispatchable(mem[p]))
    BY <1>0, <1>6 DEF DispatchReaders
  <2>2. \A i \in batch'[p] : RequireDispatchable(mem[p], i)
    BY <2>1 DEF ReadBatch, Dispatchable
  <2>3. QED
    BY <1>0, <2>1, <2>2, KeepRoutes, QuietRoutes
<1>7. CASE DispatchWriter(p)
  <2>1. /\ mem'[p] = WithStatus(mem[p], "running")
        /\ UNCHANGED <<disk, granted, job, batch>>
        /\ \A i \in batch[p] : RequireDispatchable(mem[p], i)
    BY <1>0, <1>7 DEF DispatchWriter
  <2>2. QED
    BY <1>0, <2>1, KeepRoutes, QuietRoutes
<1>8. CASE TurnSucceeds(p) \/ TurnFails(p)
  <2>1. /\ mem' = mem /\ UNCHANGED <<disk, granted, job>> /\ pc[p] = "turn"
        /\ batch'[p] \subseteq batch[p]
    BY <1>0, <1>8 DEF TurnSucceeds, TurnFails, EndTurns
  <2>2. \A i \in batch'[p] : RequireDispatchable(mem[p], i)
    BY <1>0, <2>1 DEF CopyRoutes
  <2>3. QED
    BY <1>0, <2>1, <2>2, QuietRoutes DEF SameRoutes
<1>9. CASE AfterRunReady(p)
  <2>1. pc[p] = "ran" /\ UNCHANGED <<disk, granted, job>> /\ pc'[p] # "turn"
    BY <1>0, <1>9 DEF AfterRunReady
  <2>2. CASE mem' = mem
    BY <1>0, <2>1, <2>2, QuietRoutes DEF SameRoutes
  <2>3. CASE mem'[p] = AppendCompletion(mem[p], job[p].config)
    <3>1. /\ mem'[p].digest = mem[p].digest /\ mem'[p].approvals = mem[p].approvals
          /\ mem'[p].results = mem[p].results
          /\ mem'[p].routes = [mem[p].routes EXCEPT ![Completion] = job[p].config]
      BY <1>0, <2>3 DEF AppendCompletion, RunState
    <3>2. CopyRoutes(p)'
      BY <1>0, <2>1, <3>1 DEF CopyRoutes, Routed, RunOf, RunState
    <3>3. \A r \in Run : StoreRoutes(r)'
      BY <1>0, <2>1 DEF StoreRoutes
    <3>4. QED
      BY <3>2, <3>3, RouteStep
  <2>4. QED
    BY <1>0, <1>9, <2>2, <2>3 DEF AfterRunReady
<1>10. QED
  BY <1>1, <1>2, <1>3, <1>4, <1>5, <1>6, <1>7, <1>8, <1>9

\* What a thread that outlived its command has yet to write is routed as it was.
LEMMA LateRoutesStay ==
  ASSUME SelfInv, RouteInv, NEW p \in Proc, Frame(p),
         StartCommand(p) \/ Work(p) \/ Interrupt(p) \/ Kill(p)
  PROVE  \A q \in Proc : LateRoutes(q)'
<1>0. /\ pc \in [Proc -> Pc] /\ late \in [Proc -> RunState \cup {None}]
      /\ job \in [Proc -> Job \cup {None}] /\ todo \in [Proc -> SUBSET Result]
      /\ \A q \in Proc : /\ pc[q] # "idle" => RunOf(q) \in Run
                         /\ late[q] # None => pc[q] \in {"unwind", "draining"}
                         /\ LateRoutes(q)
  BY DEF SelfInv, TypeInv, TypeOK, CommandsHaveState, RunOf, Job, RouteInv
<1>1. ASSUME NEW q \in Proc, late'[q] = late[q], job'[q] = job[q]
      PROVE  LateRoutes(q)'
  <2>1. SUFFICES ASSUME late[q] # None
                 PROVE  Routed(late'[q]) /\ late'[q].approvals \subseteq granted'[RunOf(q)']
    BY <1>1 DEF LateRoutes
  <2>2. RunOf(q)' = RunOf(q) /\ RunOf(q) \in Run
    <3>1. pc[q] # "idle"
      BY <1>0, <2>1
    <3>2. QED
      BY <1>0, <1>1, <3>1 DEF RunOf
  <2>3. granted[RunOf(q)] \subseteq granted'[RunOf(q)]
    BY <2>2 DEF Frame
  <2>4. Routed(late[q]) /\ late[q].approvals \subseteq granted[RunOf(q)]
    BY <1>0, <2>1 DEF LateRoutes
  <2>5. QED
    BY <1>1, <2>2, <2>3, <2>4
<1>2. CASE Interrupt(p)
  <2>1. PICK s \in {None} \cup PendingWrites(p) :
          late'[p] = s /\ UNCHANGED <<job, granted>>
    BY <1>0, <1>2 DEF Interrupt, storeVars, leaseVars
  <2>2. ASSUME s \in PendingWrites(p)
        PROVE  Routed(s) /\ s.approvals \subseteq granted[RunOf(p)]
    <3>1. pc[p] \in Holding /\ mem[p] \in RunState /\ CopyRoutes(p)
      <4>1. pc[p] \in Holding
        BY <2>2, AfterSavePc, PcNames DEF PendingWrites, Persisting
      <4>2. QED
        BY <4>1, HolderFacts DEF SelfInv, RouteInv, KnownRoutes
    <3>2. CASE s = mem[p]
      BY <3>1, <3>2 DEF CopyRoutes
    <3>3. CASE \E e \in todo[p] : s = WithResult(mem[p], e.item, e.outcome)
      <4>1. PICK e \in todo[p] : s = WithResult(mem[p], e.item, e.outcome)
        BY <3>3
      <4>2. e.outcome # "none" /\ e.item \in Item
        BY <1>0 DEF Result, Outcome
      <4>3. /\ s.routes = mem[p].routes /\ s.digest = mem[p].digest
            /\ s.approvals = mem[p].approvals
            /\ \A i \in Item : s.results[i] = "none" => mem[p].results[i] = "none"
        BY <3>1, <4>1, <4>2 DEF WithResult, RunState
      <4>4. QED
        BY <3>1, <4>3 DEF CopyRoutes, Routed
    <3>4. QED
      BY <2>2, <3>2, <3>3 DEF PendingWrites
  <2>3. LateRoutes(p)'
    BY <2>1, <2>2 DEF LateRoutes, RunOf
  <2>4. QED
    BY <1>1, <2>3 DEF Frame
<1>3. CASE ~Interrupt(p)
  <2>1. late'[p] = None \/ (late'[p] = late[p] /\ job'[p] = job[p])
    <3>1. CASE Exit(p) \/ LateWrite(p) \/ Kill(p) \/ StartCommand(p)
      BY <1>0, <3>1 DEF Exit, LateWrite, Kill, StartCommand
    <3>2. CASE Work(p) /\ ~Exit(p) /\ ~LateWrite(p)
      BY <3>2 DEF Work, Save, AppendEvent, Prepare, CreateDirectory, Created, Load,
         RecordApproval, Resume, Validate, Scan, PersistResult, LogResult, EndOfLoop, PickWriter,
         DispatchReaders, DispatchWriter, ProjectBusy, TurnSucceeds, TurnFails, EndTurns,
         ReleaseProject, Conclude, AfterRunReady, Review, WriteReport, history
    <3>3. QED
      BY <1>3, <3>1, <3>2
  <2>2. LateRoutes(p)'
    BY <1>1, <2>1 DEF LateRoutes
  <2>3. QED
    BY <1>1, <2>2 DEF Frame
<1>4. QED
  BY <1>2, <1>3

\* The write of a cancelled save.
LEMMA LateWritesKeepRoutes ==
  ASSUME SelfInv, RouteInv, NEW p \in Proc, Frame(p), LateWrite(p)
  PROVE  KnownRoutes'
<1>1. /\ pc[p] \in {"unwind", "draining"} /\ pc'[p] \in {"idle", "unwind"}
      /\ RunOf(p) \in Run
  BY DEF LateWrite, Goto, SelfInv, TypeInv, TypeOK, CommandsHaveState, RunOf, Job
<1>2. disk'[RunOf(p)] = late[p] /\ granted' = granted
  BY <1>1 DEF LateWrite, SelfInv, TypeInv, TypeOK, history
<1>3. \A r \in Run : r = RunOf(p) => StoreRoutes(r)'
  BY <1>2 DEF LateWrite, RouteInv, LateRoutes, StoreRoutes
<1>4. CopyRoutes(p)'
  BY <1>1, PcNames DEF CopyRoutes
<1>5. QED
  BY <1>3, <1>4, RouteStep

\* A command that ends or is stopped leaves its copy, and nothing else.
LEMMA StopsLeave ==
  ASSUME TypeInv, NEW p \in Proc, WriteReport(p) \/ Exit(p) \/ Interrupt(p) \/ Kill(p)
  PROVE  /\ pc'[p] \in {"idle", "unwind", "draining"} /\ pc[p] # "idle"
         /\ UNCHANGED <<disk, dirs, events, granted, dispatched>>
         /\ pass'[p] \in {1, pass[p]} /\ (pass'[p] # 1 => mem'[p] = mem[p])
         /\ pc'[p] \in {"idle", "draining"} => pass'[p] = 1
         /\ Interrupt(p) \/ Kill(p) => interrupts' = interrupts + 1
         /\ Exit(p) => pc[p] = "unwind"
         /\ WriteReport(p) => pc[p] = "report"
         /\ WriteReport(p) \/ Exit(p) => interrupts' = interrupts
  BY DEF WriteReport, Exit, Interrupt, Kill, TypeInv, TypeOK, Goto, Step, Forget,
         storeVars, leaseVars, history

LEMMA RouteInvStep ==
  ASSUME SelfInv, RouteInv, [Next]_vars
  PROVE  RouteInv'
<1>1. CASE UNCHANGED vars
  BY <1>1 DEF RouteInv, KnownRoutes, StoreRoutes, CopyRoutes, LateRoutes, RunOf, vars, storeVars,
     procVars, history
<1>2. CASE ~UNCHANGED vars
  <2>1. PICK p \in Proc : /\ Frame(p)
                          /\ StartCommand(p) \/ Work(p) \/ Interrupt(p) \/ Kill(p)
    BY <1>2, StepsOfProcesses DEF SelfInv
  <2>2. \A q \in Proc : LateRoutes(q)'
    BY <2>1, LateRoutesStay
  <2>3. KnownRoutes'
    <3>1. CASE WriteReport(p) \/ Exit(p) \/ Interrupt(p) \/ Kill(p)
      BY <2>1, <3>1, StopsLeave, QuietRoutes, PcNames DEF SelfInv
    <3>2. CASE StartCommand(p) \/ (Work(p) /\ ~WriteReport(p) /\ ~Exit(p))
      BY <2>1, <3>2, CommandsKeepRoutes, WorkKeepsRoutes, LateWritesKeepRoutes DEF Work
    <3>3. QED
      BY <2>1, <3>1, <3>2
  <2>4. QED
    BY <2>2, <2>3 DEF RouteInv
<1>3. QED
  BY <1>1, <1>2

(***************************************************************************)
(* require_dispatchable compares fingerprints of the run's own digest and  *)
(* routes; that they are those of the running command's configuration is   *)
(* what load, adoption and the appended review see to, and a late write    *)
(* puts back only what was routed and approved when it was saved.          *)
(***************************************************************************)
THEOREM TurnsAreApproved == Spec => []ApprovedUnderCurrentPolicy
<1>1. Init => RouteInv
  BY PcNames DEF Init, RouteInv, KnownRoutes, LateRoutes, StoreRoutes, CopyRoutes
<1>2. SelfInv /\ RouteInv /\ [Next]_vars => RouteInv'
  BY RouteInvStep
<1>3. ASSUME SelfInv, RouteInv
      PROVE  ApprovedUnderCurrentPolicy
  <2> SUFFICES ASSUME NEW p \in Proc, NEW i \in Item, InTurn(p, i)
               PROVE  /\ mem[p].routes[i] = job[p].config
                      /\ i \in NeedsApproval[job[p].config] =>
                           [item |-> i, digest |-> job[p].config, route |-> job[p].config]
                             \in granted[RunOf(p)]
    BY DEF ApprovedUnderCurrentPolicy
  <2>1. pc[p] = "turn" /\ pc[p] \in Holding /\ i \in batch[p]
    BY PcNames DEF InTurn
  <2>2. mem[p].results[i] = "none"
    BY <1>3, <2>1 DEF SelfInv, SoundInv, WorkInv, Ready, PendingItems
  <2>3. /\ mem[p].routes[i] = job[p].config /\ mem[p].digest = job[p].config
        /\ RequireDispatchable(mem[p], i)
        /\ mem[p].approvals \subseteq granted[RunOf(p)]
    BY <1>3, <2>1, <2>2 DEF RouteInv, KnownRoutes, CopyRoutes, Routed
  <2>4. QED
    BY <2>3 DEF RequireDispatchable, Fingerprint
<1>4. QED
  BY <1>1, <1>2, <1>3, SelfInvariance, PTL DEF Spec

-----------------------------------------------------------------------------
(* What the loop has still to do.                                          *)

\* sorted(): a list of items that is not empty has a first one.
LEMMA SomeItemIsFirst ==
  ASSUME NEW S \in SUBSET Item, S # {}
  PROVE  \E i \in S : \A j \in S : ~(j < i)
<1> DEFINE Below(i) == {j \in S : j < i}
           Belows == {Below(i) : i \in S}
<1>0. IsFiniteSet(S) /\ S \subseteq Nat
  <2>1. IsFiniteSet(S)
    BY ItemFinite, FS_Subset
  <2>2. Item \subseteq Nat
    BY BaseAssumption DEF Item, Completion
  <2>3. QED
    BY <2>1, <2>2
<1>1. Belows \subseteq FiniteSubsetsOf(S) /\ Belows # {}
  <2>1. \A i \in S : Below(i) \in SUBSET S
    OBVIOUS
  <2>2. \A i \in S : IsFiniteSet(Below(i))
    BY <1>0, <2>1, FS_Subset
  <2>3. QED
    BY <2>1, <2>2 DEF FiniteSubsetsOf
<1>2. IsWellFoundedOn(StrictSubsetOrdering(S), FiniteSubsetsOf(S))
  BY FS_StrictSubsetOrderingWellFounded
<1>3. PICK T \in Belows : \A U \in Belows : ~ (<<U, T>> \in StrictSubsetOrdering(S))
  <2> HIDE DEF Belows
  <2>1. QED
    BY <1>1, <1>2, WFMin
<1>4. PICK i \in S : T = Below(i)
  OBVIOUS
<1>5. ASSUME NEW j \in S, j < i
      PROVE  FALSE
  <2>1. i \in Nat /\ j \in Nat
    BY <1>0
  <2>2. j \in Below(i)
    BY <1>5
  <2>3. j \notin Below(j)
    BY <2>1
  <2>4. ASSUME NEW k \in Below(j)
        PROVE  k \in Below(i)
    BY <1>0, <1>5, <2>1
  <2>5. Below(j) \subseteq Below(i) /\ Below(j) # Below(i)
    BY <2>2, <2>3, <2>4
  <2>6. <<Below(j), Below(i)>> \in StrictSubsetOrdering(S)
    <3>1. Below(j) \in SUBSET S /\ Below(i) \in SUBSET S
      OBVIOUS
    <3> HIDE DEF Below
    <3>2. QED
      BY <2>5, <3>1 DEF StrictSubsetOrdering
  <2>7. QED
    BY <1>3, <1>4, <2>6
<1>6. QED
  BY <1>5

\* ready[: max_read_concurrency] takes at least the first.
LEMMA BatchesAreNotEmpty ==
  ASSUME NEW ready \in SUBSET Item, ready # {}
  PROVE  ReadBatch(ready) # {}
<1>1. PICK i \in ready : \A j \in ready : ~(j < i)
  BY SomeItemIsFirst
<1>2. {j \in ready : j < i} = {}
  BY <1>1
<1>3. Cardinality({j \in ready : j < i}) < MaxReaders
  BY <1>2, FS_EmptySet, MaxReadersAssumption
<1>4. QED
  BY <1>3 DEF ReadBatch

\* Pending items that this iteration leaves to the next ones.
Remaining(p) == PendingItems(mem[p]) \ AtWork(p)

LoopsOn(p) ==
  /\ pc[p] \in {"scan", "turn", "persist", "log", "release_project"} =>
       Cardinality(Remaining(p)) <= left[p]
  /\ pc[p] \in {"pick", "persist_blocked", "log_blocked", "save_planned", "acquire"} =>
       Cardinality(Remaining(p)) <= left[p] + 1
  /\ pc[p] \in {"save_planned", "acquire"} => batch[p] # {}
  /\ pc[p] = "final" => Dispatchable(mem[p]) = {}

LoopInv == \A p \in Proc : LoopsOn(p)

LEMMA LoopStep ==
  ASSUME SelfInv, LoopInv, NEW p \in Proc, Frame(p), LoopsOn(p)'
  PROVE  LoopInv'
<1> SUFFICES ASSUME NEW q \in Proc, q # p
             PROVE  LoopsOn(q)'
  BY DEF LoopInv
<1>1. /\ pc'[q] = pc[q] /\ mem'[q] = mem[q] /\ batch'[q] = batch[q] /\ left'[q] = left[q]
      /\ todo'[q] = todo[q]
  BY DEF Frame
<1>2. Remaining(q)' = Remaining(q)
  BY <1>1 DEF Remaining, AtWork
<1>3. QED
  BY <1>1, <1>2 DEF LoopInv, LoopsOn

\* Counting what is left of a list makes sense, and less of it is less.
LEMMA LessRemains ==
  ASSUME NEW S \in SUBSET Item
  PROVE  /\ Cardinality(S) \in Nat
         /\ \A T \in SUBSET S : Cardinality(T) <= Cardinality(S)
         /\ \A T \in SUBSET S : \A i \in S \ T : Cardinality(T) + 1 <= Cardinality(S)
<1>1. IsFiniteSet(S)
  BY ItemFinite, FS_Subset
<1>2. \A T \in SUBSET S : IsFiniteSet(T) /\ Cardinality(T) <= Cardinality(S)
  BY <1>1, FS_Subset
<1>3. ASSUME NEW T \in SUBSET S, NEW i \in S \ T
      PROVE  Cardinality(T) + 1 <= Cardinality(S)
  <2>1. IsFiniteSet(S \ {i}) /\ Cardinality(S \ {i}) = Cardinality(S) - 1
    BY <1>1, FS_RemoveElement
  <2>2. T \in SUBSET (S \ {i})
    OBVIOUS
  <2>3. Cardinality(T) <= Cardinality(S \ {i})
    BY <2>1, <2>2, FS_Subset
  <2>4. Cardinality(T) \in Nat /\ Cardinality(S) \in Nat
    BY <1>1, <1>2, FS_CardinalityType
  <2>5. QED
    BY <2>1, <2>3, <2>4
<1>4. QED
  BY <1>1, <1>2, <1>3, FS_CardinalityType

\* run_ready starts with an iteration for every item of the run.
LEMMA EntriesSuffice ==
  ASSUME NEW p \in Proc, mem[p] \in RunState, mem'[p] = mem[p], pc'[p] = "scan",
         left'[p] = Cardinality(WorkItems(mem[p]))
  PROVE  LoopsOn(p)'
<1>1. Remaining(p)' \subseteq WorkItems(mem[p]) /\ WorkItems(mem[p]) \subseteq Item
  BY WorkItemsType DEF Remaining, PendingItems
<1>2. Cardinality(Remaining(p)') <= Cardinality(WorkItems(mem[p]))
  BY <1>1, LessRemains
<1>3. QED
  BY <1>2 DEF LoopsOn

\* When no iteration is left, neither is a pending item.
LEMMA NothingRemains ==
  ASSUME NEW p \in Proc, PendingItems(mem[p]) \in SUBSET Item, LoopsOn(p),
         pc[p] = "scan", left[p] = 0
  PROVE  PendingItems(mem[p]) = {}
<1>1. Remaining(p) = PendingItems(mem[p])
  BY DEF Remaining, AtWork
<1>2. Cardinality(PendingItems(mem[p])) <= 0
  BY <1>1 DEF LoopsOn
<1>3. ASSUME NEW i \in PendingItems(mem[p])
      PROVE  FALSE
  <2>1. Cardinality({}) + 1 <= Cardinality(PendingItems(mem[p]))
    BY <1>3, LessRemains
  <2>2. QED
    BY <1>2, <2>1, LessRemains, FS_EmptySet
<1>4. QED
  BY <1>3

\* What run_ready leaves for later, in a step that keeps or decides pending items.
LEMMA KeepsLooping ==
  ASSUME SelfInv, LoopInv, NEW p \in Proc, Frame(p), pc[p] \in Holding, left'[p] = left[p],
         Remaining(p)' \subseteq Remaining(p),
         \/ /\ pc[p] \in {"scan", "turn", "persist", "log", "release_project"}
            /\ pc'[p] \in {"scan", "turn", "persist", "log", "release_project"}
         \/ /\ pc[p] \in {"pick", "persist_blocked", "log_blocked", "save_planned", "acquire"}
            /\ pc'[p] \in {"pick", "persist_blocked", "log_blocked", "save_planned", "acquire"}
            /\ pc'[p] \in {"save_planned", "acquire"} => batch'[p] # {}
  PROVE  LoopInv'
<1>1. mem[p] \in RunState /\ left[p] \in Nat
  BY HolderFacts DEF SelfInv, TypeInv, TypeOK
<1>2. Remaining(p) \in SUBSET Item
  BY <1>1, ScheduledItems DEF Remaining
<1>3. /\ Cardinality(Remaining(p)') <= Cardinality(Remaining(p))
      /\ Cardinality(Remaining(p)') \in Nat /\ Cardinality(Remaining(p)) \in Nat
  BY <1>2, LessRemains
<1>4. LoopsOn(p)'
  BY <1>1, <1>3 DEF LoopInv, LoopsOn
<1>5. QED
  BY <1>4, LoopStep

\* A step of the loop uses up an iteration only with an item, or to end.
LEMMA IterationsSuffice ==
  ASSUME SelfInv, LoopInv, NEW p \in Proc, Frame(p),
         \/ Scan(p) \/ PersistResult(p) \/ LogResult(p) \/ EndOfLoop(p) \/ PickWriter(p)
         \/ DispatchReaders(p) \/ DispatchWriter(p) \/ TurnSucceeds(p) \/ TurnFails(p)
         \/ ReleaseProject(p)
  PROVE  LoopInv'
<1> USE DEF storeVars, leaseVars, history, Goto, Step, Hold
<1>0. /\ pc \in [Proc -> Pc] /\ mem \in [Proc -> RunState \cup {None}]
      /\ batch \in [Proc -> SUBSET Item] /\ todo \in [Proc -> SUBSET Result]
      /\ left \in [Proc -> Nat] /\ pc[p] \in Holding
      /\ mem[p] \in RunState /\ WorkInv(p) /\ LoopsOn(p)
      /\ pc[p] \in {"persist", "log"} => batch[p] = {}
      /\ PendingItems(mem[p]) \in SUBSET Item
  <2>1. pc[p] \in Holding
    BY PcNames
       DEF Scan, PersistResult, LogResult, EndOfLoop, PickWriter, DispatchReaders,
           DispatchWriter, TurnSucceeds, TurnFails, EndTurns, ReleaseProject, Persisting
  <2>2. QED
    BY <2>1, HolderFacts, ScheduledItems DEF SelfInv, TypeInv, TypeOK, SoundInv, WorkInv, LoopInv
<1>1. CASE Scan(p)
  <2>1. /\ pc[p] = "scan" /\ left[p] > 0 /\ left'[p] = left[p] - 1 /\ mem' = mem
        /\ pc'[p] \in {"pick", "persist_blocked"}
    BY <1>0, <1>1 DEF Scan
  <2>2. Remaining(p)' = Remaining(p)
    BY <2>1 DEF Remaining, AtWork
  <2>3. Cardinality(Remaining(p)') <= left'[p] + 1
    BY <1>0, <2>1, <2>2 DEF LoopsOn
  <2>4. LoopsOn(p)'
    BY <2>1, <2>3 DEF LoopsOn
  <2>5. QED
    BY <2>4, LoopStep
<1>2. CASE PersistResult(p)
  <2>1. PICK e \in todo[p] :
          /\ pc[p] \in Persisting
          /\ mem'[p] = WithResult(mem[p], e.item, e.outcome)
          /\ pc'[p] = IF pc[p] = "persist" THEN "log" ELSE "log_blocked"
          /\ UNCHANGED <<batch, todo, left>>
    BY <1>0, <1>2 DEF PersistResult
  <2>2. PendingItems(mem'[p]) \subseteq PendingItems(mem[p])
    <3>1. e.outcome # "none" /\ e.item \in Item
      BY <1>0 DEF Result, Outcome
    <3>2. /\ WorkItems(mem'[p]) = WorkItems(mem[p])
          /\ mem'[p].results = [mem[p].results EXCEPT ![e.item] = e.outcome]
          /\ mem[p].results \in [Item -> Outcome \cup {"none"}]
      BY <1>0, <2>1 DEF WithResult, WorkItems, RunState
    <3>3. WorkItems(mem[p]) \subseteq Item
      BY <1>0, WorkItemsType
    <3>4. QED
      BY <3>1, <3>2, <3>3 DEF PendingItems
  <2>3. AtWork(p)' = AtWork(p)
    BY <2>1 DEF AtWork, Persisting
  <2>4. Remaining(p)' \subseteq Remaining(p)
    BY <2>2, <2>3 DEF Remaining
  <2>5. QED
    BY <1>0, <2>1, <2>4, KeepsLooping DEF Persisting
<1>3. CASE LogResult(p)
  <2>1. PICK e \in todo[p] :
          /\ pc[p] \in {"log", "log_blocked"} /\ Entry(p, e)
          /\ todo'[p] = todo[p] \ {e}
          /\ pc'[p] = IF todo[p] # {e}
                        THEN IF pc[p] = "log" THEN "persist" ELSE "persist_blocked"
                        ELSE AfterResults(p)
          /\ UNCHANGED <<mem, batch, left>>
    BY <1>0, <1>3 DEF LogResult
  <2>2. e.item \notin PendingItems(mem[p])
    BY <1>0, <2>1 DEF WorkInv, Result, Outcome, PendingItems
  <2>3. AtWork(p) \subseteq AtWork(p)' \cup {e.item}
    <3>1. CASE pc[p] = "log" /\ todo[p] # {e}
      BY <1>0, <2>1, <3>1 DEF AtWork
    <3>2. CASE pc[p] = "log" /\ todo[p] = {e}
      BY <1>0, <3>2 DEF AtWork
    <3>3. CASE pc[p] = "log_blocked"
      BY <3>3 DEF AtWork
    <3>4. QED
      BY <2>1, <3>1, <3>2, <3>3
  <2>4. Remaining(p)' \subseteq Remaining(p)
    BY <2>1, <2>2, <2>3 DEF Remaining
  <2>5. QED
    BY <1>0, <2>1, <2>4, KeepsLooping DEF AfterResults
<1>4. CASE EndOfLoop(p)
  <2>1. /\ pc'[p] = "final" /\ mem' = mem
        /\ \/ pc[p] = "scan" /\ left[p] = 0
           \/ Dispatchable(mem[p]) = {}
    BY <1>0, <1>4 DEF EndOfLoop
  <2>2. ASSUME pc[p] = "scan", left[p] = 0
        PROVE  Dispatchable(mem[p]) = {}
    <3>1. PendingItems(mem[p]) = {}
      BY <1>0, <2>2, NothingRemains
    <3>2. QED
      BY <3>1 DEF Dispatchable
  <2>3. LoopsOn(p)'
    BY <2>1, <2>2 DEF LoopsOn
  <2>4. QED
    BY <2>3, LoopStep
<1>5. CASE PickWriter(p)
  <2>1. /\ pc[p] = "pick" /\ UNCHANGED <<todo, left>> /\ batch'[p] # {}
        /\ \/ pc'[p] = "save_planned" /\ mem'[p] = WithStatus(mem[p], "planned")
           \/ pc'[p] = "acquire" /\ mem' = mem
    BY <1>0, <1>5 DEF PickWriter
  <2>2. PendingItems(mem'[p]) = PendingItems(mem[p])
    BY <1>0, <2>1, KeepRuns, SameRuns
  <2>3. Remaining(p)' \subseteq Remaining(p)
    BY <2>1, <2>2 DEF Remaining, AtWork
  <2>4. QED
    BY <1>0, <2>1, <2>3, KeepsLooping
<1>6. CASE DispatchReaders(p) \/ DispatchWriter(p)
  <2>1. /\ pc[p] \in {"pick", "acquire"} /\ pc'[p] = "turn" /\ UNCHANGED left
        /\ mem'[p] = WithStatus(mem[p], "running")
        /\ batch'[p] # {} /\ batch'[p] \subseteq PendingItems(mem[p])
    <3>1. CASE DispatchReaders(p)
      <4>1. Dispatchable(mem[p]) # {} /\ Dispatchable(mem[p]) \in SUBSET Item
        BY <1>0, <3>1, ScheduledItems DEF DispatchReaders
      <4>2. batch'[p] = ReadBatch(Dispatchable(mem[p]))
        BY <1>0, <3>1 DEF DispatchReaders
      <4>3. batch'[p] # {} /\ batch'[p] \subseteq Dispatchable(mem[p])
        <5>1. ReadBatch(Dispatchable(mem[p])) # {}
          BY <4>1, BatchesAreNotEmpty
        <5>2. QED
          BY <4>2, <5>1 DEF ReadBatch
      <4>4. QED
        BY <1>0, <3>1, <4>3 DEF DispatchReaders, Count, Dispatchable
    <3>2. CASE DispatchWriter(p)
      <4>1. batch[p] # {} /\ batch[p] \subseteq PendingItems(mem[p])
        BY <1>0, <3>2 DEF DispatchWriter, LoopsOn, WorkInv, Ready
      <4>2. QED
        BY <1>0, <3>2, <4>1 DEF DispatchWriter, Count
    <3>3. QED
      BY <1>6, <3>1, <3>2
  <2>2. PICK i \in batch'[p] : TRUE
    BY <2>1
  <2>3. Remaining(p)' \subseteq PendingItems(mem[p]) \ {i}
    <3>1. PendingItems(mem'[p]) = PendingItems(mem[p])
      BY <1>0, <2>1, KeepRuns, SameRuns
    <3>2. i \in AtWork(p)'
      BY <2>1 DEF AtWork
    <3>3. QED
      BY <3>1, <3>2 DEF Remaining
  <2>4. Cardinality(PendingItems(mem[p])) <= left[p] + 1
    <3>1. Remaining(p) = PendingItems(mem[p])
      BY <2>1 DEF Remaining, AtWork
    <3>2. QED
      BY <1>0, <2>1, <3>1 DEF LoopsOn
  <2>5. /\ Cardinality(Remaining(p)') + 1 <= Cardinality(PendingItems(mem[p]))
        /\ Cardinality(PendingItems(mem[p])) \in Nat
    BY <1>0, <2>1, <2>3, LessRemains
  <2>6. Cardinality(Remaining(p)') \in Nat
    <3>1. Remaining(p)' \in SUBSET Item
      BY <1>0, <2>3
    <3>2. QED
      BY <3>1, LessRemains
  <2>7. Cardinality(Remaining(p)') <= left'[p]
    BY <1>0, <2>1, <2>4, <2>5, <2>6
  <2>8. LoopsOn(p)'
    BY <2>1, <2>7 DEF LoopsOn
  <2>9. QED
    BY <2>8, LoopStep
<1>7. CASE TurnSucceeds(p) \/ TurnFails(p)
  <2>1. /\ pc[p] = "turn" /\ UNCHANGED <<mem, left>> /\ pc'[p] \in {"turn", "persist"}
        /\ todo[p] \subseteq todo'[p]
        /\ \A i \in batch[p] \ batch'[p] : \E e \in todo'[p] : e.item = i
    <3>1. CASE TurnSucceeds(p)
      <4>1. PICK j \in batch[p] :
              /\ pc[p] = "turn" /\ UNCHANGED <<mem, left>>
              /\ batch'[p] = batch[p] \ {j}
              /\ todo'[p] = todo[p] \cup {[item |-> j, outcome |-> "succeeded"]}
              /\ pc'[p] = IF batch[p] \ {j} = {} THEN "persist" ELSE "turn"
        BY <1>0, <3>1 DEF TurnSucceeds, EndTurns
      <4>2. [item |-> j, outcome |-> "succeeded"].item = j
        OBVIOUS
      <4>3. QED
        BY <4>1, <4>2
    <3>2. CASE TurnFails(p)
      <4>1. /\ pc[p] = "turn" /\ UNCHANGED <<mem, left>>
            /\ batch'[p] = {} /\ pc'[p] = "persist"
            /\ todo'[p] = todo[p] \cup {[item |-> i, outcome |-> "failed"] : i \in batch[p]}
        BY <1>0, <3>2 DEF TurnFails, EndTurns
      <4>2. \A i \in batch[p] : [item |-> i, outcome |-> "failed"] \in todo'[p]
        BY <4>1
      <4>3. QED
        BY <4>1, <4>2
    <3>3. QED
      BY <1>7, <3>1, <3>2
  <2>2. Remaining(p)' \subseteq Remaining(p)
    BY <2>1 DEF Remaining, AtWork
  <2>3. QED
    BY <1>0, <2>1, <2>2, KeepsLooping
<1>8. CASE ReleaseProject(p)
  <2>1. pc[p] = "release_project" /\ pc'[p] = "scan" /\ UNCHANGED <<mem, left>>
    BY <1>0, <1>8 DEF ReleaseProject
  <2>2. Remaining(p)' \subseteq Remaining(p)
    BY <2>1 DEF Remaining, AtWork
  <2>3. QED
    BY <1>0, <2>1, <2>2, KeepsLooping
<1>9. QED
  BY <1>1, <1>2, <1>3, <1>4, <1>5, <1>6, <1>7, <1>8

\* Where a command enters the loop, stays out of it, or is stopped.
LEMMA OutsideTheLoop ==
  ASSUME SelfInv, LoopInv, NEW p \in Proc, Frame(p),
         \/ StartCommand(p) \/ Save(p) \/ AppendEvent(p) \/ Prepare(p) \/ CreateDirectory(p)
         \/ Created(p) \/ Load(p) \/ RecordApproval(p) \/ Resume(p) \/ Validate(p)
         \/ ProjectBusy(p) \/ Conclude(p) \/ AfterRunReady(p) \/ Review(p) \/ WriteReport(p)
         \/ Exit(p) \/ Interrupt(p) \/ Kill(p) \/ LateWrite(p)
  PROVE  LoopInv'
<1> USE DEF storeVars, leaseVars, history, Goto, Step, Hold
<1>0. pc \in [Proc -> Pc] /\ left \in [Proc -> Nat]
  BY DEF SelfInv, TypeInv, TypeOK
<1>1. ASSUME pc'[p] \notin {"scan", "turn", "persist", "log", "release_project", "pick",
                            "persist_blocked", "log_blocked", "save_planned", "acquire", "final"}
      PROVE  LoopInv'
  BY <1>1, LoopStep DEF LoopsOn
<1>2. CASE Created(p) \/ Validate(p) \/ Review(p)
  <2>1. /\ pc[p] \in {"created", "validate", "review"} /\ mem' = mem
        /\ pc'[p] \in {"scan", "unwind", "report"}
        /\ left'[p] = Cardinality(WorkItems(mem[p]))
    BY <1>0, <1>2 DEF Created, Validate, Review, EnterRunReady
  <2>2. mem[p] \in RunState
    BY <2>1, PcNames, HolderFacts DEF SelfInv
  <2>3. CASE pc'[p] = "scan"
    BY <2>1, <2>2, <2>3, EntriesSuffice, LoopStep
  <2>4. QED
    BY <1>1, <2>1, <2>3
<1>3. CASE Save(p)
  <2>1. /\ pc[p] \in DOMAIN AfterSave /\ pc'[p] = AfterSave[pc[p]]
        /\ UNCHANGED <<mem, batch, todo, left>>
    BY <1>0, <1>3 DEF Save
  <2>2. CASE pc[p] = "save_planned"
    <3>1. pc'[p] = "acquire" /\ batch'[p] # {} /\ pc[p] \in Holding
      BY <2>1, <2>2, AfterSavePc DEF AfterSave, LoopInv, LoopsOn
    <3>2. Remaining(p)' \subseteq Remaining(p)
      BY <2>1, <2>2, <3>1 DEF Remaining, AtWork
    <3>3. QED
      BY <2>1, <2>2, <3>1, <3>2, KeepsLooping
  <2>3. CASE pc[p] # "save_planned"
    BY <1>1, <2>1, <2>3 DEF AfterSave
  <2>4. QED
    BY <2>2, <2>3
<1>4. CASE AppendEvent(p)
  BY <1>0, <1>1, <1>4 DEF AppendEvent, AfterEvent
<1>5. CASE StartCommand(p) \/ Prepare(p) \/ CreateDirectory(p) \/ RecordApproval(p) \/ Resume(p)
  BY <1>0, <1>1, <1>5 DEF StartCommand, Prepare, CreateDirectory, RecordApproval, Resume
<1>6. CASE Load(p)
  <2>1. job[p].cmd \in Command
    BY <1>6, PcNames DEF Load, SelfInv, TypeInv, TypeOK, CommandsHaveState, Job
  <2>2. pc'[p] \in {"unwind", "approve", "report", "resume"}
    BY <1>0, <1>6, <2>1, AfterLoadPc DEF Load
  <2>3. QED
    BY <1>1, <2>2
<1>7. CASE ProjectBusy(p) \/ Conclude(p) \/ AfterRunReady(p)
  BY <1>0, <1>1, <1>7 DEF ProjectBusy, Conclude, AfterRunReady
<1>8. CASE WriteReport(p) \/ Exit(p) \/ Interrupt(p) \/ Kill(p)
  BY <1>1, <1>8, StopsLeave DEF SelfInv
<1>9. CASE LateWrite(p)
  <2>1. pc'[p] \in {"idle", "unwind"}
    BY <1>0, <1>9 DEF LateWrite, SelfInv, TypeInv, CommandsHaveState
  <2>2. QED
    BY <1>1, <2>1
<1>10. QED
  BY <1>2, <1>3, <1>4, <1>5, <1>6, <1>7, <1>8, <1>9

LEMMA LoopInvStep ==
  ASSUME SelfInv, LoopInv, [Next]_vars
  PROVE  LoopInv'
<1>1. CASE UNCHANGED vars
  BY <1>1 DEF LoopInv, LoopsOn, Remaining, AtWork, vars, procVars
<1>2. CASE ~UNCHANGED vars
  <2>1. PICK p \in Proc : /\ Frame(p)
                          /\ StartCommand(p) \/ Work(p) \/ Interrupt(p) \/ Kill(p)
    BY <1>2, StepsOfProcesses DEF SelfInv
  <2>2. QED
    BY <2>1, IterationsSuffice, OutsideTheLoop DEF Work
<1>3. QED
  BY <1>1, <1>2

\* What the loop's invariant says of a command that has left the loop.
LEMMA LoopIsInvariant == Spec => [](SelfInv /\ LoopInv)
<1>1. Init => LoopInv
  BY DEF Init, LoopInv, LoopsOn
<1>2. SelfInv /\ LoopInv /\ [Next]_vars => LoopInv'
  BY LoopInvStep
<1>3. QED
  BY <1>1, <1>2, SelfInvariance, PTL DEF Spec

-----------------------------------------------------------------------------
(* What an iteration does about failed dependencies.                       *)

\* What has failed before it is blocked before anything is picked.
BlocksOn(p) ==
  /\ pc[p] \in {"persist_blocked", "log_blocked"} =>
       /\ \A e \in todo[p] : e.outcome = "blocked"
       /\ FailedBefore(mem[p]) \subseteq {e.item : e \in todo[p]}
  /\ pc[p] \in {"pick", "final"} => FailedBefore(mem[p]) = {}

BlockInv == \A p \in Proc : BlocksOn(p)

LEMMA BlockStep ==
  ASSUME BlockInv, NEW p \in Proc, Frame(p), BlocksOn(p)'
  PROVE  BlockInv'
<1> SUFFICES ASSUME NEW q \in Proc, q # p
             PROVE  BlocksOn(q)'
  BY DEF BlockInv
<1>1. pc'[q] = pc[q] /\ mem'[q] = mem[q] /\ todo'[q] = todo[q]
  BY DEF Frame
<1>2. QED
  BY <1>1 DEF BlockInv, BlocksOn

\* To record that an item is blocked gives no other item a failed dependency.
LEMMA BlockingFailsNothing ==
  ASSUME NEW s \in RunState, NEW i \in Item
  PROVE  FailedBefore(WithResult(s, i, "blocked")) \subseteq FailedBefore(s) \ {i}
<1> DEFINE t == WithResult(s, i, "blocked")
<1>1. /\ WorkItems(t) = WorkItems(s) /\ WorkItems(s) \subseteq Item
      /\ \A j : Dependencies(t, j) = Dependencies(s, j)
      /\ t.results = [s.results EXCEPT ![i] = "blocked"]
      /\ s.results \in [Item -> Outcome \cup {"none"}]
  BY WorkItemsType DEF WithResult, WorkItems, Dependencies, RunState
<1>2. ASSUME NEW j \in FailedBefore(t)
      PROVE  j \in FailedBefore(s) \ {i}
  <2>1. PICK d \in Dependencies(s, j) : t.results[d] = "failed"
    BY <1>1 DEF FailedBefore
  <2>2. d \in Item
    <3>1. j \in WorkItems(s)
      BY <1>1 DEF FailedBefore, PendingItems
    <3>2. j # Completion => j \in Base
      BY <1>1, <3>1 DEF Item
    <3>3. s.plan.items \subseteq Item /\ \A k \in Base : s.plan.deps[k] \subseteq Item
      BY DEF RunState, Plan, Item
    <3>4. QED
      BY <2>1, <3>2, <3>3 DEF Dependencies
  <2>3. s.results[d] = "failed"
    BY <1>1, <2>1, <2>2
  <2>4. j \in PendingItems(s) /\ j # i
    BY <1>1 DEF FailedBefore, PendingItems
  <2>5. QED
    BY <2>1, <2>3, <2>4 DEF FailedBefore
<1>3. QED
  BY <1>2

\* The steps of an iteration up to the pick, and the end of the loop.
LEMMA BlockingSteps ==
  ASSUME SelfInv, LoopInv, BlockInv, NEW p \in Proc, Frame(p),
         Scan(p) \/ PersistResult(p) \/ LogResult(p) \/ EndOfLoop(p)
  PROVE  BlocksOn(p)'
<1> USE DEF storeVars, leaseVars, history, Goto, Hold
<1>0. /\ pc \in [Proc -> Pc] /\ mem \in [Proc -> RunState \cup {None}]
      /\ todo \in [Proc -> SUBSET Result] /\ left \in [Proc -> Nat]
      /\ mem[p] \in RunState /\ WorkInv(p) /\ LoopsOn(p) /\ BlocksOn(p)
      /\ PendingItems(mem[p]) \in SUBSET Item
  <2>1. pc[p] \in Holding
    BY PcNames DEF Scan, PersistResult, LogResult, EndOfLoop, Persisting
  <2>2. QED
    BY <2>1, HolderFacts, ScheduledItems
       DEF SelfInv, TypeInv, TypeOK, SoundInv, LoopInv, BlockInv
<1>1. CASE Scan(p)
  <2>1. /\ mem' = mem
        /\ todo'[p] = {[item |-> i, outcome |-> "blocked"] : i \in NewlyBlocked(mem[p])}
        /\ pc'[p] = IF NewlyBlocked(mem[p]) = {} THEN "pick" ELSE "persist_blocked"
    BY <1>0, <1>1 DEF Scan
  <2>2. FailedBefore(mem[p]) \subseteq NewlyBlocked(mem[p])
    BY DEF FailedBefore, NewlyBlocked
  <2>3. NewlyBlocked(mem[p]) \subseteq {e.item : e \in todo'[p]}
    <3>1. ASSUME NEW i \in NewlyBlocked(mem[p])
          PROVE  \E e \in todo'[p] : e.item = i
      <4>1. [item |-> i, outcome |-> "blocked"] \in todo'[p]
        BY <2>1
      <4>2. QED
        BY <4>1
    <3>2. QED
      BY <3>1
  <2>4. QED
    BY <2>1, <2>2, <2>3 DEF BlocksOn
<1>2. CASE PersistResult(p)
  <2>1. PICK e \in todo[p] :
          /\ pc[p] \in Persisting
          /\ mem'[p] = WithResult(mem[p], e.item, e.outcome)
          /\ pc'[p] = IF pc[p] = "persist" THEN "log" ELSE "log_blocked"
          /\ todo' = todo
    BY <1>0, <1>2 DEF PersistResult
  <2>2. CASE pc[p] = "persist_blocked"
    <3>1. e.outcome = "blocked" /\ e.item \in Item
      BY <1>0, <2>2 DEF BlocksOn, Result
    <3>2. FailedBefore(mem'[p]) \subseteq FailedBefore(mem[p])
      BY <1>0, <2>1, <3>1, BlockingFailsNothing
    <3>3. QED
      BY <1>0, <2>1, <2>2, <3>2 DEF BlocksOn
  <2>3. CASE pc[p] = "persist"
    BY <2>1, <2>3 DEF BlocksOn
  <2>4. QED
    BY <2>1, <2>2, <2>3 DEF Persisting
<1>3. CASE LogResult(p)
  <2>1. PICK e \in todo[p] :
          /\ pc[p] \in {"log", "log_blocked"} /\ Entry(p, e)
          /\ todo'[p] = todo[p] \ {e}
          /\ pc'[p] = IF todo[p] # {e}
                        THEN IF pc[p] = "log" THEN "persist" ELSE "persist_blocked"
                        ELSE AfterResults(p)
          /\ mem' = mem
    BY <1>0, <1>3 DEF LogResult
  <2>2. CASE pc[p] = "log"
    BY <2>1, <2>2 DEF BlocksOn, AfterResults
  <2>3. CASE pc[p] = "log_blocked"
    <3>1. e.item \notin PendingItems(mem[p])
      BY <1>0, <2>1, <2>3 DEF WorkInv, Result, Outcome, PendingItems
    <3>2. FailedBefore(mem[p]) \subseteq {f.item : f \in todo'[p]}
      <4>1. e.item \notin FailedBefore(mem[p])
        BY <3>1 DEF FailedBefore
      <4>2. FailedBefore(mem[p]) \subseteq {f.item : f \in todo[p]}
        BY <1>0, <2>3 DEF BlocksOn
      <4>3. QED
        BY <2>1, <4>1, <4>2
    <3>3. \A f \in todo'[p] : f.outcome = "blocked"
      BY <1>0, <2>1, <2>3 DEF BlocksOn
    <3>4. pc'[p] = "pick" => todo'[p] = {}
      BY <2>1, <2>3
    <3>5. pc'[p] # "final"
      BY <2>1, <2>3 DEF AfterResults
    <3>6. QED
      BY <2>1, <3>2, <3>3, <3>4, <3>5 DEF BlocksOn
  <2>4. QED
    BY <2>1, <2>2, <2>3
<1>4. CASE EndOfLoop(p)
  <2>1. /\ pc'[p] = "final" /\ mem' = mem
        /\ (pc[p] = "scan" /\ left[p] = 0) \/ pc[p] = "pick"
    BY <1>0, <1>4 DEF EndOfLoop
  <2>2. CASE pc[p] = "scan" /\ left[p] = 0
    <3>1. PendingItems(mem[p]) = {}
      BY <1>0, <2>2, NothingRemains
    <3>2. QED
      BY <2>1, <3>1 DEF BlocksOn, FailedBefore
  <2>3. CASE pc[p] = "pick"
    BY <1>0, <2>1, <2>3 DEF BlocksOn
  <2>4. QED
    BY <2>1, <2>2, <2>3
<1>5. QED
  BY <1>1, <1>2, <1>3, <1>4

\* Every other step goes where BlockInv asks for nothing.
LEMMA OtherStepsGoElsewhere ==
  ASSUME SelfInv, NEW p \in Proc,
         \/ StartCommand(p) \/ Save(p) \/ AppendEvent(p) \/ Prepare(p) \/ CreateDirectory(p)
         \/ Created(p) \/ Load(p) \/ RecordApproval(p) \/ Resume(p) \/ Validate(p)
         \/ PickWriter(p) \/ DispatchReaders(p) \/ DispatchWriter(p) \/ ProjectBusy(p)
         \/ TurnSucceeds(p) \/ TurnFails(p) \/ ReleaseProject(p) \/ Conclude(p)
         \/ AfterRunReady(p) \/ Review(p) \/ WriteReport(p)
         \/ Exit(p) \/ Interrupt(p) \/ Kill(p) \/ LateWrite(p)
  PROVE  pc'[p] \notin {"persist_blocked", "log_blocked", "pick", "final"}
<1> USE DEF Goto, Step
<1>0. pc \in [Proc -> Pc]
  BY DEF SelfInv, TypeInv, TypeOK
<1>1. CASE \/ StartCommand(p) \/ Prepare(p) \/ CreateDirectory(p) \/ Created(p)
           \/ RecordApproval(p) \/ Resume(p) \/ Validate(p)
  BY <1>0, <1>1
     DEF StartCommand, Prepare, CreateDirectory, Created, RecordApproval, Resume, Validate
<1>2. CASE Save(p) \/ AppendEvent(p)
  BY <1>0, <1>2 DEF Save, AppendEvent, AfterSave, AfterEvent
<1>3. CASE Load(p)
  <2>1. job[p].cmd \in Command
    BY <1>3, PcNames DEF Load, SelfInv, TypeInv, TypeOK, CommandsHaveState, Job
  <2>2. pc'[p] \in {"unwind", "approve", "report", "resume"}
    BY <1>0, <1>3, <2>1, AfterLoadPc DEF Load
  <2>3. QED
    BY <2>2
<1>4. CASE \/ PickWriter(p) \/ DispatchReaders(p) \/ DispatchWriter(p) \/ ProjectBusy(p)
           \/ ReleaseProject(p)
  BY <1>0, <1>4 DEF PickWriter, DispatchReaders, DispatchWriter, ProjectBusy, ReleaseProject
<1>5. CASE TurnSucceeds(p) \/ TurnFails(p)
  BY <1>0, <1>5 DEF TurnSucceeds, TurnFails, EndTurns
<1>6. CASE Conclude(p) \/ AfterRunReady(p) \/ Review(p)
  BY <1>0, <1>6 DEF Conclude, AfterRunReady, Review
<1>7. CASE WriteReport(p) \/ Exit(p) \/ Interrupt(p) \/ Kill(p)
  BY <1>7, StopsLeave DEF SelfInv
<1>8. CASE LateWrite(p)
  BY <1>0, <1>8 DEF LateWrite, SelfInv, TypeInv, CommandsHaveState
<1>9. QED
  BY <1>1, <1>2, <1>3, <1>4, <1>5, <1>6, <1>7, <1>8

LEMMA BlockInvStep ==
  ASSUME SelfInv, LoopInv, BlockInv, [Next]_vars
  PROVE  BlockInv'
<1>1. CASE UNCHANGED vars
  BY <1>1 DEF BlockInv, BlocksOn, vars, procVars
<1>2. CASE ~UNCHANGED vars
  <2>1. PICK p \in Proc : /\ Frame(p)
                          /\ StartCommand(p) \/ Work(p) \/ Interrupt(p) \/ Kill(p)
    BY <1>2, StepsOfProcesses DEF SelfInv
  <2>2. CASE Scan(p) \/ PersistResult(p) \/ LogResult(p) \/ EndOfLoop(p)
    BY <2>1, <2>2, BlockingSteps, BlockStep
  <2>3. CASE ~(Scan(p) \/ PersistResult(p) \/ LogResult(p) \/ EndOfLoop(p))
    <3>1. pc'[p] \notin {"persist_blocked", "log_blocked", "pick", "final"}
      BY <2>1, <2>3, OtherStepsGoElsewhere DEF Work
    <3>2. BlocksOn(p)'
      BY <3>1 DEF BlocksOn
    <3>3. QED
      BY <2>1, <3>2, BlockStep
  <2>4. QED
    BY <2>2, <2>3
<1>3. QED
  BY <1>1, <1>2

(***************************************************************************)
(* run_ready loops once per item and an iteration that goes on decides at  *)
(* least one, so the loop is never what ends it: when the status of the    *)
(* run is concluded nothing that may be dispatched is left, and nothing    *)
(* whose own dependency failed, in this command or in an earlier one.      *)
(***************************************************************************)
THEOREM NothingIsLeftOver == Spec => []NothingLeftToDecide
<1>1. Init => BlockInv
  BY DEF Init, BlockInv, BlocksOn
<1>2. SelfInv /\ LoopInv /\ BlockInv /\ [Next]_vars => BlockInv'
  BY BlockInvStep
<1>3. LoopInv /\ BlockInv => NothingLeftToDecide
  BY DEF LoopInv, LoopsOn, BlockInv, BlocksOn, NothingLeftToDecide
<1>4. QED
  BY <1>1, <1>2, <1>3, LoopIsInvariant, PTL DEF Spec

\* What a plan without cycles makes of a loop that has nothing left to give out.
LEMMA DecidedAtTheEnd ==
  ASSUME NEW s \in RunState, Sound(s), Dispatchable(s) = {}
  PROVE  FinalStatus(s) \in {"completed", "failed", "awaiting-approval"}
<1> DEFINE has(outcome) == \E i \in WorkItems(s) : s.results[i] = outcome
<1>1. /\ s.plan.items \subseteq Base /\ Completion \notin Base
      /\ \A i \in s.plan.items : s.plan.deps[i] \subseteq s.plan.items
      /\ \A S \in SUBSET s.plan.items : S # {} => \E i \in S : s.plan.deps[i] \cap S = {}
  BY PlansAssumption, BaseAssumption DEF Sound, ValidPlan, Completion
<1>2. /\ s.plan.items \subseteq WorkItems(s)
      /\ WorkItems(s) \subseteq s.plan.items \cup {Completion}
      /\ WorkItems(s) \subseteq Item
      /\ \A i \in s.plan.items : Dependencies(s, i) = s.plan.deps[i]
      /\ Dependencies(s, Completion) = s.plan.items
  BY <1>1, CompletionIsItem DEF WorkItems, Dependencies
<1>3. \A i \in Item : s.results[i] \in {"succeeded", "failed", "blocked", "none"}
  BY DEF RunState, Outcome
<1>4. ASSUME ~has("failed"), has("blocked")
      PROVE  FALSE
  <2> DEFINE S == {i \in s.plan.items : s.results[i] = "blocked"}
  <2>1. PICK i \in WorkItems(s) : s.results[i] = "blocked"
    BY <1>4
  <2>2. CASE i \in s.plan.items
    <3>1. S # {}
      BY <2>1, <2>2
    <3>2. PICK j \in S : s.plan.deps[j] \cap S = {}
      BY <1>1, <3>1
    <3>3. PICK d \in s.plan.deps[j] : s.results[d] \in {"failed", "blocked"}
      BY <1>2, <3>2 DEF Sound
    <3>4. d \in s.plan.items /\ s.results[d] # "failed"
      BY <1>1, <1>2, <1>4, <3>2, <3>3
    <3>5. QED
      BY <3>2, <3>3, <3>4
  <2>3. CASE i \notin s.plan.items
    <3>1. s.reviewed /\ i = Completion
      BY <1>2, <2>1, <2>3 DEF WorkItems
    <3>2. \A d \in s.plan.items : s.results[d] = "succeeded"
      BY <3>1 DEF Sound, Succeeded
    <3>3. QED
      BY <1>2, <2>1, <3>1, <3>2 DEF Sound
  <2>4. QED
    BY <2>2, <2>3
<1>5. ASSUME ~has("failed"), ~has("blocked"), ~AllSucceeded(s), ~AwaitsApproval(s)
      PROVE  FALSE
  <2> DEFINE S == {i \in s.plan.items : s.results[i] = "none"}
  <2>1. \A i \in PendingItems(s) : RequireDispatchable(s, i)
    BY <1>5 DEF PendingItems, RequireDispatchable, AwaitsApproval
  <2>2. PICK i \in WorkItems(s) : s.results[i] = "none"
    BY <1>2, <1>3, <1>5 DEF AllSucceeded, Succeeded
  <2>3. \E j \in PendingItems(s) : \A d \in Dependencies(s, j) : Succeeded(s, d)
    <3>1. CASE S = {}
      <4>1. i = Completion /\ \A d \in s.plan.items : s.results[d] # "none"
        BY <1>2, <2>2, <3>1
      <4>2. \A d \in s.plan.items : Succeeded(s, d)
        BY <1>2, <1>3, <1>5, <4>1 DEF Succeeded
      <4>3. QED
        BY <1>2, <2>2, <4>1, <4>2 DEF PendingItems
    <3>2. CASE S # {}
      <4>1. PICK j \in S : s.plan.deps[j] \cap S = {}
        BY <1>1, <3>2
      <4>2. ASSUME NEW d \in s.plan.deps[j]
            PROVE  Succeeded(s, d)
        BY <1>1, <1>2, <1>3, <1>5, <4>1 DEF Succeeded
      <4>3. QED
        BY <1>2, <4>1, <4>2 DEF PendingItems
    <3>3. QED
      BY <3>1, <3>2
  <2>4. QED
    BY <2>1, <2>3 DEF Dispatchable
<1>6. CASE has("failed")
  BY <1>6 DEF FinalStatus
<1>7. CASE ~has("failed")
  <2>1. ~has("blocked")
    BY <1>4, <1>7
  <2>2. CASE AllSucceeded(s)
    BY <1>7, <2>1, <2>2 DEF FinalStatus
  <2>3. CASE ~AllSucceeded(s)
    BY <1>5, <1>7, <2>1, <2>3 DEF FinalStatus
  <2>4. QED
    BY <2>2, <2>3
<1>8. QED
  BY <1>6, <1>7

(***************************************************************************)
(* With nothing left to dispatch and no cycle in the plan, what is not     *)
(* decided waits for an approval, and what is blocked has a failure behind *)
(* it: a pass never ends planned or merely blocked.                        *)
(***************************************************************************)
THEOREM PassesAreDecided == Spec => []PassesEndDecided
<1>1. ASSUME SelfInv, LoopInv
      PROVE  PassesEndDecided
  <2> SUFFICES ASSUME NEW p \in Proc, pc[p] = "final"
               PROVE  FinalStatus(mem[p]) \in {"completed", "failed", "awaiting-approval"}
    BY DEF PassesEndDecided
  <2>1. mem[p] \in RunState /\ Sound(mem[p]) /\ Dispatchable(mem[p]) = {}
    BY <1>1, PcNames, HolderFacts DEF SelfInv, SoundInv, CopySound, LoopInv, LoopsOn
  <2>2. QED
    BY <2>1, DecidedAtTheEnd
<1>2. QED
  BY <1>1, LoopIsInvariant, PTL
=============================================================================
