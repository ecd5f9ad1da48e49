------------------------ MODULE GoalRouterRuns_proofs ------------------------
(***************************************************************************)
(* What the run lease is for.  While a store call never outlives its await *)
(* (LateWrites = FALSE), a busy process owns its run, so its copy and      *)
(* state.json agree on everything that is kept for good, and what it       *)
(* writes is a step of the run's lifecycle: for every number of processes, *)
(* runs, items and configurations, with interrupts and kills anywhere.     *)
(*                                                                         *)
(* The invariant comes in layers, each proved from those before it and     *)
(* from SelfInv, which needs no lease: who owns a run (OwnInv); that what  *)
(* is stored of it and what its owner holds agree (RunInv); what a command *)
(* has concluded (ConcludeInv); what it picked (PickInv); how often an     *)
(* item was given to Codex (CountInv).                                     *)
(***************************************************************************)
EXTENDS GoalRouter_proofs

-----------------------------------------------------------------------------
(* Whose a run is.                                                         *)

OwnInv ==
  \A p \in Proc :
    /\ late[p] = None
    /\ pc[p] # "draining"
    /\ pc[p] # "idle" => runLease[RunOf(p)] = p
    /\ pc[p] \in {"idle", "prepare", "load"} => mem[p] = None

\* A busy process owns its run, so no other process is at the same one.
LEMMA OwnersExclude ==
  ASSUME OwnInv, NEW p \in Proc, NEW q \in Proc, q # p, pc[p] # "idle", pc[q] # "idle"
  PROVE  RunOf(q) # RunOf(p)
  BY DEF OwnInv

\* What a step of p leaves of the other processes and of their runs.
LEMMA OthersStay ==
  ASSUME TypeInv, OwnInv, NEW p \in Proc, Frame(p), NEW q \in Proc, q # p
  PROVE  /\ pc'[q] = pc[q] /\ job'[q] = job[q] /\ mem'[q] = mem[q] /\ batch'[q] = batch[q]
         /\ todo'[q] = todo[q] /\ left'[q] = left[q] /\ pass'[q] = pass[q]
         /\ pc[q] # "idle" =>
              /\ RunOf(q)' = RunOf(q) /\ RunOf(q) \in Run
              /\ disk'[RunOf(q)] = disk[RunOf(q)] /\ events'[RunOf(q)] = events[RunOf(q)]
              /\ granted'[RunOf(q)] = granted[RunOf(q)]
              /\ dispatched'[RunOf(q)] = dispatched[RunOf(q)]
<1>1. pc[q] # "idle" => RunOf(q) \in Run /\ (pc[p] = "idle" \/ RunOf(q) # RunOf(p))
  BY OwnersExclude DEF TypeInv, TypeOK, CommandsHaveState, RunOf, Job
<1>2. job'[q] = job[q] => RunOf(q)' = RunOf(q)
  BY DEF RunOf
<1>3. QED
  BY <1>1, <1>2 DEF Frame

\* The run lease of a busy process outlasts every step of another one.
LEMMA OwnershipStep ==
  ASSUME TypeInv, OwnInv, NEW p \in Proc, Frame(p), late'[p] = None, pc'[p] # "draining",
         pc'[p] # "idle" => runLease'[RunOf(p)'] = p,
         pc'[p] \in {"idle", "prepare", "load"} => mem'[p] = None,
         \A r \in Run : runLease[r] \in Proc \ {p} => runLease'[r] = runLease[r]
  PROVE  OwnInv'
<1> SUFFICES ASSUME NEW q \in Proc, q # p
             PROVE  /\ late'[q] = None
                    /\ pc'[q] # "draining"
                    /\ pc'[q] # "idle" => runLease'[RunOf(q)'] = q
                    /\ pc'[q] \in {"idle", "prepare", "load"} => mem'[q] = None
  BY DEF OwnInv
<1>1. pc[q] # "idle" => runLease[RunOf(q)] = q /\ RunOf(q)' = RunOf(q) /\ RunOf(q) \in Run
  BY OthersStay DEF OwnInv
<1>2. QED
  BY <1>1 DEF OwnInv, Frame

\* A lease is taken when it is free, and given back by its owner.
LEMMA Ownership ==
  ASSUME LateWrites = FALSE, TypeInv, OwnInv, NEW p \in Proc,
         StartCommand(p) \/ Work(p) \/ Interrupt(p) \/ Kill(p)
  PROVE  OwnInv' /\ Frame(p)
<1>1. Frame(p)
  BY StepsAreFramed
<1> SUFFICES OwnInv'
  BY <1>1
<1> USE DEF TypeInv, TypeOK, storeVars, leaseVars, history, Goto, Step, Hold, Forget, RunOf
<1>2. ASSUME runLease' = runLease, job' = job, late' = late, pc[p] # "idle",
             pc'[p] \notin {"idle", "draining", "prepare", "load"}
      PROVE  OwnInv'
  BY <1>1, <1>2, OwnershipStep DEF OwnInv
<1>3. CASE StartCommand(p)
  <2>1. PICK cmd \in Command, r \in Run, config \in Config :
          /\ pc[p] = "idle"
          /\ runLease[r] = None
          /\ runLease' = [runLease EXCEPT ![r] = p]
          /\ job' = [job EXCEPT ![p] = [cmd |-> cmd, run |-> r, config |-> config]]
          /\ pc' = [pc EXCEPT ![p] = IF cmd \in Creating THEN "prepare" ELSE "load"]
          /\ UNCHANGED <<mem, late>>
    BY <1>3 DEF StartCommand
  <2>2. QED
    BY <1>1, <2>1, OwnershipStep, NoneAssumption DEF OwnInv
<1>4. CASE Save(p)
  BY <1>2, <1>4, AfterSavePc, PcNames DEF Save
<1>5. CASE AppendEvent(p)
  BY <1>2, <1>5, AfterEventPc, PcNames DEF AppendEvent
<1>6. CASE Prepare(p) \/ CreateDirectory(p) \/ Created(p)
  BY <1>2, <1>6 DEF Prepare, CreateDirectory, Created
<1>7. CASE RecordApproval(p) \/ Resume(p) \/ Validate(p)
  BY <1>2, <1>7 DEF RecordApproval, Resume, Validate
<1>8. CASE Load(p)
  <2>1. AfterLoad[job[p].cmd] \in {"approve", "report", "resume"}
    BY <1>8, AfterLoadPc, PcNames DEF Load, CommandsHaveState, Job
  <2>2. QED
    BY <1>2, <1>8, <2>1 DEF Load
<1>9. CASE Scan(p) \/ PersistResult(p) \/ LogResult(p) \/ EndOfLoop(p)
  BY <1>2, <1>9 DEF Scan, PersistResult, LogResult, EndOfLoop, Persisting, AfterResults
<1>10. CASE PickWriter(p) \/ DispatchReaders(p) \/ DispatchWriter(p) \/ ProjectBusy(p)
  BY <1>2, <1>10 DEF PickWriter, DispatchReaders, DispatchWriter, ProjectBusy
<1>11. CASE TurnSucceeds(p) \/ TurnFails(p) \/ ReleaseProject(p) \/ Conclude(p)
  BY <1>2, <1>11 DEF TurnSucceeds, TurnFails, EndTurns, ReleaseProject, Conclude
<1>12. CASE AfterRunReady(p) \/ Review(p) \/ WriteReport(p)
  BY <1>2, <1>12 DEF AfterRunReady, Review, WriteReport
<1>13. CASE Exit(p)
  <2>1. runLease[RunOf(p)] = p
    BY <1>13 DEF Exit, OwnInv
  <2>2. \A r \in Run : runLease[r] \in Proc \ {p} => runLease'[r] = runLease[r]
    BY <1>13, <2>1 DEF Exit
  <2>3. pc'[p] = "idle" /\ late'[p] = None /\ mem'[p] = None
    BY <1>13 DEF Exit, OwnInv
  <2>4. QED
    BY <1>1, <2>2, <2>3, OwnershipStep
<1>14. CASE LateWrite(p)
  BY <1>14 DEF LateWrite, OwnInv
<1>15. CASE Interrupt(p)
  <2>1. late' = [late EXCEPT ![p] = None]
    BY <1>15 DEF Interrupt, PendingWrites
  <2>2. late' = late /\ runLease' = runLease /\ job' = job /\ pc[p] # "idle" /\ pc'[p] = "unwind"
    BY <1>15, <2>1 DEF Interrupt, OwnInv
  <2>3. QED
    BY <1>2, <2>2
<1>16. CASE Kill(p)
  <2>1. \A r \in Run : runLease[r] \in Proc \ {p} => runLease'[r] = runLease[r]
    BY <1>16 DEF Kill
  <2>2. pc'[p] = "idle" /\ late'[p] = None /\ mem'[p] = None
    BY <1>16 DEF Kill
  <2>3. QED
    BY <1>1, <2>1, <2>2, OwnershipStep
<1>17. QED
  BY <1>3, <1>4, <1>5, <1>6, <1>7, <1>8, <1>9, <1>10, <1>11, <1>12, <1>13, <1>14,
     <1>15, <1>16 DEF Work

-----------------------------------------------------------------------------
(* What is stored, and what a command holds of it.                         *)

StoreInv(r) ==
  /\ disk[r] # None => r \in dirs
  /\ \A e \in events[r] :
       /\ e.event = "work-item-finished" => Stored(r) /\ disk[r].results[e.item] = e.outcome
       /\ e.event = "completion-review-appended" => Stored(r) /\ disk[r].reviewed

\* A copy is its run but for a review that is still to be saved.
CopyInv(p) ==
  pc[p] \in Holding =>
    /\ pc[p] = "create" => disk[RunOf(p)] = None /\ RunOf(p) \in dirs
    /\ pc[p] \notin {"mkdir", "create"} =>
         /\ disk[RunOf(p)] # None
         /\ mem[p].plan = disk[RunOf(p)].plan
         /\ mem[p].results = disk[RunOf(p)].results
         /\ mem[p].reviewed = (disk[RunOf(p)].reviewed \/ pc[p] = "save_review")

RunInv ==
  /\ \A r \in Run : StoreInv(r)
  /\ \A p \in Proc : CopyInv(p)

\* Everything the steps of p need to know, and all they have to keep.
Inv == LateWrites = FALSE /\ SelfInv /\ OwnInv /\ RunInv

\* What it says of a command that holds a copy.
LEMMA InvFacts ==
  ASSUME Inv, NEW p \in Proc
  PROVE  /\ TypeInv /\ LeaseInv /\ OwnInv
         /\ CopySound(p) /\ WorkInv(p) /\ CopyInv(p)
         /\ pc \in [Proc -> Pc] /\ mem \in [Proc -> RunState \cup {None}]
         /\ batch \in [Proc -> SUBSET Item] /\ todo \in [Proc -> SUBSET Result]
         /\ disk \in [Run -> RunState \cup {None}] /\ events \in [Run -> SUBSET Event]
         /\ pc[p] # "idle" => RunOf(p) \in Run
         /\ pc[p] \in Holding => mem[p] \in RunState /\ RunOf(p) \in Run /\ StoreInv(RunOf(p))
<1>1. pc[p] # "idle" => RunOf(p) \in Run
  BY DEF Inv, SelfInv, TypeInv, TypeOK, CommandsHaveState, RunOf, Job
<1>2. pc[p] \in Holding => mem[p] \in RunState /\ RunOf(p) \in Run
  BY HolderFacts DEF Inv, SelfInv
<1>3. QED
  BY <1>1, <1>2 DEF Inv, SelfInv, TypeInv, TypeOK, SoundInv, RunInv

LEMMA RunStep ==
  ASSUME Inv, NEW p \in Proc, Frame(p),
         pc[p] # "idle" => \A r \in Run : r = RunOf(p) => StoreInv(r)',
         CopyInv(p)'
  PROVE  RunInv'
<1>1. ASSUME NEW r \in Run
      PROVE  StoreInv(r)'
  <2>1. CASE pc[p] # "idle" /\ r = RunOf(p)
    BY <2>1
  <2>2. CASE pc[p] = "idle" \/ r # RunOf(p)
    <3>1. disk'[r] = disk[r] /\ events'[r] = events[r] /\ dirs \subseteq dirs'
      BY <2>2 DEF Frame
    <3>2. QED
      BY <3>1 DEF Inv, RunInv, StoreInv, Stored
  <2>3. QED
    BY <2>1, <2>2
<1>2. ASSUME NEW q \in Proc, q # p
      PROVE  CopyInv(q)'
  <2>1. /\ pc'[q] = pc[q] /\ mem'[q] = mem[q]
        /\ pc[q] # "idle" => RunOf(q)' = RunOf(q) /\ disk'[RunOf(q)] = disk[RunOf(q)]
        /\ dirs \subseteq dirs'
    BY <1>2, OthersStay DEF Inv, SelfInv, Frame
  <2>2. CopyInv(q)
    BY DEF Inv, RunInv
  <2>3. QED
    BY <2>1, <2>2, PcNames DEF CopyInv
<1>3. QED
  BY <1>1, <1>2 DEF RunInv

\* A command that leaves its copy, or has none yet, keeps the rest.
LEMMA LeavesRun ==
  ASSUME Inv, NEW p \in Proc, Frame(p), disk' = disk, events' = events,
         pc'[p] \in {"idle", "prepare", "load", "unwind", "draining"}
  PROVE  RunInv'
<1>1. \A r \in Run : StoreInv(r)'
  BY DEF Inv, RunInv, StoreInv, Stored, Frame
<1>2. CopyInv(p)'
  BY PcNames DEF CopyInv
<1>3. QED
  BY <1>1, <1>2, RunStep

\* Most steps of a command write nothing and keep what they hold of the run.
LEMMA KeepsRun ==
  ASSUME Inv, NEW p \in Proc, Frame(p), UNCHANGED <<disk, events, dirs, job>>,
         pc[p] \in Holding \ {"mkdir", "create", "save_review"},
         pc'[p] \in Holding \ {"mkdir", "create", "save_review"},
         Same(mem'[p], mem[p])
  PROVE  RunInv'
<1>1. \A r \in Run : StoreInv(r)'
  BY DEF Inv, RunInv, StoreInv, Stored
<1>2. CopyInv(p)'
  <2>1. RunOf(p)' = RunOf(p)
    BY DEF RunOf
  <2>2. CopyInv(p)
    BY DEF Inv, RunInv
  <2>3. QED
    BY <2>1, <2>2 DEF CopyInv, Same
<1>3. QED
  BY <1>1, <1>2, RunStep

\* From a command's start to the scheduler.
LEMMA CommandsKeepRuns ==
  ASSUME Inv, NEW p \in Proc, Frame(p),
         \/ StartCommand(p) \/ Prepare(p) \/ CreateDirectory(p) \/ Created(p)
         \/ Load(p) \/ RecordApproval(p) \/ Resume(p) \/ Validate(p)
  PROVE  RunInv'
<1> USE DEF storeVars, leaseVars, history, Goto, Step, Hold
<1>0. /\ pc \in [Proc -> Pc] /\ mem \in [Proc -> RunState \cup {None}]
      /\ dirs \subseteq Run
      /\ disk \in [Run -> RunState \cup {None}]
      /\ pc[p] # "idle" => job[p] \in Job /\ RunOf(p) \in Run
      /\ pc[p] \in Holding => mem[p] \in RunState
      /\ CopyInv(p)
  BY InvFacts DEF Inv, SelfInv, TypeInv, TypeOK, CommandsHaveState
<1>1. CASE StartCommand(p)
  BY <1>0, <1>1, LeavesRun DEF StartCommand
<1>2. CASE Prepare(p)
  <2>1. pc'[p] = "mkdir" /\ UNCHANGED <<disk, dirs, events>>
    BY <1>0, <1>2 DEF Prepare
  <2>2. CopyInv(p)'
    BY <2>1 DEF CopyInv
  <2>3. \A r \in Run : StoreInv(r)'
    BY <2>1 DEF Inv, RunInv, StoreInv, Stored
  <2>4. QED
    BY <2>2, <2>3, RunStep
<1>3. CASE CreateDirectory(p)
  <2>1. /\ pc[p] = "mkdir" /\ dirs' = dirs \cup {RunOf(p)}
        /\ pc'[p] = IF RunOf(p) \in dirs THEN "unwind" ELSE "create"
        /\ UNCHANGED <<disk, events, job>>
    BY <1>0, <1>3 DEF CreateDirectory
  <2>2. CASE RunOf(p) \in dirs
    BY <2>1, <2>2, LeavesRun
  <2>3. CASE RunOf(p) \notin dirs
    <3>1. disk[RunOf(p)] = None
      BY <1>0, <2>1, <2>3, PcNames DEF Inv, RunInv, StoreInv
    <3>2. CopyInv(p)'
      BY <2>1, <2>3, <3>1 DEF CopyInv, RunOf
    <3>3. \A r \in Run : StoreInv(r)'
      BY <2>1 DEF Inv, RunInv, StoreInv, Stored
    <3>4. QED
      BY <3>2, <3>3, RunStep
  <2>4. QED
    BY <2>2, <2>3
<1>4. ASSUME UNCHANGED <<disk, events, dirs, job>>,
             pc[p] \in {"created", "approve", "resume", "validate"},
             pc'[p] \in {"save_approval", "save_config", "validate", "scan"},
             Same(mem'[p], mem[p])
      PROVE  RunInv'
  <2>1. pc'[p] \in Holding \ {"mkdir", "create", "save_review"}
    BY <1>4, PcNames
  <2>2. QED
    BY <1>4, <2>1, PcNames, KeepsRun
<1>5. CASE Created(p)
  <2>1. CASE job[p].cmd = "plan"
    BY <1>0, <1>5, <2>1, LeavesRun DEF Created
  <2>2. CASE job[p].cmd # "plan"
    <3>1. /\ pc[p] = "created" /\ pc'[p] = "scan" /\ mem' = mem
          /\ UNCHANGED <<disk, events, dirs, job>>
      BY <1>0, <1>5, <2>2 DEF Created
    <3>2. QED
      BY <1>4, <3>1 DEF Same
  <2>3. QED
    BY <2>1, <2>2
<1>6. CASE Load(p)
  <2>1. /\ pc[p] = "load" /\ UNCHANGED <<disk, events, dirs, job>>
        /\ AfterLoad[job[p].cmd] \in {"approve", "report", "resume"}
    BY <1>0, <1>6, AfterLoadPc, PcNames DEF Load, Job
  <2>2. CASE ~Loadable(p)
    BY <1>0, <1>6, <2>1, <2>2, LeavesRun DEF Load
  <2>3. CASE Loadable(p)
    <3>1. /\ disk[RunOf(p)] # None /\ mem'[p] = disk[RunOf(p)]
          /\ pc'[p] \in {"approve", "report", "resume"}
      BY <1>0, <1>6, <2>1, <2>3 DEF Load, Loadable
    <3>2. disk[RunOf(p)].reviewed \in BOOLEAN
      BY <1>0, <2>1, <3>1 DEF RunState
    <3>3. CopyInv(p)'
      BY <2>1, <3>1, <3>2 DEF CopyInv, RunOf
    <3>4. \A r \in Run : StoreInv(r)'
      BY <2>1 DEF Inv, RunInv, StoreInv, Stored
    <3>5. QED
      BY <3>3, <3>4, RunStep
  <2>4. QED
    BY <2>2, <2>3
<1>7. CASE RecordApproval(p)
  <2>1. PICK i \in WorkItems(mem[p]) :
          /\ pc[p] = "approve" /\ pc'[p] = "save_approval"
          /\ mem'[p] = Approve(mem[p], i)
          /\ UNCHANGED <<disk, events, dirs, job>>
    BY <1>0, <1>7 DEF RecordApproval
  <2>2. QED
    BY <1>0, <1>4, <2>1, KeepRuns, PcNames
<1>8. CASE Resume(p)
  <2>1. /\ pc[p] = "resume" /\ UNCHANGED <<disk, events, dirs, job>>
        /\ \/ /\ pc'[p] = "save_config"
              /\ mem'[p] = AdoptCurrentConfiguration(mem[p], job[p].config)
           \/ pc'[p] = "validate" /\ mem' = mem
    BY <1>0, <1>8 DEF Resume
  <2>2. Same(mem'[p], mem[p])
    BY <1>0, <2>1, KeepRuns, PcNames DEF Same
  <2>3. QED
    BY <1>4, <2>1, <2>2
<1>9. CASE Validate(p)
  <2>1. /\ pc[p] = "validate" /\ pc'[p] = "scan" /\ mem' = mem
        /\ UNCHANGED <<disk, events, dirs, job>>
    BY <1>0, <1>9 DEF Validate
  <2>2. QED
    BY <1>4, <2>1 DEF Same
<1>10. QED
  BY <1>1, <1>2, <1>3, <1>5, <1>6, <1>7, <1>8, <1>9

\* create and save: the copy becomes what is stored.
LEMMA SavesKeepRuns ==
  ASSUME Inv, NEW p \in Proc, Frame(p), Save(p)
  PROVE  RunInv'
<1>1. /\ pc[p] \in DOMAIN AfterSave /\ pc[p] \in Holding
      /\ pc'[p] = AfterSave[pc[p]]
      /\ RunOf(p) \in Run /\ RunOf(p)' = RunOf(p) /\ mem[p] \in RunState /\ mem[p] # None
      /\ disk'[RunOf(p)] = mem[p]
      /\ UNCHANGED <<events, dirs, mem>>
  BY AfterSavePc, InvFacts, NoneAssumption DEF Save, Goto, RunOf, leaseVars, history
<1>2. /\ pc'[p] \in {"event_created", "event_approval", "event_config", "acquire", "ran",
                     "event_review"}
      /\ pc[p] # "mkdir"
  BY <1>1 DEF AfterSave
<1>3. CopyInv(p) /\ mem[p].reviewed \in BOOLEAN
  BY <1>1, InvFacts DEF RunState
<1>4. CopyInv(p)'
  BY <1>1, <1>2, <1>3 DEF CopyInv
<1>5. StoreInv(RunOf(p)) /\ RunOf(p) \in dirs
  BY <1>1, <1>2, <1>3 DEF Inv, RunInv, StoreInv, CopyInv
<1>6. ASSUME NEW r \in Run, r = RunOf(p)
      PROVE  StoreInv(r)'
  BY <1>1, <1>2, <1>3, <1>5, <1>6 DEF StoreInv, Stored, CopyInv
<1>7. QED
  BY <1>4, <1>6, RunStep

\* An event tells of what the checkpoint before it has.
LEMMA EventsKeepRuns ==
  ASSUME Inv, NEW p \in Proc, Frame(p), AppendEvent(p)
  PROVE  RunInv'
<1>1. /\ pc[p] \in DOMAIN AfterEvent /\ pc[p] \in Holding
      /\ pc'[p] = AfterEvent[pc[p]]
      /\ RunOf(p) \in Run /\ RunOf(p)' = RunOf(p)
      /\ events'[RunOf(p)] = events[RunOf(p)] \cup EventAt(p)
      /\ UNCHANGED <<disk, dirs, job, mem>>
  BY AfterEventPc, InvFacts DEF AppendEvent, Goto, RunOf, leaseVars, history
<1>2. /\ pc'[p] \in {"created", "report", "validate", "review"}
      /\ pc[p] \notin {"mkdir", "create", "save_review"}
  BY <1>1 DEF AfterEvent
<1>3. CopyInv(p) /\ CopySound(p)
  BY InvFacts
<1>4. CopyInv(p)'
  BY <1>1, <1>2, <1>3 DEF CopyInv
<1>5. ASSUME NEW e \in EventAt(p)
      PROVE  /\ e.event # "work-item-finished"
             /\ e.event = "completion-review-appended" => pc[p] = "event_review"
  BY <1>1, <1>5 DEF EventAt, AfterEvent
<1>6. ASSUME NEW r \in Run, r = RunOf(p)
      PROVE  StoreInv(r)'
  <2>1. StoreInv(r)
    BY DEF Inv, RunInv
  <2>2. pc[p] = "event_review" => disk[r] # None /\ disk[r].reviewed
    BY <1>1, <1>2, <1>3, <1>6 DEF CopyInv, CopySound
  <2>3. QED
    BY <1>1, <1>5, <1>6, <2>1, <2>2 DEF StoreInv, Stored
<1>7. QED
  BY <1>4, <1>6, RunStep

\* An iteration and its turns decide in memory: nothing is stored yet.
LEMMA IterationsKeepRuns ==
  ASSUME Inv, NEW p \in Proc, Frame(p),
         \/ Scan(p) \/ EndOfLoop(p) \/ PickWriter(p) \/ DispatchReaders(p) \/ DispatchWriter(p)
         \/ ProjectBusy(p) \/ TurnSucceeds(p) \/ TurnFails(p) \/ ReleaseProject(p) \/ Conclude(p)
  PROVE  RunInv'
<1> USE DEF storeVars, leaseVars, history, Goto, Step, Hold
<1>0. /\ pc \in [Proc -> Pc] /\ mem \in [Proc -> RunState \cup {None}]
      /\ pc[p] \in Holding \ {"mkdir", "create", "save_review"}
      /\ mem[p] \in RunState
  <2>1. pc[p] \in {"scan", "pick", "acquire", "turn", "release_project", "final"}
    BY DEF Scan, EndOfLoop, PickWriter, DispatchReaders, DispatchWriter, ProjectBusy,
       TurnSucceeds, TurnFails, EndTurns, ReleaseProject, Conclude
  <2>2. pc[p] \in Holding \ {"mkdir", "create", "save_review"}
    BY <2>1, PcNames
  <2>3. QED
    BY <2>2, InvFacts
<1>1. ASSUME UNCHANGED <<disk, events, dirs, job>>, Same(mem'[p], mem[p]),
             \/ pc'[p] \in {"persist_blocked", "pick", "final", "acquire", "turn", "persist"}
             \/ pc'[p] \in {"save_planned", "scan", "save_final", "ran"}
      PROVE  RunInv'
  <2>1. pc'[p] \in Holding \ {"mkdir", "create", "save_review"}
    BY <1>1, PcNames
  <2>2. QED
    BY <1>0, <1>1, <2>1, KeepsRun
<1>2. CASE Scan(p) \/ EndOfLoop(p) \/ ReleaseProject(p) \/ TurnSucceeds(p) \/ TurnFails(p)
  <2>1. mem' = mem /\ UNCHANGED <<disk, events, dirs, job>>
    BY <1>2 DEF Scan, EndOfLoop, ReleaseProject, TurnSucceeds, TurnFails, EndTurns
  <2>2. pc'[p] \in {"persist_blocked", "pick", "final", "scan", "turn", "persist"}
    BY <1>0, <1>2 DEF Scan, EndOfLoop, ReleaseProject, TurnSucceeds, TurnFails, EndTurns
  <2>3. QED
    BY <1>1, <2>1, <2>2 DEF Same
<1>3. CASE PickWriter(p)
  <2>1. /\ UNCHANGED <<disk, events, dirs, job>>
        /\ pc'[p] \in {"save_planned", "acquire"}
        /\ mem'[p] \in {mem[p], WithStatus(mem[p], "planned")}
    BY <1>0, <1>3 DEF PickWriter
  <2>2. Same(mem'[p], mem[p])
    BY <1>0, <2>1, KeepRuns DEF Same
  <2>3. QED
    BY <1>1, <2>1, <2>2
<1>4. CASE DispatchReaders(p) \/ DispatchWriter(p)
  <2>1. /\ UNCHANGED <<disk, events, dirs, job>>
        /\ pc'[p] = "turn" /\ mem'[p] = WithStatus(mem[p], "running")
    BY <1>0, <1>4 DEF DispatchReaders, DispatchWriter
  <2>2. QED
    BY <1>0, <1>1, <2>1, KeepRuns
<1>5. CASE ProjectBusy(p)
  BY <1>0, <1>5, LeavesRun DEF ProjectBusy
<1>6. CASE Conclude(p)
  <2>1. /\ UNCHANGED <<disk, events, dirs, job>> /\ pc'[p] \in {"ran", "save_final"}
        /\ mem'[p] = WithStatus(mem[p], FinalStatus(mem[p]))
    BY <1>0, <1>6 DEF Conclude
  <2>2. QED
    BY <1>0, <1>1, <2>1, KeepRuns
<1>7. QED
  BY <1>2, <1>3, <1>4, <1>5, <1>6

\* The first of the results in hand goes into the copy and to disk.
LEMMA PersistingKeepsRuns ==
  ASSUME Inv, NEW p \in Proc, Frame(p), PersistResult(p)
  PROVE  RunInv'
<1>1. PICK e \in todo[p] :
        /\ pc[p] \in Persisting
        /\ mem' = [mem EXCEPT ![p] = WithResult(mem[p], e.item, e.outcome)]
        /\ disk' = [disk EXCEPT ![RunOf(p)] = WithResult(mem[p], e.item, e.outcome)]
        /\ pc' = [pc EXCEPT ![p] = IF pc[p] = "persist" THEN "log" ELSE "log_blocked"]
        /\ UNCHANGED <<dirs, events, job>>
  BY DEF PersistResult, Goto, Hold
<1> DEFINE t == WithResult(mem[p], e.item, e.outcome)
<1>2. /\ mem[p] \in RunState /\ RunOf(p) \in Run /\ RunOf(p)' = RunOf(p)
      /\ todo[p] \subseteq Result
      /\ mem'[p] = t /\ disk'[RunOf(p)] = t /\ pc'[p] \in {"log", "log_blocked"}
      /\ CopyInv(p) /\ WorkInv(p) /\ StoreInv(RunOf(p))
      /\ pc[p] \in Holding \ {"mkdir", "create", "save_review"}
  <2>1. pc[p] \in Holding \ {"mkdir", "create", "save_review"}
    BY <1>1, PcNames DEF Persisting
  <2>2. mem[p] \in RunState /\ RunOf(p) \in Run /\ StoreInv(RunOf(p))
    BY <2>1, InvFacts
  <2>3. QED
    BY <1>1, <2>1, <2>2, InvFacts DEF RunOf
<1>3. Recordable(mem[p], e)
  BY <1>1, <1>2 DEF WorkInv, Persisting
<1>4. /\ t.plan = mem[p].plan /\ t.reviewed = mem[p].reviewed
      /\ t \in RunState /\ t # None
      /\ t.results[e.item] = e.outcome
      /\ \A i : i # e.item => t.results[i] = mem[p].results[i]
  <2>1. e \in Result /\ e.item \in Item /\ e.outcome \in Outcome
    BY <1>2 DEF Result
  <2>2. t \in RunState /\ t # None
    BY <1>2, <2>1, WithResultType, NoneAssumption
  <2>3. QED
    BY <1>2, <2>1, <2>2 DEF WithResult, RunState
<1>5. CopyInv(p)'
  BY <1>2, <1>4 DEF CopyInv
<1>6. ASSUME NEW r \in Run, r = RunOf(p)
      PROVE  StoreInv(r)'
  <2>1. /\ disk[r] # None /\ disk[r].results = mem[p].results
        /\ mem[p].reviewed = disk[r].reviewed /\ r \in dirs
    BY <1>2, <1>6, InvFacts DEF CopyInv, StoreInv, RunState
  <2>2. \A o \in events[r] : o.event = "work-item-finished" => o.outcome # "none"
    <3>1. events[r] \subseteq Event
      BY InvFacts
    <3>2. \A o \in Event : o.event = "work-item-finished" => o.outcome \in Outcome
      BY DEF Event
    <3>3. QED
      BY <3>1, <3>2 DEF Outcome
  <2>3. mem[p].results[e.item] = "none"
    BY <1>3 DEF Recordable, PendingItems
  <2>4. \A o \in events[r] : o.event = "work-item-finished" => t.results[o.item] = o.outcome
    BY <1>2, <1>4, <1>6, <2>1, <2>2, <2>3 DEF StoreInv
  <2>5. QED
    BY <1>1, <1>2, <1>4, <1>6, <2>1, <2>4 DEF StoreInv, Stored
<1>7. QED
  BY <1>5, <1>6, RunStep

\* Its event follows.
LEMMA LoggingKeepsRuns ==
  ASSUME Inv, NEW p \in Proc, Frame(p), LogResult(p)
  PROVE  RunInv'
<1>1. PICK e \in todo[p] :
        /\ pc[p] \in {"log", "log_blocked"} /\ Entry(p, e)
        /\ events' = [events EXCEPT ![RunOf(p)] = @ \cup
                        {[event |-> "work-item-finished", item |-> e.item,
                          outcome |-> e.outcome]}]
        /\ pc' = [pc EXCEPT ![p] =
                    IF todo[p] # {e}
                      THEN IF pc[p] = "log" THEN "persist" ELSE "persist_blocked"
                      ELSE AfterResults(p)]
        /\ UNCHANGED <<disk, dirs, job, mem>>
  BY DEF LogResult, Goto
<1>2. /\ RunOf(p) \in Run /\ RunOf(p)' = RunOf(p)
      /\ pc[p] \in Holding \ {"mkdir", "create", "save_review"}
      /\ pc'[p] \in Holding \ {"mkdir", "create", "save_review"}
      /\ CopyInv(p) /\ WorkInv(p) /\ StoreInv(RunOf(p))
  <2>1. pc[p] \in Holding \ {"mkdir", "create", "save_review"}
    BY <1>1, PcNames
  <2>2. pc'[p] \in {"persist", "persist_blocked", "pick", "release_project", "scan"}
    BY <1>1, InvFacts DEF AfterResults
  <2>3. QED
    BY <1>1, <2>1, <2>2, PcNames, InvFacts DEF RunOf
<1>3. CopyInv(p)'
  BY <1>1, <1>2 DEF CopyInv
<1>4. ASSUME NEW r \in Run, r = RunOf(p)
      PROVE  StoreInv(r)'
  <2>1. disk[r] # None /\ disk[r].results[e.item] = e.outcome
    BY <1>1, <1>2, <1>4 DEF CopyInv, WorkInv
  <2>2. events'[r] = events[r] \cup
          {[event |-> "work-item-finished", item |-> e.item, outcome |-> e.outcome]}
    BY <1>1, <1>4, InvFacts
  <2>3. QED
    BY <1>1, <1>2, <1>4, <2>1, <2>2 DEF StoreInv, Stored
<1>5. QED
  BY <1>3, <1>4, RunStep

\* The review, the report and the end of a command.
LEMMA ClosingKeepsRuns ==
  ASSUME Inv, NEW p \in Proc, Frame(p),
         \/ AfterRunReady(p) \/ Review(p) \/ WriteReport(p) \/ Exit(p)
         \/ Interrupt(p) \/ Kill(p)
  PROVE  RunInv'
<1> USE DEF storeVars, leaseVars, history, Goto, Step, Hold
<1>0. /\ pc \in [Proc -> Pc] /\ mem \in [Proc -> RunState \cup {None}] /\ CopyInv(p)
  BY InvFacts
<1>1. CASE AfterRunReady(p)
  <2>1. /\ pc[p] = "ran" /\ mem[p] \in RunState /\ RunOf(p)' = RunOf(p)
        /\ UNCHANGED <<disk, events, dirs, job>>
    BY <1>1, InvFacts, PcNames DEF AfterRunReady, RunOf
  <2>2. \A r \in Run : StoreInv(r)'
    BY <2>1 DEF Inv, RunInv, StoreInv, Stored
  <2>3. CASE ReviewDue(p) /\ ~mem[p].reviewed
    <3>1. mem'[p] = AppendCompletion(mem[p], job[p].config) /\ pc'[p] = "save_review"
      BY <1>0, <1>1, <2>3 DEF AfterRunReady
    <3>2. /\ mem'[p].plan = mem[p].plan
          /\ mem'[p].results = mem[p].results /\ mem'[p].reviewed = TRUE
      BY <2>1, <3>1 DEF AppendCompletion, RunState
    <3>3. CopyInv(p)'
      BY <1>0, <2>1, <3>1, <3>2, PcNames DEF CopyInv
    <3>4. QED
      BY <2>2, <3>3, RunStep
  <2>4. CASE ~(ReviewDue(p) /\ ~mem[p].reviewed)
    <3>1. mem' = mem /\ pc'[p] \in {"review", "report"}
      BY <1>0, <1>1, <2>4 DEF AfterRunReady
    <3>2. QED
      BY <2>1, <3>1, KeepsRun, PcNames DEF Same
  <2>5. QED
    BY <2>3, <2>4
<1>2. CASE Review(p)
  <2>1. /\ pc[p] = "review" /\ pc'[p] \in {"scan", "report"}
        /\ UNCHANGED <<disk, events, dirs, job, mem>>
    BY <1>0, <1>2 DEF Review
  <2>2. QED
    BY <2>1, KeepsRun, PcNames DEF Same
<1>3. CASE WriteReport(p) \/ Exit(p) \/ Interrupt(p) \/ Kill(p)
  BY <1>3, LeavesRun, StopsLeave, InvFacts
<1>4. QED
  BY <1>1, <1>2, <1>3

\* The command that owns a run keeps it, whatever it does.
LEMMA InvStep ==
  ASSUME Inv, [Next]_vars
  PROVE  Inv'
<1>1. SelfInv'
  BY SelfInvStep DEF Inv
<1>2. CASE UNCHANGED vars
  BY <1>1, <1>2 DEF Inv, OwnInv, RunOf, RunInv, StoreInv, Stored, CopyInv, vars, storeVars,
     leaseVars, procVars, history
<1>3. CASE ~UNCHANGED vars
  <2>1. PICK p \in Proc : /\ Frame(p)
                          /\ StartCommand(p) \/ Work(p) \/ Interrupt(p) \/ Kill(p)
    BY <1>3, StepsOfProcesses DEF Inv, SelfInv
  <2>2. OwnInv'
    BY <2>1, Ownership DEF Inv, SelfInv
  <2>3. ~LateWrite(p)
    BY DEF LateWrite, Inv, OwnInv
  <2>4. RunInv'
    BY <2>1, <2>3, CommandsKeepRuns, SavesKeepRuns, EventsKeepRuns, IterationsKeepRuns,
       PersistingKeepsRuns, LoggingKeepsRuns, ClosingKeepsRuns DEF Work
  <2>5. QED
    BY <1>1, <2>2, <2>4 DEF Inv
<1>4. QED
  BY <1>2, <1>3

\* Nothing exists and nobody is busy at first.
LEMMA InvInit == Init /\ LateWrites = FALSE => Inv
<1> SUFFICES ASSUME Init, LateWrites = FALSE PROVE Inv
  OBVIOUS
<1>1. OwnInv
  BY DEF Init, OwnInv
<1>2. RunInv
  BY PcNames DEF Init, RunInv, StoreInv, CopyInv
<1>3. QED
  BY <1>1, <1>2, SelfInvInit DEF Inv

LEMMA Invariance == Spec /\ LateWrites = FALSE => []Inv
<1>1. Inv /\ [Next]_vars => Inv'
  BY InvStep
<1>2. QED
  BY <1>1, InvInit, PTL DEF Spec

-----------------------------------------------------------------------------
(* What follows from it.                                                   *)

\* save rewrites state.json from the copy, and the copy lacks no result that is stored.
THEOREM CopiesAreCurrent == Spec /\ LateWrites = FALSE => []CopyHasStoredResults
<1>1. ASSUME Inv
      PROVE  CopyHasStoredResults
  <2> SUFFICES ASSUME NEW p \in Proc, mem[p] # None, pc[p] \notin {"mkdir", "unwind"},
                      Stored(RunOf(p))
               PROVE  mem[p].results = disk[RunOf(p)].results
    BY DEF CopyHasStoredResults
  <2>1. pc[p] \in Holding
    BY <1>1, InvFacts DEF OwnInv, Holding
  <2>2. QED
    BY <1>1, <2>1 DEF Inv, RunInv, CopyInv, Stored
<1>2. QED
  BY <1>1, Invariance, PTL

\* _dispatchable_items: a turn starts from dependencies whose success is on disk.
THEOREM DependenciesAreDurable == Spec /\ LateWrites = FALSE => []DependenciesDurable
<1>1. ASSUME Inv
      PROVE  DependenciesDurable
  <2> SUFFICES ASSUME NEW p \in Proc, NEW i \in Item, InTurn(p, i),
                      NEW d \in Dependencies(mem[p], i)
               PROVE  Succeeded(disk[RunOf(p)], d)
    BY DEF DependenciesDurable
  <2>1. WorkInv(p) /\ CopyInv(p)
    BY <1>1, InvFacts
  <2>2. Succeeded(mem[p], d)
    BY <2>1 DEF InTurn, WorkInv, Ready
  <2>3. mem[p].results = disk[RunOf(p)].results
    BY <2>1, PcNames DEF InTurn, CopyInv
  <2>4. QED
    BY <2>2, <2>3 DEF Succeeded
<1>2. QED
  BY <1>1, Invariance, PTL

\* A process may stop between a checkpoint and its event, never the other way round.
THEOREM EventsAreTrue == Spec /\ LateWrites = FALSE => []EventsFollowState
<1>1. Inv => EventsFollowState
  BY DEF Inv, RunInv, StoreInv, EventsFollowState
<1>2. QED
  BY <1>1, Invariance, PTL

-----------------------------------------------------------------------------
(* Every checkpoint is a step of the run's lifecycle.                      *)

Undecided(s) == s.plan \in Plans /\ s.reviewed = FALSE /\ s.results = [i \in Item |-> "none"]

\* What one call of the store can do to a run.
Checkpointed(r) ==
  \/ disk[r] = None /\ disk'[r] # None /\ Undecided(disk'[r])
  \/ /\ disk[r] # None /\ disk'[r] # None /\ disk'[r].plan = disk[r].plan
     /\ \/ Same(disk'[r], disk[r])
        \/ /\ disk'[r].results = disk[r].results
           /\ disk[r].reviewed = FALSE /\ disk'[r].reviewed = TRUE
           /\ ~disk[r].plan.explicit /\ \A i \in disk[r].plan.items : Succeeded(disk[r], i)
        \/ /\ disk'[r].reviewed = disk[r].reviewed
           /\ \E e \in Result : /\ Recordable(disk[r], e)
                                /\ disk'[r].results = [disk[r].results EXCEPT ![e.item] = e.outcome]

LEMMA CheckpointsAreSteps ==
  ASSUME Inv, [Next]_vars, disk' # disk
  PROVE  \E r \in Run : /\ Checkpointed(r)
                        /\ \A q \in Run \ {r} : disk'[q] = disk[q]
<1>1. PICK p \in Proc : Save(p) \/ PersistResult(p)
  <2>1. PICK p \in Proc : StartCommand(p) \/ Work(p) \/ Interrupt(p) \/ Kill(p)
    BY DEF Next, vars, storeVars
  <2>2. ~LateWrite(p)
    BY DEF LateWrite, Inv, OwnInv
  <2>3. Save(p) \/ PersistResult(p)
    BY <2>1, <2>2
       DEF Work, storeVars, StartCommand, AppendEvent, Prepare, CreateDirectory, Created, Load,
           RecordApproval, Resume, Validate, Scan, LogResult, EndOfLoop, PickWriter,
           DispatchReaders, DispatchWriter, ProjectBusy, TurnSucceeds, TurnFails, EndTurns,
           ReleaseProject, Conclude, AfterRunReady, Review, WriteReport, Exit, Interrupt, Kill
  <2>4. QED
    BY <2>3
<1>2. /\ pc[p] \in Holding /\ pc[p] # "mkdir" /\ (pc[p] = "create" => Save(p))
  BY <1>1, AfterSavePc, PcNames DEF Save, PersistResult, Persisting, AfterSave
<1>3. /\ mem[p] \in RunState /\ mem[p] # None /\ RunOf(p) \in Run
      /\ CopySound(p) /\ WorkInv(p) /\ CopyInv(p)
      /\ disk \in [Run -> RunState \cup {None}]
  BY <1>2, InvFacts, NoneAssumption
<1>4. CASE Save(p)
  <2>1. disk' = [disk EXCEPT ![RunOf(p)] = mem[p]]
    BY <1>4 DEF Save
  <2>2. CASE pc[p] = "create"
    <3>1. mem[p].results = [i \in Item |-> "none"] /\ mem[p].reviewed = FALSE
      BY <1>2, <1>3, <2>2 DEF CopySound, RunState
    <3>2. QED
      BY <1>2, <1>3, <2>1, <2>2, <3>1 DEF CopyInv, CopySound, Sound, Checkpointed, Undecided
  <2>3. CASE pc[p] # "create"
    <3>1. /\ disk[RunOf(p)] # None /\ mem[p].plan = disk[RunOf(p)].plan
          /\ mem[p].results = disk[RunOf(p)].results
          /\ mem[p].reviewed = (disk[RunOf(p)].reviewed \/ pc[p] = "save_review")
          /\ mem[p].reviewed \in BOOLEAN /\ disk[RunOf(p)].reviewed \in BOOLEAN
      BY <1>2, <1>3, <2>3 DEF CopyInv, RunState
    <3>2. CASE mem[p].reviewed = disk[RunOf(p)].reviewed
      BY <1>3, <2>1, <3>1, <3>2 DEF Checkpointed, Same
    <3>3. CASE mem[p].reviewed # disk[RunOf(p)].reviewed
      <4>1. /\ mem[p].reviewed = TRUE /\ disk[RunOf(p)].reviewed = FALSE
            /\ ~mem[p].plan.explicit /\ \A i \in mem[p].plan.items : Succeeded(mem[p], i)
        BY <1>2, <1>3, <3>1, <3>3 DEF CopySound, Sound
      <4>2. QED
        BY <1>3, <2>1, <3>1, <4>1 DEF Checkpointed, Succeeded
    <3>4. QED
      BY <3>2, <3>3
  <2>4. QED
    BY <2>2, <2>3
<1>5. CASE PersistResult(p)
  <2>1. PICK e \in todo[p] :
          /\ pc[p] \in Persisting
          /\ disk' = [disk EXCEPT ![RunOf(p)] = WithResult(mem[p], e.item, e.outcome)]
    BY <1>5 DEF PersistResult
  <2>2. e \in Result /\ e.item \in Item /\ e.outcome \in Outcome
    BY InvFacts DEF Result
  <2>3. Recordable(mem[p], e)
    BY <1>3, <2>1 DEF WorkInv, Persisting
  <2>4. /\ disk[RunOf(p)] # None /\ Same(mem[p], disk[RunOf(p)])
    BY <1>2, <1>3, <2>1 DEF CopyInv, Same, Persisting, RunState
  <2>5. /\ WithResult(mem[p], e.item, e.outcome) \in RunState
        /\ WithResult(mem[p], e.item, e.outcome).plan = mem[p].plan
        /\ WithResult(mem[p], e.item, e.outcome).reviewed = mem[p].reviewed
        /\ WithResult(mem[p], e.item, e.outcome).results
             = [mem[p].results EXCEPT ![e.item] = e.outcome]
    BY <1>3, <2>2, WithResultType DEF WithResult, RunState
  <2>6. Recordable(disk[RunOf(p)], e)
    BY <2>3, <2>4, SameRuns
  <2>7. /\ disk'[RunOf(p)] # None
        /\ disk'[RunOf(p)].plan = disk[RunOf(p)].plan
        /\ disk'[RunOf(p)].reviewed = disk[RunOf(p)].reviewed
        /\ disk'[RunOf(p)].results = [disk[RunOf(p)].results EXCEPT ![e.item] = e.outcome]
    BY <1>3, <2>1, <2>4, <2>5, NoneAssumption DEF Same
  <2>8. Checkpointed(RunOf(p))
    BY <2>2, <2>4, <2>6, <2>7 DEF Checkpointed
  <2>9. QED
    BY <1>3, <2>1, <2>8
<1>6. QED
  BY <1>1, <1>4, <1>5

\* Checkpoints neither drop nor change a result that is on disk.
THEOREM TerminalResultsAreFinal == Spec /\ LateWrites = FALSE => TerminalResultsStay
<1>1. ASSUME Inv, [Next]_vars, disk' # disk, NEW r \in Run, Stored(r)
      PROVE  /\ disk'[r] # None
             /\ \A i \in Item : disk[r].results[i] # "none" =>
                  disk'[r].results[i] = disk[r].results[i]
  <2>1. disk'[r] = disk[r] \/ Checkpointed(r)
    BY <1>1, CheckpointsAreSteps
  <2>2. disk[r] \in RunState
    BY <1>1 DEF Stored, Inv, SelfInv, TypeInv, TypeOK
  <2>3. QED
    BY <1>1, <2>1, <2>2 DEF Stored, Checkpointed, Same, Recordable, PendingItems, RunState
<1>2. Inv /\ [Next]_vars => [\A r \in Run : Stored(r) =>
       /\ disk'[r] # None
       /\ \A i \in Item : disk[r].results[i] # "none" =>
            disk'[r].results[i] = disk[r].results[i]]_disk
  BY <1>1
<1>3. QED
  BY <1>2, Invariance, PTL DEF Spec, TerminalResultsStay

\* What such a checkpoint is in the run's lifecycle.
LEMMA StepsOfLifecycle ==
  ASSUME Inv, [Next]_vars, disk' # disk
  PROVE  Lifecycle!Next \/ recorded' = recorded
<1>1. PICK r \in Run : Checkpointed(r) /\ \A q \in Run \ {r} : disk'[q] = disk[q]
  BY CheckpointsAreSteps
<1>2. /\ disk \in [Run -> RunState \cup {None}] /\ disk' \in [Run -> RunState \cup {None}]
  BY InvStep DEF Inv, SelfInv, TypeInv, TypeOK
<1>3. /\ disk'[r] # None => recorded' = [recorded EXCEPT ![r] = Recorded(disk'[r])]
      /\ disk[r] = None => recorded[r] = None
      /\ disk[r] # None => recorded[r] = Recorded(disk[r]) /\ recorded[r] # None
  <2>1. \A s \in RunState : Recorded(s) # None
    BY RecordedAssumption DEF Recorded, RunState
  <2>2. QED
    BY <1>1, <1>2, <2>1 DEF recorded
<1>4. disk'[r] # None
  BY <1>1 DEF Checkpointed
<1>5. CASE disk[r] = None /\ Undecided(disk'[r])
  <2>1. Recorded(disk'[r]) = [plan |-> disk'[r].plan, reviewed |-> FALSE,
                              results |-> [i \in Item |-> "none"]]
    BY <1>5 DEF Recorded, Undecided
  <2>2. Lifecycle!Create(r)
    BY <1>3, <1>4, <1>5, <2>1 DEF Lifecycle!Create, Undecided, Lifecycle!Item, Item,
       Lifecycle!Completion, Completion
  <2>3. QED
    BY <2>2 DEF Lifecycle!Next
<1>6. CASE disk[r] # None /\ Same(disk'[r], disk[r])
  <2>1. Recorded(disk'[r]) = recorded[r]
    BY <1>3, <1>6 DEF Recorded, Same
  <2>2. recorded' = recorded
    BY <1>3, <1>4, <2>1 DEF recorded
  <2>3. QED
    BY <2>2
<1>7. CASE /\ disk[r] # None /\ disk'[r].plan = disk[r].plan
           /\ disk'[r].results = disk[r].results
           /\ disk[r].reviewed = FALSE /\ disk'[r].reviewed = TRUE
           /\ ~disk[r].plan.explicit /\ \A i \in disk[r].plan.items : Succeeded(disk[r], i)
  <2>1. Recorded(disk'[r]) = [recorded[r] EXCEPT !.reviewed = TRUE]
    <3>1. recorded[r] = [plan |-> disk[r].plan, reviewed |-> FALSE, results |-> disk[r].results]
      BY <1>3, <1>7 DEF Recorded
    <3>2. Recorded(disk'[r]) = [plan |-> disk[r].plan, reviewed |-> TRUE,
                                results |-> disk[r].results]
      BY <1>7 DEF Recorded
    <3>3. recorded[r] \in [plan: Plan, reviewed: BOOLEAN, results: [Item -> Outcome \cup {"none"}]]
      BY <1>2, <1>7, <3>1 DEF RunState
    <3>4. \A s \in [plan: Plan, reviewed: BOOLEAN, results: [Item -> Outcome \cup {"none"}]],
             b \in BOOLEAN :
            [s EXCEPT !.reviewed = b] = [plan |-> s.plan, reviewed |-> b, results |-> s.results]
      OBVIOUS
    <3>5. TRUE \in BOOLEAN
      OBVIOUS
    <3>6. [recorded[r] EXCEPT !.reviewed = TRUE] =
            [plan |-> recorded[r].plan, reviewed |-> TRUE, results |-> recorded[r].results]
      BY <3>3, <3>4, <3>5, Zenon
    <3>7. recorded[r].plan = disk[r].plan /\ recorded[r].results = disk[r].results
      BY <3>1
    <3>8. QED
      BY <3>2, <3>6, <3>7, Zenon
  <2>2. /\ ~recorded[r].plan.explicit /\ ~recorded[r].reviewed
        /\ \A i \in recorded[r].plan.items : Lifecycle!Succeeded(recorded[r], i)
    BY <1>3, <1>7 DEF Recorded, Lifecycle!Succeeded, Succeeded
  <2>3. recorded' = [recorded EXCEPT ![r].reviewed = TRUE]
    BY <1>3, <1>4, <2>1
  <2>4. Lifecycle!AppendReview(r)
    BY <1>3, <1>7, <2>2, <2>3 DEF Lifecycle!AppendReview
  <2>5. QED
    BY <2>4 DEF Lifecycle!Next
<1>8. ASSUME disk[r] # None, disk'[r].plan = disk[r].plan,
             disk'[r].reviewed = disk[r].reviewed,
             NEW e \in Result, Recordable(disk[r], e),
             disk'[r].results = [disk[r].results EXCEPT ![e.item] = e.outcome]
      PROVE  Lifecycle!Finish(r) \/ Lifecycle!Block(r)
  <2>1. Recorded(disk'[r]) = [recorded[r] EXCEPT !.results[e.item] = e.outcome]
    BY <1>3, <1>8 DEF Recorded
  <2>2. /\ Lifecycle!WorkItems(recorded[r]) = WorkItems(disk[r])
        /\ \A i : Lifecycle!Dependencies(recorded[r], i) = Dependencies(disk[r], i)
        /\ recorded[r].results = disk[r].results
        /\ \A i : Lifecycle!Succeeded(recorded[r], i) <=> Succeeded(disk[r], i)
    BY <1>3, <1>8 DEF Recorded, Lifecycle!WorkItems, WorkItems, Lifecycle!Dependencies,
       Dependencies, Lifecycle!Succeeded, Succeeded, Lifecycle!Completion, Completion
  <2>3. e.item \in WorkItems(disk[r]) /\ disk[r].results[e.item] = "none" /\ e.outcome \in Outcome
    BY <1>8 DEF Recordable, PendingItems, Result
  <2>4. recorded' = [recorded EXCEPT ![r].results[e.item] = e.outcome]
    BY <1>3, <1>4, <2>1
  <2>5. Lifecycle!Decide(r, e.item, e.outcome)
    BY <2>2, <2>3, <2>4 DEF Lifecycle!Decide
  <2>6. CASE e.outcome = "blocked"
    BY <1>3, <1>8, <2>2, <2>3, <2>5, <2>6 DEF Lifecycle!Block, Recordable
  <2>7. CASE e.outcome # "blocked"
    <3>1. \A d \in Dependencies(disk[r], e.item) : Succeeded(disk[r], d)
      BY <1>8, <2>7 DEF Recordable, Ready
    <3>2. e.outcome \in {"succeeded", "failed"}
      BY <2>3, <2>7 DEF Outcome
    <3>3. QED
      BY <1>3, <1>8, <2>2, <2>3, <2>5, <3>1, <3>2 DEF Lifecycle!Finish
  <2>8. QED
    BY <2>6, <2>7
<1>9. QED
  BY <1>1, <1>5, <1>6, <1>7, <1>8 DEF Checkpointed, Lifecycle!Next

(***************************************************************************)
(* Refinement: whoever works on a run and however often it is interrupted, *)
(* resumed or adopted, what state.json keeps of it goes through the steps  *)
(* of RunLifecycle, and through nothing else.                              *)
(***************************************************************************)
THEOREM RunsFollowLifecycle == Spec /\ LateWrites = FALSE => ImplementsLifecycle
<1>1. Init => Lifecycle!Init
  BY DEF Init, Lifecycle!Init, recorded
<1>2. ASSUME Inv, [Next]_vars
      PROVE  [Lifecycle!Next]_recorded
  <2>1. CASE disk' = disk
    BY <2>1 DEF recorded
  <2>2. CASE disk' # disk
    BY <1>2, <2>2, StepsOfLifecycle
  <2>3. QED
    BY <2>1, <2>2
<1>3. QED
  BY <1>1, <1>2, Invariance, PTL DEF Spec, ImplementsLifecycle, Lifecycle!Spec

-----------------------------------------------------------------------------
(* What a command may conclude.                                            *)

\* Where a copy has changes that are still to be written.
Unsaved == DOMAIN AfterSave \cup {"mkdir", "turn", "persist"}

\* Where a command goes once its loop has ended.
Concluding == {"save_final", "ran", "save_review", "event_review", "review", "report"}

ConcludesWell(p) ==
  /\ pc[p] \in Holding \ Unsaved => disk[RunOf(p)] = mem[p]
  /\ pass[p] = 2 => pc[p] \notin {"idle", "prepare", "load"} /\ mem[p].reviewed
  /\ pc[p] \in {"approve", "save_approval", "event_approval"} => job[p].cmd = "approve"
  /\ pc[p] \in Concluding /\ Runs(p) /\ mem[p].status = "completed" =>
       /\ AllSucceeded(mem[p])
       /\ pc[p] = "report" => mem[p].plan.explicit \/ mem[p].reviewed

ConcludeInv == \A p \in Proc : ConcludesWell(p)

\* A step that changes anything is one of a process that owns its run.
LEMMA StepsOfOwners ==
  ASSUME Inv, [Next]_vars, ~UNCHANGED vars
  PROVE  \E p \in Proc :
           /\ Frame(p)
           /\ \/ /\ Work(p) /\ ~LateWrite(p) /\ ~WriteReport(p) /\ ~Exit(p)
              \/ StartCommand(p)
              \/ WriteReport(p) \/ Exit(p) \/ Interrupt(p) \/ Kill(p)
<1>1. PICK p \in Proc : /\ Frame(p)
                        /\ StartCommand(p) \/ Work(p) \/ Interrupt(p) \/ Kill(p)
  BY StepsOfProcesses DEF Inv, SelfInv
<1>2. ~LateWrite(p)
  BY DEF LateWrite, Inv, OwnInv
<1>3. QED
  BY <1>1, <1>2

\* The commands of the others keep what they have concluded.
LEMMA ConcludeStep ==
  ASSUME Inv, ConcludeInv, NEW p \in Proc, Frame(p), ConcludesWell(p)'
  PROVE  ConcludeInv'
<1> SUFFICES ASSUME NEW q \in Proc, q # p
             PROVE  ConcludesWell(q)'
  BY DEF ConcludeInv
<1>1. /\ pc'[q] = pc[q] /\ mem'[q] = mem[q] /\ pass'[q] = pass[q] /\ job'[q] = job[q]
      /\ pc[q] # "idle" => RunOf(q)' = RunOf(q) /\ disk'[RunOf(q)] = disk[RunOf(q)]
  BY OthersStay, InvFacts
<1>2. ConcludesWell(q)
  BY DEF ConcludeInv
<1>3. Runs(q)' <=> Runs(q)
  BY <1>1 DEF Runs
<1>4. QED
  BY <1>1, <1>2, <1>3, PcNames DEF ConcludesWell

\* A list of work items has one: completion takes base work that succeeded.
LEMMA CompletedHasReview ==
  ASSUME NEW s, Sound(s), AllSucceeded(s)
  PROVE  BaseWorkSucceeded(s)
<1>1. s.plan.items # {} /\ s.plan.items \subseteq WorkItems(s)
  BY PlansAssumption DEF Sound, ValidPlan, WorkItems
<1>2. QED
  BY <1>1 DEF AllSucceeded, BaseWorkSucceeded

\* _final_status calls a run completed only when every item succeeded.
LEMMA CompletedMeansSucceeded ==
  ASSUME NEW s, FinalStatus(s) = "completed"
  PROVE  AllSucceeded(s)
BY DEF FinalStatus

\* From a command's start to the scheduler.
LEMMA CommandsConclude ==
  ASSUME Inv, ConcludeInv, NEW p \in Proc, Frame(p),
         \/ StartCommand(p) \/ Prepare(p) \/ CreateDirectory(p) \/ Created(p)
         \/ Load(p) \/ RecordApproval(p) \/ Resume(p) \/ Validate(p)
  PROVE  ConcludeInv'
<1> USE DEF storeVars, leaseVars, history, Goto, Step, Hold, RunOf, Runs
<1>0. /\ pc \in [Proc -> Pc] /\ mem \in [Proc -> RunState \cup {None}]
      /\ job \in [Proc -> Job \cup {None}] /\ pass \in [Proc -> {1, 2}]
      /\ pc[p] # "idle" => job[p].cmd \in Command
      /\ ConcludesWell(p)
  BY DEF Inv, SelfInv, TypeInv, TypeOK, CommandsHaveState, ConcludeInv, Job
<1>1. CASE StartCommand(p) \/ Prepare(p)
  <2>1. /\ pc[p] \in {"idle", "prepare"} /\ pc'[p] \in {"prepare", "load", "mkdir"}
        /\ pass' = pass
    BY <1>0, <1>1 DEF StartCommand, Prepare
  <2>2. ConcludesWell(p)'
    BY <1>0, <2>1, PcNames DEF ConcludesWell, Unsaved, Concluding
  <2>3. QED
    BY <2>2, ConcludeStep
<1>2. CASE CreateDirectory(p)
  <2>1. /\ pc[p] = "mkdir" /\ pc'[p] \in {"unwind", "create"} /\ UNCHANGED <<mem, job, pass>>
    BY <1>0, <1>2 DEF CreateDirectory
  <2>2. pc'[p] \notin Holding \ Unsaved /\ pc'[p] \notin Concluding
    BY <2>1, PcNames DEF Unsaved, AfterSave, Concluding
  <2>3. ConcludesWell(p)'
    BY <1>0, <2>1, <2>2 DEF ConcludesWell
  <2>4. QED
    BY <2>3, ConcludeStep
<1>3. CASE Created(p) \/ Validate(p)
  <2>1. /\ pc[p] \in {"created", "validate"} /\ pc'[p] \in {"unwind", "scan"}
        /\ UNCHANGED <<disk, job, mem>> /\ pass'[p] = 1
    BY <1>0, <1>3 DEF Created, Validate, EnterRunReady
  <2>2. ConcludesWell(p)'
    BY <1>0, <2>1, PcNames DEF ConcludesWell, Unsaved, Concluding, AfterSave
  <2>3. QED
    BY <2>2, ConcludeStep
<1>4. CASE Load(p)
  <2>1. /\ pc[p] = "load" /\ UNCHANGED <<disk, job, pass>> /\ pass[p] = 1
        /\ job[p].cmd \in Command
        /\ \/ pc'[p] = "unwind"
           \/ pc'[p] = AfterLoad[job[p].cmd] /\ mem'[p] = disk[RunOf(p)]
    BY <1>0, <1>4 DEF Load, ConcludesWell
  <2>2. /\ AfterLoad[job[p].cmd] \in {"approve", "report", "resume"}
        /\ AfterLoad[job[p].cmd] = "approve" => job[p].cmd = "approve"
        /\ AfterLoad[job[p].cmd] = "report" => job[p].cmd = "report"
    BY <2>1 DEF AfterLoad
  <2>3. ConcludesWell(p)'
    BY <2>1, <2>2, PcNames DEF ConcludesWell, Concluding
  <2>4. QED
    BY <2>3, ConcludeStep
<1>5. CASE RecordApproval(p)
  <2>1. PICK i \in WorkItems(mem[p]) :
          /\ pc[p] = "approve" /\ pc'[p] = "save_approval"
          /\ mem'[p] = Approve(mem[p], i)
          /\ UNCHANGED <<disk, job, pass>>
    BY <1>0, <1>5 DEF RecordApproval
  <2>2. mem[p] \in RunState
    BY <2>1, InvFacts, PcNames
  <2>3. mem'[p].reviewed = mem[p].reviewed
    BY <2>1, <2>2, KeepRuns DEF Same
  <2>4. ConcludesWell(p)'
    BY <1>0, <2>1, <2>3 DEF ConcludesWell, Unsaved, Concluding, AfterSave
  <2>5. QED
    BY <2>4, ConcludeStep
<1>6. CASE Resume(p)
  <2>1. pc[p] = "resume" /\ UNCHANGED <<disk, job, pass>> /\ mem[p] \in RunState
    BY <1>0, <1>6, InvFacts, PcNames DEF Resume
  <2>2. /\ pc'[p] \in {"save_config", "validate"} /\ pc'[p] \notin Concluding
        /\ pc'[p] = "save_config" =>
             mem'[p] = AdoptCurrentConfiguration(mem[p], job[p].config)
        /\ pc'[p] = "validate" => mem' = mem
    BY <1>0, <1>6 DEF Resume, Concluding
  <2>3. mem'[p].reviewed = mem[p].reviewed
    BY <2>1, <2>2, KeepRuns DEF Same
  <2>4. disk[RunOf(p)] = mem[p]
    BY <1>0, <2>1, PcNames DEF ConcludesWell, Unsaved, AfterSave
  <2>5. "save_config" \in Unsaved
    BY DEF Unsaved, AfterSave
  <2>6. pc'[p] \in Holding \ Unsaved => disk'[RunOf(p)'] = mem'[p]
    BY <2>1, <2>2, <2>4, <2>5
  <2>7. ConcludesWell(p)'
    BY <1>0, <2>1, <2>2, <2>3, <2>5, <2>6 DEF ConcludesWell
  <2>8. QED
    BY <2>7, ConcludeStep
<1>7. QED
  BY <1>1, <1>2, <1>3, <1>4, <1>5, <1>6

\* A checkpoint writes the copy, and its event follows.
LEMMA CheckpointsConclude ==
  ASSUME Inv, ConcludeInv, NEW p \in Proc, Frame(p), Save(p) \/ AppendEvent(p)
  PROVE  ConcludeInv'
<1> USE DEF storeVars, leaseVars, history, Goto, RunOf, Runs
<1>0. /\ pc \in [Proc -> Pc] /\ disk \in [Run -> RunState \cup {None}]
      /\ ConcludesWell(p)
      /\ pc[p] \in Holding /\ RunOf(p) \in Run
  BY AfterSavePc, AfterEventPc, InvFacts DEF Save, AppendEvent, ConcludeInv
<1>1. CASE Save(p)
  <2>1. /\ pc[p] \in DOMAIN AfterSave /\ pc'[p] = AfterSave[pc[p]]
        /\ disk'[RunOf(p)] = mem[p] /\ UNCHANGED <<mem, job, pass>>
    BY <1>0, <1>1 DEF Save
  <2>2. /\ pc'[p] \in {"event_created", "event_approval", "event_config", "acquire", "ran",
                       "event_review"}
        /\ pc'[p] = "event_approval" => pc[p] = "save_approval"
        /\ pc'[p] \in Concluding => pc[p] \in Concluding
    BY <2>1 DEF AfterSave, Concluding
  <2>3. ConcludesWell(p)'
    BY <1>0, <2>1, <2>2 DEF ConcludesWell
  <2>4. QED
    BY <2>3, ConcludeStep
<1>2. CASE AppendEvent(p)
  <2>1. /\ pc[p] \in DOMAIN AfterEvent /\ pc'[p] = AfterEvent[pc[p]]
        /\ UNCHANGED <<disk, mem, job, pass>>
    BY <1>0, <1>2 DEF AppendEvent
  <2>2. /\ pc[p] \notin Unsaved
        /\ pc'[p] \in {"created", "report", "validate", "review"}
        /\ pc'[p] = "report" => pc[p] = "event_approval"
        /\ pc'[p] = "review" => pc[p] \in Concluding
    BY <2>1 DEF AfterEvent, AfterSave, Unsaved, Concluding
  <2>3. ConcludesWell(p)'
    BY <1>0, <2>1, <2>2 DEF ConcludesWell, Concluding
  <2>4. QED
    BY <2>3, ConcludeStep
<1>3. QED
  BY <1>1, <1>2

\* The loop concludes nothing, and keeps what it has written.
LEMMA LoopConcludes ==
  ASSUME Inv, ConcludeInv, NEW p \in Proc, Frame(p),
         \/ Scan(p) \/ PersistResult(p) \/ LogResult(p) \/ EndOfLoop(p) \/ PickWriter(p)
         \/ DispatchReaders(p) \/ DispatchWriter(p) \/ ProjectBusy(p) \/ TurnSucceeds(p)
         \/ TurnFails(p) \/ ReleaseProject(p)
  PROVE  ConcludeInv'
<1> USE DEF storeVars, leaseVars, history, Goto, Step, Hold, RunOf
<1>0. /\ pc \in [Proc -> Pc] /\ mem \in [Proc -> RunState \cup {None}]
      /\ disk \in [Run -> RunState \cup {None}] /\ ConcludesWell(p)
      /\ pc[p] \in Holding /\ mem[p] \in RunState /\ RunOf(p) \in Run
  <2>1. pc[p] \in Holding
    BY PcNames
       DEF Scan, PersistResult, LogResult, EndOfLoop, PickWriter, DispatchReaders,
           DispatchWriter, ProjectBusy, TurnSucceeds, TurnFails, EndTurns, ReleaseProject,
           Persisting
  <2>2. QED
    BY <2>1, InvFacts DEF ConcludeInv
<1>1. ASSUME UNCHANGED <<job, pass>>, mem'[p].reviewed = mem[p].reviewed,
             pc'[p] \in {"scan", "pick", "persist_blocked", "log_blocked", "acquire",
                         "save_planned", "turn", "persist", "log", "release_project", "final",
                         "unwind"},
             pc'[p] \notin Unsaved \cup {"unwind"} => disk'[RunOf(p)] = mem'[p]
      PROVE  ConcludeInv'
  BY <1>0, <1>1, ConcludeStep, PcNames DEF ConcludesWell, Concluding
<1>2. pc[p] \in {"scan", "pick", "log", "log_blocked", "release_project", "acquire",
                 "persist_blocked"} => disk[RunOf(p)] = mem[p]
  BY <1>0 DEF ConcludesWell, Unsaved, AfterSave
<1>3. CASE Scan(p) \/ LogResult(p) \/ EndOfLoop(p) \/ ReleaseProject(p) \/ ProjectBusy(p)
  BY <1>0, <1>1, <1>2, <1>3
     DEF Scan, LogResult, EndOfLoop, ReleaseProject, ProjectBusy, AfterResults, Unsaved, AfterSave
<1>4. CASE PersistResult(p)
  <2>1. PICK e \in todo[p] :
          /\ mem'[p] = WithResult(mem[p], e.item, e.outcome)
          /\ disk'[RunOf(p)] = WithResult(mem[p], e.item, e.outcome)
          /\ pc'[p] \in {"log", "log_blocked"}
          /\ UNCHANGED <<job, pass>>
    BY <1>0, <1>4 DEF PersistResult
  <2>2. mem'[p].reviewed = mem[p].reviewed
    BY <1>0, <2>1 DEF WithResult, RunState
  <2>3. QED
    BY <1>1, <2>1, <2>2
<1>5. CASE PickWriter(p)
  <2>1. /\ pc[p] = "pick" /\ UNCHANGED <<job, pass, disk>>
        /\ \/ pc'[p] = "save_planned" /\ mem'[p] = WithStatus(mem[p], "planned")
           \/ pc'[p] = "acquire" /\ mem' = mem
    BY <1>0, <1>5 DEF PickWriter
  <2>2. mem'[p].reviewed = mem[p].reviewed
    BY <1>0, <2>1, KeepRuns DEF Same
  <2>3. QED
    BY <1>1, <1>2, <2>1, <2>2 DEF Unsaved, AfterSave
<1>6. CASE DispatchReaders(p) \/ DispatchWriter(p)
  <2>1. /\ pc'[p] = "turn" /\ mem'[p] = WithStatus(mem[p], "running") /\ UNCHANGED <<job, pass>>
    BY <1>0, <1>6 DEF DispatchReaders, DispatchWriter
  <2>2. QED
    BY <1>0, <1>1, <2>1, KeepRuns DEF Unsaved, Same
<1>7. CASE TurnSucceeds(p) \/ TurnFails(p)
  BY <1>0, <1>1, <1>7 DEF TurnSucceeds, TurnFails, EndTurns, Unsaved
<1>8. QED
  BY <1>3, <1>4, <1>5, <1>6, <1>7

\* The status, the review and the report.
LEMMA EndsConclude ==
  ASSUME Inv, ConcludeInv, NEW p \in Proc, Frame(p), Conclude(p) \/ AfterRunReady(p) \/ Review(p)
  PROVE  ConcludeInv'
<1> USE DEF storeVars, leaseVars, history, Goto, Step, Hold, RunOf, Runs
<1>0. /\ pc \in [Proc -> Pc] /\ mem \in [Proc -> RunState \cup {None}]
      /\ pass \in [Proc -> {1, 2}] /\ ConcludesWell(p)
      /\ pc[p] \in {"final", "ran", "review"} /\ mem[p] \in RunState
      /\ Sound(mem[p]) /\ (pc[p] = "review" => mem[p].reviewed)
      /\ disk[RunOf(p)] = mem[p]
  <2>1. pc[p] \in {"final", "ran", "review"} /\ pc[p] \in Holding
    BY PcNames DEF Conclude, AfterRunReady, Review
  <2>2. disk[RunOf(p)] = mem[p]
    BY <2>1 DEF ConcludeInv, ConcludesWell, Unsaved, AfterSave
  <2>3. QED
    BY <2>1, <2>2, InvFacts DEF ConcludeInv, CopySound, Inv, SelfInv, TypeInv, TypeOK
<1>1. CASE Conclude(p)
  <2>1. /\ pc[p] = "final" /\ UNCHANGED <<disk, job, pass>>
        /\ mem'[p] = WithStatus(mem[p], FinalStatus(mem[p]))
        /\ pc'[p] = IF mem[p].status = FinalStatus(mem[p]) THEN "ran" ELSE "save_final"
    BY <1>0, <1>1 DEF Conclude
  <2>2. /\ mem'[p].status = FinalStatus(mem[p])
        /\ Same(mem'[p], mem[p])
        /\ mem[p].status = FinalStatus(mem[p]) => mem'[p] = mem[p]
    <3>1. \A s \in RunState : /\ WithStatus(s, s.status) = s
                             /\ \A st : WithStatus(s, st).status = st
      BY DEF WithStatus, RunState
    <3>2. QED
      BY <1>0, <2>1, <3>1, KeepRuns
  <2>3. AllSucceeded(mem'[p]) <=> AllSucceeded(mem[p])
    BY <2>2 DEF Same, AllSucceeded, WorkItems, Succeeded
  <2>4. ConcludesWell(p)'
    BY <1>0, <2>1, <2>2, <2>3, CompletedMeansSucceeded
       DEF ConcludesWell, Unsaved, AfterSave, Same
  <2>5. QED
    BY <2>4, ConcludeStep
<1>2. CASE AfterRunReady(p)
  <2>1. pc[p] = "ran" /\ UNCHANGED <<disk, job, pass>>
    BY <1>2 DEF AfterRunReady
  <2>2. CASE ReviewDue(p) /\ ~mem[p].reviewed
    <3>1. mem'[p] = AppendCompletion(mem[p], job[p].config) /\ pc'[p] = "save_review"
      BY <1>0, <1>2, <2>2 DEF AfterRunReady
    <3>2. mem'[p].reviewed = TRUE /\ mem'[p].status = "planned"
      BY <1>0, <3>1 DEF AppendCompletion, RunState
    <3>3. ConcludesWell(p)'
      BY <1>0, <2>1, <3>1, <3>2 DEF ConcludesWell, Unsaved, AfterSave
    <3>4. QED
      BY <3>3, ConcludeStep
  <2>3. CASE ~(ReviewDue(p) /\ ~mem[p].reviewed)
    <3>1. mem' = mem /\ pc'[p] = IF ReviewDue(p) THEN "review" ELSE "report"
      BY <1>0, <1>2, <2>3 DEF AfterRunReady
    <3>2. AllSucceeded(mem[p]) /\ ~ReviewDue(p) => mem[p].plan.explicit \/ mem[p].reviewed
      <4>1. AllSucceeded(mem[p]) => BaseWorkSucceeded(mem[p])
        BY <1>0, CompletedHasReview
      <4>2. pass[p] = 1 \/ mem[p].reviewed
        BY <1>0 DEF ConcludesWell
      <4>3. QED
        BY <4>1, <4>2 DEF ReviewDue
    <3>3. ConcludesWell(p)'
      BY <1>0, <2>1, <3>1, <3>2 DEF ConcludesWell, Concluding
    <3>4. QED
      BY <3>3, ConcludeStep
  <2>4. QED
    BY <2>2, <2>3
<1>3. CASE Review(p)
  <2>1. /\ pc[p] = "review" /\ UNCHANGED <<disk, job, mem>> /\ pass'[p] = 2
        /\ pc'[p] \in {"scan", "report"}
    BY <1>0, <1>3 DEF Review, EnterRunReady
  <2>2. ConcludesWell(p)'
    BY <1>0, <2>1 DEF ConcludesWell, Concluding
  <2>3. QED
    BY <2>2, ConcludeStep
<1>4. QED
  BY <1>1, <1>2, <1>3

LEMMA ConcludeInvStep ==
  ASSUME Inv, ConcludeInv, [Next]_vars
  PROVE  ConcludeInv'
<1>1. CASE UNCHANGED vars
  BY <1>1 DEF ConcludeInv, ConcludesWell, Runs, RunOf, vars, storeVars, procVars, history
<1>2. CASE ~UNCHANGED vars
  <2>1. PICK p \in Proc :
           /\ Frame(p)
           /\ \/ /\ Work(p) /\ ~LateWrite(p) /\ ~WriteReport(p) /\ ~Exit(p)
              \/ StartCommand(p)
              \/ WriteReport(p) \/ Exit(p) \/ Interrupt(p) \/ Kill(p)
    BY <1>2, StepsOfOwners
  <2>2. CASE WriteReport(p) \/ Exit(p) \/ Interrupt(p) \/ Kill(p)
    <3>1. /\ pc'[p] \in {"idle", "unwind", "draining"} /\ pass'[p] \in {1, pass[p]}
          /\ pass'[p] # 1 => mem'[p] = mem[p]
          /\ pc'[p] = "idle" => pass'[p] = 1
      BY <2>2, StopsLeave, InvFacts
    <3>2. ConcludesWell(p)'
      BY <3>1, PcNames DEF ConcludeInv, ConcludesWell, Concluding
    <3>3. QED
      BY <2>1, <3>2, ConcludeStep
  <2>3. CASE StartCommand(p) \/ (Work(p) /\ ~LateWrite(p) /\ ~WriteReport(p) /\ ~Exit(p))
    BY <2>1, <2>3, CommandsConclude, CheckpointsConclude, LoopConcludes, EndsConclude DEF Work
  <2>4. QED
    BY <2>1, <2>2, <2>3
<1>3. QED
  BY <1>1, <1>2

(***************************************************************************)
(* A command that reports a completed run has it on disk, its review       *)
(* included: neither an interrupted review, nor a resume between the two   *)
(* passes, nor the status a pass was entered with ends it earlier.         *)
(***************************************************************************)
THEOREM CompletionsAreReviewed == Spec /\ LateWrites = FALSE => []ConcludedIsReviewed
<1>1. Init => ConcludeInv
  BY PcNames DEF Init, ConcludeInv, ConcludesWell, Concluding
<1>2. Inv /\ ConcludeInv /\ [Next]_vars => ConcludeInv'
  BY ConcludeInvStep
<1>3. ASSUME Inv, ConcludeInv
      PROVE  ConcludedIsReviewed
  <2> SUFFICES ASSUME NEW p \in Proc, pc[p] = "report", Runs(p), mem[p].status = "completed"
               PROVE  /\ disk[RunOf(p)] = mem[p]
                      /\ AllSucceeded(mem[p])
                      /\ mem[p].plan.explicit \/ Succeeded(mem[p], Completion)
    BY DEF ConcludedIsReviewed
  <2>1. /\ disk[RunOf(p)] = mem[p] /\ AllSucceeded(mem[p])
        /\ mem[p].plan.explicit \/ mem[p].reviewed
    BY <1>3, PcNames DEF ConcludeInv, ConcludesWell, Unsaved, AfterSave, Concluding
  <2>2. QED
    BY <2>1 DEF AllSucceeded, WorkItems
<1>4. QED
  BY <1>1, <1>2, <1>3, Invariance, PTL DEF Spec

-----------------------------------------------------------------------------
(* What a writer that finds its project busy leaves behind.                *)

\* What was picked may be dispatched from a status that a resume can start from.
PickedOn(p) ==
  pc[p] \in {"save_planned", "acquire"} =>
    /\ mem[p].status \notin PreWriter
    /\ batch[p] \subseteq Dispatchable(mem[p])

PickInv == \A p \in Proc : PickedOn(p)

\* Only PickWriter and its checkpoint lead to the project lease.
LEMMA StepsToTheLease ==
  ASSUME SelfInv, NEW p \in Proc, StartCommand(p) \/ Work(p) \/ Interrupt(p) \/ Kill(p),
         pc'[p] \in {"save_planned", "acquire"}
  PROVE  PickWriter(p) \/ (Save(p) /\ pc[p] = "save_planned")
<1> USE DEF Goto, Step
<1>0. pc \in [Proc -> Pc]
  BY DEF SelfInv, TypeInv, TypeOK
<1>1. ASSUME \/ StartCommand(p) \/ Prepare(p) \/ CreateDirectory(p) \/ Created(p)
             \/ RecordApproval(p) \/ Resume(p) \/ Validate(p) \/ Scan(p)
             \/ PersistResult(p) \/ LogResult(p) \/ EndOfLoop(p)
      PROVE  FALSE
  BY <1>0, <1>1
     DEF StartCommand, Prepare, CreateDirectory, Created, RecordApproval, Resume, Validate,
         Scan, PersistResult, LogResult, EndOfLoop, AfterResults
<1>2. ASSUME \/ DispatchReaders(p) \/ DispatchWriter(p) \/ ProjectBusy(p) \/ TurnSucceeds(p)
             \/ TurnFails(p) \/ ReleaseProject(p) \/ Conclude(p) \/ AfterRunReady(p)
             \/ Review(p)
      PROVE  FALSE
  BY <1>0, <1>2
     DEF DispatchReaders, DispatchWriter, ProjectBusy, TurnSucceeds, TurnFails, EndTurns,
         ReleaseProject, Conclude, AfterRunReady, Review
<1>3. ASSUME AppendEvent(p)
      PROVE  FALSE
  BY <1>0, <1>3 DEF AppendEvent, AfterEvent
<1>4. ASSUME Load(p)
      PROVE  FALSE
  <2>1. job[p].cmd \in Command
    BY <1>4, PcNames DEF Load, SelfInv, TypeInv, TypeOK, CommandsHaveState, Job
  <2>2. QED
    BY <1>0, <1>4, <2>1, AfterLoadPc DEF Load
<1>5. ASSUME WriteReport(p) \/ Exit(p) \/ Interrupt(p) \/ Kill(p)
      PROVE  FALSE
  BY <1>5, StopsLeave DEF SelfInv
<1>6. ASSUME LateWrite(p)
      PROVE  FALSE
  BY <1>0, <1>6 DEF LateWrite, SelfInv, TypeInv, CommandsHaveState
<1>7. Save(p) => pc[p] = "save_planned"
  BY <1>0 DEF Save, AfterSave
<1>8. QED
  BY <1>1, <1>2, <1>3, <1>4, <1>5, <1>6, <1>7 DEF Work

\* The status of a run says nothing of what may be dispatched.
LEMMA DispatchIgnoresStatus ==
  ASSUME NEW s \in RunState, NEW st
  PROVE  Dispatchable([s EXCEPT !.status = st]) = Dispatchable(s)
<1> DEFINE t == [s EXCEPT !.status = st]
<1>1. /\ t.plan = s.plan /\ t.reviewed = s.reviewed /\ t.results = s.results
      /\ t.routes = s.routes /\ t.digest = s.digest /\ t.approvals = s.approvals
  BY DEF RunState
<1>2. /\ PendingItems(t) = PendingItems(s)
      /\ \A i : Dependencies(t, i) = Dependencies(s, i)
      /\ \A i : Succeeded(t, i) <=> Succeeded(s, i)
      /\ \A i : RequireDispatchable(t, i) <=> RequireDispatchable(s, i)
  BY <1>1
     DEF PendingItems, WorkItems, Dependencies, Succeeded, RequireDispatchable, Fingerprint
<1>3. QED
  BY <1>2 DEF Dispatchable

LEMMA PickInvStep ==
  ASSUME SelfInv, PickInv, [Next]_vars
  PROVE  PickInv'
<1> USE DEF storeVars, leaseVars, history, Goto, Hold
<1>1. CASE UNCHANGED vars
  BY <1>1 DEF PickInv, PickedOn, vars, procVars
<1>2. CASE ~UNCHANGED vars
  <2>1. PICK p \in Proc : /\ Frame(p)
                          /\ StartCommand(p) \/ Work(p) \/ Interrupt(p) \/ Kill(p)
    BY <1>2, StepsOfProcesses DEF SelfInv
  <2>2. \A q \in Proc \ {p} : PickedOn(q)'
    BY <2>1 DEF Frame, PickInv, PickedOn
  <2>3. PickedOn(p)'
    <3> SUFFICES ASSUME pc'[p] \in {"save_planned", "acquire"}
                 PROVE  mem'[p].status \notin PreWriter /\ batch'[p] \subseteq Dispatchable(mem'[p])
      BY DEF PickedOn
    <3>1. PickWriter(p) \/ (Save(p) /\ pc[p] = "save_planned")
      BY <2>1, StepsToTheLease
    <3>2. CASE Save(p) /\ pc[p] = "save_planned"
      <4>1. UNCHANGED <<mem, batch>>
        BY <3>2 DEF Save
      <4>2. QED
        BY <3>2, <4>1 DEF PickInv, PickedOn
    <3>3. CASE PickWriter(p)
      <4>1. /\ mem \in [Proc -> RunState \cup {None}] /\ batch \in [Proc -> SUBSET Item]
            /\ mem[p] \in RunState
        BY <3>3, PcNames, HolderFacts DEF PickWriter, SelfInv, TypeInv, TypeOK
      <4>2. batch'[p] \subseteq Dispatchable(mem[p])
        BY <3>3, <4>1 DEF PickWriter, IsFirst, ReadyWriters
      <4>3. CASE mem[p].status \in PreWriter
        <5>1. mem'[p] = WithStatus(mem[p], "planned")
          BY <3>3, <4>1, <4>3 DEF PickWriter
        <5>2. mem'[p] = [mem[p] EXCEPT !.status = "planned"]
          BY <5>1 DEF WithStatus
        <5>3. Dispatchable(mem'[p]) = Dispatchable(mem[p])
          BY <4>1, <5>2, DispatchIgnoresStatus
        <5>4. mem'[p].status = "planned"
          BY <4>1, <5>2 DEF RunState
        <5>5. QED
          BY <4>2, <5>3, <5>4 DEF PreWriter
      <4>4. CASE mem[p].status \notin PreWriter
        BY <3>3, <4>2, <4>4 DEF PickWriter
      <4>5. QED
        BY <4>3, <4>4
    <3>4. QED
      BY <3>1, <3>2, <3>3
  <2>4. QED
    BY <2>2, <2>3 DEF PickInv
<1>3. QED
  BY <1>1, <1>2

(***************************************************************************)
(* ProjectBusyError finds the run saved as it is in memory, under a status *)
(* that is neither running nor awaiting an approval, and with its writer   *)
(* still ready and approved: the retry that the documentation advises      *)
(* starts where this command stopped.                                      *)
(***************************************************************************)
THEOREM BusyRunsAreReady == Spec /\ LateWrites = FALSE => []BusyRunsStayReady
<1>1. Init => ConcludeInv /\ PickInv
  BY PcNames DEF Init, ConcludeInv, ConcludesWell, Concluding, PickInv, PickedOn
<1>2. Inv /\ ConcludeInv /\ [Next]_vars => ConcludeInv'
  BY ConcludeInvStep
<1>3. SelfInv /\ PickInv /\ [Next]_vars => PickInv'
  BY PickInvStep
<1>4. ASSUME ConcludeInv, PickInv, LoopInv
      PROVE  BusyRunsStayReady
  <2> SUFFICES ASSUME NEW p \in Proc, pc[p] = "acquire"
               PROVE  /\ disk[RunOf(p)] = mem[p]
                      /\ mem[p].status \notin PreWriter
                      /\ batch[p] # {} /\ batch[p] \subseteq Dispatchable(mem[p])
    BY DEF BusyRunsStayReady
  <2>1. disk[RunOf(p)] = mem[p]
    BY <1>4, PcNames DEF ConcludeInv, ConcludesWell, Unsaved, AfterSave
  <2>2. QED
    BY <1>4, <2>1 DEF PickInv, PickedOn, LoopInv, LoopsOn
<1>5. QED
  BY <1>1, <1>2, <1>3, <1>4, Invariance, LoopIsInvariant, PTL DEF Spec

-----------------------------------------------------------------------------
(* How often an item is given to Codex.                                    *)

Decided(r, i) == disk[r] # None /\ disk[r].results[i] # "none"

\* An item of r that a process has in a turn, or whose result it has in hand.
InHand(r, i) == \E p \in Proc : pc[p] # "idle" /\ RunOf(p) = r /\ i \in AtWork(p)

\* A turn that neither is decided nor in hand was lost to an interrupt.
Counted(r, i) ==
  dispatched[r][i] <= interrupts + (IF Decided(r, i) \/ InHand(r, i) THEN 1 ELSE 0)

CountInv == \A r \in Run, i \in Item : Counted(r, i)

\* What a step of p may do to the count of its own run's item i.
CountsOnce(p, r, i) ==
  \/ dispatched'[r][i] = dispatched[r][i] /\ interrupts' = interrupts + 1
  \/ /\ dispatched'[r][i] = dispatched[r][i]
     /\ Decided(r, i) \/ i \in AtWork(p) => Decided(r, i)' \/ i \in AtWork(p)'
  \/ /\ dispatched'[r][i] = dispatched[r][i] + 1
     /\ ~Decided(r, i) /\ i \notin AtWork(p)
     /\ i \in AtWork(p)'

LEMMA CountStep ==
  ASSUME Inv, CountInv, NEW p \in Proc, Frame(p),
         pc[p] # "idle" =>
           /\ pc'[p] = "idle" \/ job' = job
           /\ \A r \in Run, i \in Item : r = RunOf(p) => CountsOnce(p, r, i)
  PROVE  CountInv'
<1>1. /\ dispatched \in [Run -> [Item -> Nat]] /\ interrupts \in Nat
      /\ interrupts' \in Nat /\ interrupts <= interrupts'
  <2>1. interrupts \in Nat
    BY BoundAssumption DEF Inv, SelfInv, TypeInv, TypeOK
  <2>2. QED
    BY <2>1 DEF Frame, Inv, SelfInv, TypeInv, TypeOK
<1>2. ASSUME NEW r \in Run, NEW i \in Item
      PROVE  Counted(r, i)'
  <2>1. Counted(r, i)
    BY DEF CountInv
  <2>2. ASSUME NEW q \in Proc, q # p, pc[q] # "idle", RunOf(q) = r, i \in AtWork(q)
        PROVE  InHand(r, i)'
    <3>1. /\ pc'[q] = pc[q] /\ batch'[q] = batch[q] /\ todo'[q] = todo[q] /\ RunOf(q)' = RunOf(q)
      BY <2>2, OthersStay, InvFacts
    <3>2. i \in AtWork(q)'
      BY <2>2, <3>1 DEF AtWork
    <3>3. QED
      BY <2>2, <3>1, <3>2 DEF InHand
  <2>3. CASE pc[p] = "idle" \/ r # RunOf(p)
    <3>1. disk'[r] = disk[r] /\ dispatched'[r] = dispatched[r]
      BY <2>3 DEF Frame
    <3>2. Decided(r, i)' <=> Decided(r, i)
      BY <3>1 DEF Decided
    <3>3. InHand(r, i) => InHand(r, i)'
      BY <2>2, <2>3 DEF InHand
    <3>4. QED
      BY <1>1, <2>1, <3>1, <3>2, <3>3 DEF Counted
  <2>4. CASE pc[p] # "idle" /\ r = RunOf(p)
    <3>1. CountsOnce(p, r, i)
      BY <2>4
    <3>2. InHand(r, i) <=> i \in AtWork(p)
      BY <2>4, OwnersExclude DEF InHand, Inv
    <3>3. i \in AtWork(p)' => InHand(r, i)'
      <4>1. i \in AtWork(p)' => pc'[p] # "idle"
        BY DEF AtWork
      <4>2. job' = job => RunOf(p)' = r
        BY <2>4 DEF RunOf
      <4>3. QED
        BY <2>4, <4>1, <4>2 DEF InHand
    <3>4. dispatched[r][i] \in Nat
      BY <1>1
    <3>5. QED
      BY <1>1, <2>1, <3>1, <3>2, <3>3, <3>4 DEF Counted, CountsOnce
  <2>5. QED
    BY <2>3, <2>4
<1>3. QED
  BY <1>1, <1>2 DEF CountInv

\* A step away from the turns, which only ever adds to what is decided.
LEMMA QuietCount ==
  ASSUME Inv, CountInv, NEW p \in Proc, Frame(p), dispatched' = dispatched,
         AtWork(p) = {},
         pc[p] # "idle" => /\ pc'[p] = "idle" \/ job' = job
                           /\ \A i \in Item : Decided(RunOf(p), i) =>
                                disk'[RunOf(p)] # None /\ disk'[RunOf(p)].results[i] # "none"
  PROVE  CountInv'
<1>1. \A r \in Run, i \in Item : pc[p] # "idle" /\ r = RunOf(p) => CountsOnce(p, r, i)
  BY DEF CountsOnce, Decided
<1>2. QED
  BY <1>1, CountStep

\* Where a step of the loop leaves from, and what it takes along.
LEMMA LoopCounts ==
  ASSUME Inv, CountInv, NEW p \in Proc, Frame(p),
         \/ PersistResult(p) \/ LogResult(p) \/ DispatchReaders(p) \/ DispatchWriter(p)
         \/ TurnSucceeds(p) \/ TurnFails(p)
  PROVE  CountInv'
<1> USE DEF storeVars, leaseVars, history, Goto, Step, Hold
<1>0. /\ pc \in [Proc -> Pc] /\ mem \in [Proc -> RunState \cup {None}]
      /\ batch \in [Proc -> SUBSET Item] /\ todo \in [Proc -> SUBSET Result]
      /\ disk \in [Run -> RunState \cup {None}] /\ dispatched \in [Run -> [Item -> Nat]]
      /\ pc[p] \in Holding \ {"mkdir", "create", "save_review"}
      /\ mem[p] \in RunState /\ RunOf(p) \in Run /\ WorkInv(p)
      /\ disk[RunOf(p)] # None /\ disk[RunOf(p)].results = mem[p].results
      /\ pc[p] \in {"persist", "log"} => batch[p] = {}
      /\ job' = job
  <2>1. /\ pc[p] \in {"persist_blocked", "persist", "log", "log_blocked", "pick", "acquire", "turn"}
        /\ job' = job
    BY DEF PersistResult, LogResult, DispatchReaders, DispatchWriter, TurnSucceeds, TurnFails,
       EndTurns, Persisting
  <2>2. pc[p] \in Holding \ {"mkdir", "create", "save_review"}
    BY <2>1, PcNames
  <2>3. QED
    BY <2>1, <2>2, InvFacts DEF CopyInv, WorkInv, Inv, SelfInv, TypeInv, TypeOK
<1>1. CASE PersistResult(p)
  <2>1. PICK e \in todo[p] :
          /\ pc[p] \in Persisting
          /\ disk'[RunOf(p)] = WithResult(mem[p], e.item, e.outcome)
          /\ pc'[p] = IF pc[p] = "persist" THEN "log" ELSE "log_blocked"
          /\ UNCHANGED <<batch, todo, dispatched>>
    BY <1>0, <1>1 DEF PersistResult
  <2>2. e.item \in Item /\ e.outcome \in Outcome
    BY <1>0 DEF Result
  <2>3. /\ WithResult(mem[p], e.item, e.outcome) # None
        /\ \A i \in Item : mem[p].results[i] # "none" =>
             WithResult(mem[p], e.item, e.outcome).results[i] # "none"
    <3>1. WithResult(mem[p], e.item, e.outcome) # None
      BY <1>0, <2>2, WithResultType, NoneAssumption
    <3>2. e.outcome # "none"
      BY <2>2 DEF Outcome
    <3>3. QED
      BY <1>0, <2>2, <3>1, <3>2 DEF WithResult, RunState
  <2>4. AtWork(p)' = AtWork(p)
    BY <2>1 DEF AtWork, Persisting
  <2>5. \A r \in Run, i \in Item : r = RunOf(p) => CountsOnce(p, r, i)
    BY <1>0, <2>1, <2>3, <2>4 DEF CountsOnce, Decided
  <2>6. QED
    BY <1>0, <2>5, CountStep
<1>2. CASE LogResult(p)
  <2>1. PICK e \in todo[p] :
          /\ pc[p] \in {"log", "log_blocked"} /\ Entry(p, e)
          /\ todo'[p] = todo[p] \ {e}
          /\ pc'[p] = IF todo[p] # {e}
                        THEN IF pc[p] = "log" THEN "persist" ELSE "persist_blocked"
                        ELSE AfterResults(p)
          /\ UNCHANGED <<disk, batch, dispatched>>
    BY <1>0, <1>2 DEF LogResult
  <2>2. mem[p].results[e.item] = e.outcome /\ e.outcome # "none"
    BY <1>0, <2>1 DEF WorkInv, Result, Outcome
  <2>3. Decided(RunOf(p), e.item)'
    BY <1>0, <2>1, <2>2 DEF Decided, RunOf
  <2>4. AtWork(p) \subseteq AtWork(p)' \cup {e.item}
    <3>1. CASE pc[p] = "log" /\ todo[p] # {e}
      BY <1>0, <2>1, <3>1 DEF AtWork
    <3>2. CASE pc[p] = "log" /\ todo[p] = {e}
      BY <1>0, <3>2 DEF AtWork
    <3>3. CASE pc[p] = "log_blocked"
      BY <3>3 DEF AtWork
    <3>4. QED
      BY <2>1, <3>1, <3>2, <3>3
  <2>5. \A r \in Run, i \in Item : r = RunOf(p) => CountsOnce(p, r, i)
    BY <1>0, <2>1, <2>3, <2>4 DEF CountsOnce, Decided, RunOf
  <2>6. QED
    BY <1>0, <2>5, CountStep
<1>3. CASE DispatchReaders(p) \/ DispatchWriter(p)
  <2>1. /\ pc[p] \in {"pick", "acquire"} /\ pc'[p] = "turn" /\ disk' = disk
        /\ batch'[p] \subseteq Ready(mem[p])
        /\ dispatched' = [dispatched EXCEPT ![RunOf(p)] =
                            [i \in Item |-> IF i \in batch'[p] THEN @[i] + 1 ELSE @[i]]]
    <3>1. CASE DispatchReaders(p)
      <4>1. ReadBatch(Dispatchable(mem[p])) \subseteq Ready(mem[p])
        BY ScheduledIsRecordable DEF ReadBatch
      <4>2. batch'[p] = ReadBatch(Dispatchable(mem[p]))
        BY <1>0, <3>1 DEF DispatchReaders
      <4>3. QED
        BY <1>0, <3>1, <4>1, <4>2 DEF DispatchReaders, Count
    <3>2. CASE DispatchWriter(p)
      BY <1>0, <3>2 DEF DispatchWriter, Count, WorkInv
    <3>3. QED
      BY <1>3, <3>1, <3>2
  <2>2. AtWork(p) = {} /\ batch'[p] \subseteq AtWork(p)'
    BY <2>1 DEF AtWork
  <2>3. \A i \in batch'[p] : ~Decided(RunOf(p), i)
    BY <1>0, <2>1 DEF Decided, Ready, PendingItems
  <2>4. ASSUME NEW i \in Item
        PROVE  dispatched'[RunOf(p)][i] =
                 IF i \in batch'[p] THEN dispatched[RunOf(p)][i] + 1 ELSE dispatched[RunOf(p)][i]
    BY <1>0, <2>1
  <2>5. ASSUME NEW r \in Run, NEW i \in Item, r = RunOf(p)
        PROVE  CountsOnce(p, r, i)
    <3>1. Decided(r, i)' <=> Decided(r, i)
      BY <2>1 DEF Decided
    <3>2. QED
      BY <2>2, <2>3, <2>4, <2>5, <3>1 DEF CountsOnce
  <2>6. QED
    BY <1>0, <2>1, <2>5, CountStep
<1>4. CASE TurnSucceeds(p) \/ TurnFails(p)
  <2>1. /\ pc[p] = "turn" /\ UNCHANGED <<disk, dispatched>>
        /\ pc'[p] \in {"turn", "persist"}
        /\ todo[p] \subseteq todo'[p]
        /\ \A i \in batch[p] \ batch'[p] : \E e \in todo'[p] : e.item = i
    <3>1. CASE TurnSucceeds(p)
      <4>1. PICK j \in batch[p] :
              /\ pc[p] = "turn" /\ UNCHANGED <<disk, dispatched>>
              /\ batch'[p] = batch[p] \ {j}
              /\ todo'[p] = todo[p] \cup {[item |-> j, outcome |-> "succeeded"]}
              /\ pc'[p] = IF batch[p] \ {j} = {} THEN "persist" ELSE "turn"
        BY <1>0, <3>1 DEF TurnSucceeds, EndTurns
      <4>2. [item |-> j, outcome |-> "succeeded"].item = j
        OBVIOUS
      <4>3. QED
        BY <4>1, <4>2
    <3>2. CASE TurnFails(p)
      <4>1. /\ pc[p] = "turn" /\ UNCHANGED <<disk, dispatched>>
            /\ batch'[p] = {} /\ pc'[p] = "persist"
            /\ todo'[p] = todo[p] \cup {[item |-> i, outcome |-> "failed"] : i \in batch[p]}
        BY <1>0, <3>2 DEF TurnFails, EndTurns
      <4>2. \A i \in batch[p] : [item |-> i, outcome |-> "failed"] \in todo'[p]
        BY <4>1
      <4>3. QED
        BY <4>1, <4>2
    <3>3. QED
      BY <1>4, <3>1, <3>2
  <2>2. AtWork(p) \subseteq AtWork(p)'
    BY <2>1 DEF AtWork
  <2>3. \A r \in Run, i \in Item : r = RunOf(p) => CountsOnce(p, r, i)
    BY <2>1, <2>2 DEF CountsOnce, Decided
  <2>4. QED
    BY <1>0, <2>3, CountStep
<1>5. QED
  BY <1>1, <1>2, <1>3, <1>4

\* Every other step of a command.
LEMMA CommandsCount ==
  ASSUME Inv, CountInv, NEW p \in Proc, Frame(p),
         \/ StartCommand(p) \/ Save(p) \/ AppendEvent(p) \/ Prepare(p) \/ CreateDirectory(p)
         \/ Created(p) \/ Load(p) \/ RecordApproval(p) \/ Resume(p) \/ Validate(p) \/ Scan(p)
         \/ EndOfLoop(p) \/ PickWriter(p) \/ ProjectBusy(p) \/ ReleaseProject(p) \/ Conclude(p)
         \/ AfterRunReady(p) \/ Review(p) \/ WriteReport(p) \/ Exit(p)
  PROVE  CountInv'
<1> USE DEF storeVars, leaseVars, history, Goto, Step, Hold
<1>0. pc \in [Proc -> Pc] /\ disk \in [Run -> RunState \cup {None}]
  BY InvFacts
<1>1. ASSUME dispatched' = dispatched, disk' = disk, pc[p] \notin {"turn", "persist", "log"},
             pc[p] = "idle" \/ pc'[p] = "idle" \/ job' = job
      PROVE  CountInv'
  <2>1. AtWork(p) = {}
    BY <1>1 DEF AtWork
  <2>2. QED
    BY <1>1, <2>1, QuietCount DEF Decided
<1>2. CASE Save(p)
  <2>1. /\ pc[p] \in DOMAIN AfterSave /\ pc'[p] = AfterSave[pc[p]] /\ pc[p] \in Holding
        /\ RunOf(p) \in Run /\ mem[p] \in RunState
        /\ disk' = [disk EXCEPT ![RunOf(p)] = mem[p]] /\ UNCHANGED <<dispatched, job>>
    BY <1>0, <1>2, AfterSavePc, InvFacts DEF Save
  <2>2. pc[p] \notin {"turn", "persist", "log", "mkdir"}
    BY <2>1 DEF AfterSave
  <2>3. CopyInv(p) /\ mem[p] # None
    BY <2>1, NoneAssumption, InvFacts
  <2>4. \A i \in Item : Decided(RunOf(p), i) =>
          disk'[RunOf(p)] # None /\ disk'[RunOf(p)].results[i] # "none"
    BY <1>0, <2>1, <2>2, <2>3 DEF CopyInv, Decided
  <2>5. AtWork(p) = {}
    BY <2>2 DEF AtWork
  <2>6. QED
    BY <2>1, <2>4, <2>5, QuietCount
<1>3. CASE AppendEvent(p)
  <2>1. /\ pc[p] \in DOMAIN AfterEvent /\ pc'[p] = AfterEvent[pc[p]]
        /\ UNCHANGED <<disk, dispatched, job>>
    BY <1>0, <1>3 DEF AppendEvent
  <2>2. pc[p] \notin {"turn", "persist", "log"}
    BY <2>1 DEF AfterEvent
  <2>3. QED
    BY <1>1, <2>1, <2>2
<1>4. CASE StartCommand(p) \/ Prepare(p) \/ CreateDirectory(p) \/ Created(p)
  BY <1>0, <1>1, <1>4 DEF StartCommand, Prepare, CreateDirectory, Created
<1>5. CASE Load(p)
  BY <1>1, <1>5 DEF Load
<1>6. CASE RecordApproval(p) \/ Resume(p) \/ Validate(p)
  BY <1>0, <1>1, <1>6 DEF RecordApproval, Resume, Validate
<1>7. CASE Scan(p) \/ EndOfLoop(p) \/ PickWriter(p) \/ ProjectBusy(p) \/ ReleaseProject(p)
  BY <1>0, <1>1, <1>7 DEF Scan, EndOfLoop, PickWriter, ProjectBusy, ReleaseProject
<1>8. CASE Conclude(p) \/ AfterRunReady(p) \/ Review(p) \/ WriteReport(p)
  BY <1>0, <1>1, <1>8 DEF Conclude, AfterRunReady, Review, WriteReport
<1>9. CASE Exit(p)
  BY <1>0, <1>1, <1>9 DEF Exit, Inv, OwnInv
<1>10. QED
  BY <1>2, <1>3, <1>4, <1>5, <1>6, <1>7, <1>8, <1>9

LEMMA CountInvStep ==
  ASSUME Inv, CountInv, [Next]_vars
  PROVE  CountInv'
<1>1. CASE UNCHANGED vars
  BY <1>1 DEF CountInv, Counted, Decided, InHand, AtWork, RunOf, vars, storeVars, procVars, history
<1>2. CASE ~UNCHANGED vars
  <2>1. PICK p \in Proc :
           /\ Frame(p)
           /\ \/ /\ Work(p) /\ ~LateWrite(p) /\ ~WriteReport(p) /\ ~Exit(p)
              \/ StartCommand(p)
              \/ WriteReport(p) \/ Exit(p) \/ Interrupt(p) \/ Kill(p)
    BY <1>2, StepsOfOwners
  <2>2. CASE Interrupt(p) \/ Kill(p)
    <3>1. dispatched' = dispatched /\ interrupts' = interrupts + 1
      BY <2>2, StopsLeave, InvFacts
    <3>2. pc'[p] = "idle" \/ job' = job
      BY <2>2, InvFacts DEF Interrupt, Kill, Goto
    <3>3. \A r \in Run, i \in Item : r = RunOf(p) => CountsOnce(p, r, i)
      BY <3>1 DEF CountsOnce
    <3>4. QED
      BY <2>1, <3>1, <3>2, <3>3, CountStep
  <2>3. CASE ~(Interrupt(p) \/ Kill(p))
    BY <2>1, <2>3, LoopCounts, CommandsCount DEF Work
  <2>4. QED
    BY <2>2, <2>3
<1>3. QED
  BY <1>1, <1>2

(***************************************************************************)
(* An interrupt between a turn and its checkpoint makes the item run again *)
(* on resume; nothing else does, so no item runs more than once oftener    *)
(* than there were interrupts, over all commands of all processes.         *)
(***************************************************************************)
THEOREM RepeatsAreExplained == Spec /\ LateWrites = FALSE => []RepeatsNeedInterrupts
<1>1. Init => CountInv
  BY DEF Init, CountInv, Counted
<1>2. Inv /\ CountInv /\ [Next]_vars => CountInv'
  BY CountInvStep
<1>3. ASSUME Inv, CountInv
      PROVE  RepeatsNeedInterrupts
  <2>1. dispatched \in [Run -> [Item -> Nat]] /\ interrupts \in Nat
    BY <1>3, BoundAssumption DEF Inv, SelfInv, TypeInv, TypeOK
  <2>2. QED
    BY <1>3, <2>1 DEF CountInv, Counted, RepeatsNeedInterrupts
<1>4. QED
  BY <1>1, <1>2, <1>3, Invariance, PTL DEF Spec
=============================================================================
