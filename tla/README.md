# GoalRouter in TLA+

This directory models GoalRouter (`src/`): a command line program that plans an
objective into work items, routes each item to a model and a sandbox, has Codex
execute them under approvals, dependencies and leases, and keeps each run in
files from which it can be resumed. Source paths below are relative to the
repository; `scheduler.py` and the like are in `src/src/goalrouter/`.

Contents: [the system](#the-system) - [modules](#modules) - [runs](#runs-and-what-they-show) -
[fairness](#fairness) - [proofs](#proofs) - [divergences](#where-documentation-and-code-part) -
[not modelled](#what-is-not-modelled) - [plan](#plan).

To check a run: `tlc -config <Run>.cfg <Module>.tla`; to check a proof:
`tlapm <Module>_proofs.tla`. `PROJECT.json` lists runs, mutants (one per
property), the code lines of each definition, hazards and theorems.

## The system

| Component | State it keeps | Operations | Talks to |
|---|---|---|---|
| Application (`application.py`, `cli.py`) | none between commands; one `RunState` object inside a command | plan, run task, run objective, approve, resume (also acknowledging a changed configuration), report; status and route only read | takes the run lease, calls planner, router, scheduler, store, inspection |
| Scheduler (`scheduler.py`) | the `RunState` it was given, the ready items of an iteration | blocks, dispatches one writer or a batch of readers in a task group, persists results, settles the status | project lease, store, Codex client, approvals |
| Approvals (`approvals.py`) | `RunState.approvals` | approve, require dispatchable | application, scheduler |
| Routing and configuration (`routing.py`, `config.py`) | the validated configuration of one command | load and validate, route, validate the models an account offers | application, planner |
| Planner (`planner.py`) | nothing | one turn, one correction, validation | Codex client, router, application |
| Codex client (`sdk/codex.py`) | the staged Codex home and its lock | available models and one turn in a new thread, each under one timeout | the Codex SDK's processes, a staging thread |
| Store (`storage/json_store.py`) | `state.json`, `events.jsonl`, `report.md` of each run | create, load, save, append event, write report, each in a thread | everybody; status reads without a lease |
| Leases (`locking.py`) | `flock` on the run's lockfile and on the project directory | acquire and release, in owned threads | application, scheduler |
| Owned operations (`async_tools.py`) | nothing | wait for an owned task through cancellations | leases, subprocesses |
| Repository inspection (`repository.py`) | pins and findings of one inspection, its subprocesses | inspect, under a timeout | Git and hash-helper subprocesses, the worktree that others edit |
| POSIX lifecycle (`src/scripts/install.sh`, `uninstall.sh`, `goalrouter`) | installed files, `.goalrouter-control`, `.uninstalling`, backups | install, update, uninstall, purge | the file system, signals |

What is hard here, and what the properties are for (each at its line under
`hazards` in `PROJECT.json`):

- several processes on one state root and one project: leases, the copy each
  command holds, a store thread that outlives its interrupted command;
- interruption between any two writes: a result and its event, two results of
  a batch, the two passes (base work and completion review) of an objective;
- decisions taken under one configuration and used under another: routes,
  approvals, access modes, the models an account was seen to offer;
- loops bounded by counts (`for _ in range(len(state.work_items))`), cycle
  detection, batches;
- cancellation of an owner whose operation runs in a thread or a subprocess,
  and cancellations that coincide: of a timeout, a task group and a signal;
- reading a repository that somebody else edits;
- file-by-file installation and removal under signals, kills and retries.

## Modules

### Runs and scheduling

`RunModel` has the `RunState` aggregate and every pure decision on it:
dispatchability, blocking, final status, approval fingerprints, adoption of a
configuration. A prompt, a title, a usage count or a path is not in it; an item
is its identifier, dependencies and access mode; a route is the configuration
that resolved it; a fingerprint is what its hash depends on.

`GoalRouter` is the composition: processes execute commands, one step per
file operation, lease operation, loop step of `run_ready`, or turn. `disk`,
`dirs`, `events`, `report` are the store; `runLease`, `projLease` the leases;
`mem`, `batch`, `todo`, `left`, `pass` the locals of a command; `late` is a
document that a cancelled store call's thread will still write. `Interrupt` is
a SIGINT or an error anywhere (the context managers unwind), `Kill` a SIGKILL
or crash. A second command on a leased run (`RunBusy`) changes nothing and is no
step; a busy project is (`ProjectBusy`), because the status has been saved by
then. `dispatched`, `granted`, `commands`, `interrupts` are history and bounds.

`GoalRouterProps` states the properties, and `RunLifecycle` is the abstract
specification of a run: it is created once with a plan, an item gets an outcome
once and when its dependencies allow, the review is appended once, after all
base work succeeded. `ImplementsLifecycle` is the refinement, with
`run[r] = Recorded(disk[r])`. `MCGoalRouter` has the instances.

### Routes and plans

`RoutingPolicy` is the configuration file as its schema admits it, the semantic
validation of `config.py`, and the declarative requirement on a route
(`MeetsFloors`: the weakest alias at or above the floor of the policy and of
every active hard-risk rule). `TaskRouting` is `load_router_config` and
`TaskRouter.route`, one step per iteration over the rules. `ObjectivePlanner` is
the planner's answer, correction and validation with the depth-first cycle
search as a stack machine. `RoutedRun` composes both with the commands around
them: load, digest check and adoption on resume, inventory, planner's route and
plan, creation, dispatch, completion review, and the end of the process at any
moment. Of the work items one is followed, chosen nondeterministically from the
accepted plan, so what holds of it holds of all; how items interact is
`GoalRouter`'s subject, where a route is only the configuration it came from.
`MCRoutedRun` has the files, lists and inventories TLC starts from.

### Calls, leases and subprocesses

`CodexCalls` has the calls one command makes of the Codex client: the inventory,
then a planner's turn, a writer's, or a batch of readers in a task group. A call
is its sequence of awaits (staging lock and thread, session's entry, turn, exit,
streams) under one `asyncio.timeout`; a cancellation is first a request - of the
timeout, of the group, of SIGINT - and is raised when the task next runs, so
several may be raised as one.

`OwnedTask` models `wait_for_owned_task` and asyncio's delivery of
cancellations. `ExclusiveLease` models `locking.py` on top of it: descriptors
opened one below the other, `flock`, release, each system call possibly
failing, with the owner cancelled at any await. `OwnedProcess` models
`run_read_only` and `hash_descriptors`: capture, stop, kill, reap.
`LeasedInspection` composes the two: an inspection's process runs inside the
lease of its command, in the same task, under the timeout of `inspect`; one
cancellation hits both, the timeout takes its own request back, and other owners
compete for the lease.

### Store and repository

`RunStore` looks into one run's directory, system call by system call: mkdir,
journal, temporary file, write, fsync, rename, append of an event line and its
fsync, with failing and short writes, power loss, two threads, a reader without
a lease, and the redaction of what is written. `RepositoryInspection` is
`inspect` against an editor who creates, replaces, overwrites, stages or commits
between any two of its steps; a fingerprint is the time of an entry's last
change.

### Installation

`InstalledFiles` is what an installation owns on disk and the checks by which
launcher, installer and uninstaller accept it; a file's content is the release
it comes from, and the 24 hashed metadata files other than `install.json` are
one. `ProductLifecycle` runs the commands one after the other, one step per file
operation: replacement by replacement with temporary, backup and rollback
record; the recovery marker, purge with its sentinel, and the final section of
the uninstaller. `InstallFails` and `UninstallInterrupted` are what the traps
handle; `UninstallFails` is an operation that fails under `set -e`, in the final
section too, where signals are ignored; `Kill` is SIGKILL, power loss, or a
second signal during rollback, when the traps are off.

### Composition

`GoalRouter` composes application, scheduler, approvals, store and leases, with
coarse steps that the other modules justify: `ExclusiveLease` that a lease is
taken and given back whole, `RunStore` that `Save` is one step, `CodexCalls`
that a turn or a batch ends with one result per item and nothing left running.
`RoutedRun` composes `TaskRouting` and `ObjectivePlanner`, and establishes what
`RunModel` assumes of plans (`ValidPlan`, with the same definition of
acyclicity) and of routes (that they are a function of the configuration).
`LeasedInspection` composes `ExclusiveLease` and `OwnedProcess` through
`OwnedTask`; `ProductLifecycle` uses `InstalledFiles`.

## Runs and what they show

| Run | Module | Instance and bounds | Distinct states |
|---|---|---|---|
| Resumes | MCGoalRouter | 2 symmetric processes taking turns on 1 run: a chain of 3 with a writer, 3 readers with batches of 2, or a task; 2 configurations with different approvals, 4 commands, 1 interrupt | 862 k |
| Owners | MCGoalRouter | 2 processes on 2 runs of one project, each a writer's task or a reader and its writer, a review that needs approval; 3 commands, no interrupt | 206 k |
| LateWriters | MCGoalRouter | 2 processes, 2 runs of one project, late writes, 3 commands, 1 interrupt, symmetric processes | 1.4 M |
| Routes | MCRoutedRun | 8 files (4 sound, 4 to be refused), 3 aliases, 2 tasks, 3 accounts, 3 commands; every graph of 3 distinct items, every list of 2, single items of every kind, symmetric identifiers | 239 k |
| Turns | CodexCalls | a planner, a writer or a batch of up to 3 readers; every timeout once, one signal, sessions whose closing fails | 772 k |
| LeasedInspections | LeasedInspection | 2 owners of one lease, 1 inspecting, 2 descriptors, 2 cancellations (the other owner: 1) | 276 k |
| Inspections | MCRepositoryInspection | 3 paths (1 nested, perhaps skip-worktree), 2 file contents and a link, batches of 2, 2 edits, symmetric contents and plain paths | 6.1 M |
| Checkpoints | MCRunStore | 2 threads, 5 calls, failures, short writes and power losses | 71 k |
| Installations | MCProductLifecycle | 2 releases, 3 commands, 1 failure, 1 kill | 3.7 M |
| RedactedNames, LateWrite, InstallSignal | | violations, see [below](#where-documentation-and-code-part) | |

**Resumes.** No turn runs without the approval that the policy of its own
command asks for (`ApprovedUnderCurrentPolicy`), whatever was approved under
another; a pass ends completed, failed or awaiting approval
(`PassesEndDecided`: `blocked` and `planned` are never final); a command that
reports an objective completed has reviewed it (`ConcludedIsReviewed`); the
journal never runs ahead of the state (`EventsFollowState`; a crash between
checkpoint and event loses the event, which the property allows);
dependents start from dependencies that are durable (`DependenciesDurable`);
the loop bound of `run_ready` is enough, no pass leaves an item that could be
dispatched or one of whose own dependencies failed (`NothingLeftToDecide`; for
what it does leave see `FailuresBlockDependents`
[below](#where-documentation-and-code-part)); an item is dispatched again only
after an interrupt (`RepeatsNeedInterrupts`); and every checkpoint is a step of
`RunLifecycle`, so results on disk are never lost or changed
(`ImplementsLifecycle`).

**Owners.** Writers of two runs meet at the project lease. Wherever a command
may find it busy, its run on disk is the one it decided on, neither running nor
waiting for approval, with the picked writer still dispatchable
(`BusyRunsStayReady`); and every command ends, whichever leases the other holds
(`CommandsEnd`).

**LateWriters.** One writer at a time per project, from its dispatch until its
result and event are written, even with threads that write after their command
has gone (`OneWriterPerProject`; such a thread is a write of `state.json` and no
writer at work, its command's turn is over); and what such threads leave on disk is still a
state whose outcomes its dependencies explain (`OutcomesFollowDependencies`).
`ImplementsLifecycle` does not hold with late writes; that is the `LateWrite`
divergence.

**Routes.** A stored route of unfinished work is the weakest that the policy and
every active hard-risk rule of the run's configuration allow, and asks for
approval exactly when one of them does (`StoredRoutesMeetFloors`), also after
adoption by commands that were refused or killed at any point; no turn goes to a
model this command did not see offered (`TurnsUseAvailableModels`); what
validation lets through never fails `route`, but for a task name that an
operator typed or that another configuration dropped (`OnlyNamesAreUnknown`); an
explicit item's access mode and its route's sandbox agree under the
configuration that created it (`ExplicitAccessIsSandbox`). The planner accepts
exactly the lists that are plans (`AcceptsExactlyPlans`).

**Turns.** Codex never starts on a home that a thread of a timed-out call is
still copying (`SessionsSeeWholeHome`); a batch or a writer that returns has one
result per item, and the right one (`EveryItemIsAnswered`); a command that goes
on has left no task and no open session behind, so a writer's project lease goes
back with no Codex at work (`NothingIsLeftRunning`, which excludes a failure of
the SDK's `__aexit__` and a cancellation inside it or `__aenter__`); a SIGINT that
coincides with timeouts and failures of the group still stops the command, but
for a writer whose own session fails after the signal while it is entered or
left (`SignalStopsCommand`, see [below](#where-documentation-and-code-part)); a Codex that hangs does not hang it (`CommandEnds`).

**LeasedInspections.** Git or the hash helper runs only while its owner has the
lease (`ProcessesHaveLease`); an owner that is through left no lock unless its error says so
(`NoLeaseLeftBehind`), no descriptor (`DescriptorsClosed`), no process, zombie
or capture (`NothingLeftRunning`); a cancellation is never turned into success
(`CancelledNeverReturns`), nor into the timeout it coincides with
(`CancellationWins`); a Git that hangs does not keep the lease
(`LeaseComesBack`). With `SignalCancels = TRUE` several of these fail, see
[below](#where-documentation-and-code-part).

**Inspections.** A path reported clean was, at some moment of the
inspection, as the index has it (`CleanWasTrue`), and HEAD too, though the two
moments may differ; a path reported dirty did differ (`DirtyWasTrue`); nothing
untracked in the root directory is missed (`RootEntriesReported`).

**Checkpoints.** Readers and restarts see whole checkpoints only
(`CheckpointsAreWhole`); an event whose append has
returned stays a line of the journal, up to one event per line that a short
write or a kill left unfinished (`EventsAreKept`).

**Installations.** A failed transaction leaves the files as they were
(`RollbackRestores`, up to the removal of backups); a successful one is one
release its launcher accepts (`InstalledIsWhole`); an interrupted uninstall can
be retried as long as the uninstaller is there (`RetryAccepted`, the comment at
`uninstall.sh:436-437`); a completed uninstall removes exactly what its mode
says, counted from its first attempt (`UninstallRemovesExactly`; backups and
replacements that a killed installation left in the directory of programs stay,
since nothing owns them); without a kill, the operator has an accepted next
command whatever signals and failing operations came, if and only if no `rm` of
the uninstaller's final section failed between its own removal and that of the
marker (`SomeWayForward`, unless an unrecorded replacement was left outside the
directory of programs).

**Why the bounds are enough.** Every counted bound is a constant of its module,
and each instance is chosen for its case: three items are the least that make a
chain with an inner item, a cycle that is entered from outside, a batch that
leaves one over, and a batch in which one reader has finished, one fails and one
is cancelled; three paths in batches of two are a full batch and one more; two processes and two runs are the least for both leases to
matter; two configurations with disjoint approvals make every adoption change a
decision; four commands allow plan, approve, resume and one resume, approval or
acknowledgement between them, three those of two owners with a retry. One interrupt or kill may fall on any step, and the next command
recovers from it. Two edits are an edit and its reversal, three commands an
installation and two attempts to change it. Five calls of the store are a
create, a save beside an append, and a failure and a power loss between them.
The routing files have two rules for one flag in falling order of floor, reversed
ranks, a task that one file has and another drops, and each way a file can be
unsound. What needs more actors, items or interrupts than these is covered by
the theorems. `CHECK_DEADLOCK FALSE` is set where operators may stop issuing
commands or the one operation ends.

## Fairness

- `GoalRouter!FairSpec`: weak fairness of each process's own steps (`Work`),
  not of commands, interrupts or kills. asyncio runs whatever is ready, every
  turn has the timeout of its route (`sdk/codex.py:133`, `:171`), and `LateWrite`
  is the thread that the interpreter joins before it exits.
- `CodexCalls!FairSpec`: weak fairness of the command's own steps, of timers
  (`Expire`), of a raised cancellation, of the staging thread and of the awaits
  on it, and of closing a session and its streams. No fairness of `Open` and
  `Work`: Codex, or its authentication, may hang. That the SDK's `__aexit__`
  returns or raises is an assumption about the SDK.
- `LeasedInspection!FairInspectionSpec`: weak fairness of an owner's steps (the
  event loop runs a task whose await is over), of its lease thread (system calls
  return), of the capture, kill and reaping of its process, and of its timer. A
  child exits only by itself or when killed: no fairness is assumed of a Git
  that has not been killed, nor of cancellations. `LeaseComesBack` leaves out a
  kill that is refused (`spared`) and a failed release that was reported
  (`noted`).

Liveness is checked by TLC only; the prover has no fairness or ENABLED.

## Proofs

Every invariant and every action property that a passing run checks is proved
for every value of the constants: those of `GoalRouterRuns_proofs` without late
writes (`LateWrites = FALSE`), those of `LeasedInspection` without signals
between two awaits (`SignalCancels = FALSE`), because with them the code does
violate these properties. Only the three liveness properties are left to TLC.
Four theorems state what no run spends a property on (`CopiesAreCurrent`, of
which lost results would be the consequence, `TerminalResultsAreFinal`, which is
a part of the refinement, `BodiesExclude`, and the types of `RoutedRun`).
`IInv` below is the conjunction of the named parts of a module's inductive
invariant; each module proves `Init => IInv`, `IInv /\ [Next]_vars => IInv'`
action by action, and the properties from `IInv`.

| Module | Theorem | States |
|---|---|---|
| GoalRouter_proofs | `TypeCorrect` | `Spec => [](TypeOK /\ CommandsHaveState)` |
| | `WritersExclude` | `Spec => []OneWriterPerProject` |
| | `OutcomesAreExplained` | `OutcomesFollowDependencies` |
| | `TurnsAreApproved` | `ApprovedUnderCurrentPolicy` |
| | `NothingIsLeftOver` | `NothingLeftToDecide` |
| | `PassesAreDecided` | `PassesEndDecided` |
| GoalRouterRuns_proofs | `CopiesAreCurrent` | `CopyHasStoredResults` |
| (`Spec /\ LateWrites = FALSE =>`) | `DependenciesAreDurable` | `DependenciesDurable` |
| | `EventsAreTrue` | `EventsFollowState` |
| | `TerminalResultsAreFinal` | `TerminalResultsStay` |
| | `RunsFollowLifecycle` | `ImplementsLifecycle`: the refinement of `RunLifecycle` |
| | `CompletionsAreReviewed` | `ConcludedIsReviewed` |
| | `BusyRunsAreReady` | `BusyRunsStayReady` |
| | `RepeatsAreExplained` | `RepeatsNeedInterrupts` |
| RoutedRun_proofs | `TypeCorrect` | `TypeOK` |
| | `FloorsAreMet` | `StoredRoutesMeetFloors` |
| | `ModelsAreAvailable` | `TurnsUseAvailableModels` |
| | `NamesOnly` | `OnlyNamesAreUnknown` |
| | `AccessAgrees` | `ExplicitAccessIsSandbox` |
| | `PlansAreTold` | `AcceptsExactlyPlans` |
| RunStore_proofs | `CheckpointsSurvive` | `CheckpointsAreWhole` |
| | `EventsSurvive` | `EventsAreKept` |
| CodexCalls_proofs | `HomeIsWhole` | `SessionsSeeWholeHome` |
| | `ItemsAreAnswered` | `EveryItemIsAnswered` |
| | `CallsEnd` | `NothingIsLeftRunning` |
| | `SignalsStop` | `SignalStopsCommand` |
| LeasedInspection_proofs | `BodiesExclude` | `BodyHoldsLease` |
| (the others: `SignalCancels = FALSE`) | `LeasesComeBack` | `NoLeaseLeftBehind` |
| | `DescriptorsComeBack` | `DescriptorsClosed` |
| | `CancellationsAreRaised` | `CancelledNeverReturns` |
| | `CommandsAreReaped` | `NothingLeftRunning` |
| | `LeasesCoverProcesses` | `ProcessesHaveLease` |
| | `CancellationsWin` | `CancellationWins` |
| RepositoryInspection_proofs | `CleanPathsWereClean` | `CleanWasTrue` |
| | `DirtyPathsWereDirty` | `DirtyWasTrue` |
| | `NothingInTheRootIsMissed` | `RootEntriesReported` |
| ProductLifecycle_proofs | `RollbackIsExact` | `RollbackRestores` |
| | `InstallationsAreWhole` | `InstalledIsWhole` |
| | `RetriesAreAccepted` | `RetryAccepted` |
| | `RemovalsAreExact` | `UninstallRemovesExactly` |
| | `OnlyOrphansAreShutOut` | `SomeWayForward` |

The proofs rest on the named `ASSUME`s of the modules and on nothing else.
Those on constants of the program say little: identifiers of items are non-zero
numbers and finitely many, policies are functions, batches are not empty,
`None` is none of the other values, and the files that TLC or a proof starts
from satisfy the schema. `MarksAssumption` keeps the marks that a journal may
hold beside events, and the missing file, apart from the events themselves.
`PlansAssumption`, that the plans of `GoalRouter` are
valid, is what `PlansAreTold` proves of the planner.

**Writers (`WritersExclude`).** Two writers at work are excluded only because
both would own the lease, which `OneWriterPerProject` does not say. `LeaseInv`
adds that whoever is about to release the project lease owns it, and that no
results wait outside the places that write them, or else `Scan` or `EndTurns`
could put a writer's result to work without the lease. It holds with late writes
too, for a thread that outlives its command writes a document and no turn.

**Runs, whoever writes them.** Whatever a late write undoes, it writes a state
that a command once held. So `SoundInv` says of every state of a run, on disk,
in a command's memory or in a thread that outlived its command, that its
dependencies explain its outcomes (`Sound`), and of every command that the
results in its hands may be recorded in its own copy (`WorkInv`). `RouteInv`
says the same of digests, routes and approvals: an undecided item has the route
of the digest, every approval was granted, and from the adoption on the digest
is that of the command's own configuration. `LoopInv` is the bound of
`run_ready`'s loop: the pending items that are not at work never exceed the
iterations left, since an iteration over a list with a dispatchable item takes
at least one off. `BlockInv` adds that a dependent of a failed item is only
pending until the next iteration blocks it, so `NothingLeftToDecide` holds;
`PassesEndDecided` then needs that a non-empty set of pending items has a first
one in the acyclic order of dependencies, which the finiteness of the plan
gives. None of these relates two processes, so none needs the run lease.

**Runs, and their owners.** A late write undoes checkpoints of the run's later
owner (the `LateWrite` divergence), so what relates a copy to the disk can hold
only with `LateWrites = FALSE`. Then `OwnInv` says that a busy process owns its
run, and `RunInv` on top of it that the copy and `state.json` agree on
everything that is kept for good and that events tell of nothing else. From
these, each checkpoint is a step of `RunLifecycle` or changes none of it, which
is the refinement. `PickInv` says that what was picked stays dispatchable up to
the project lease; `ConcludeInv` adds what a command that has ended its passes
knows of its copy, and `CountInv` how often an item went to Codex: once for each
interrupt, and once more if it has its result or is being worked on.

**Routes.** The router's loop over the hard-risk rules keeps its choice the
weakest alias at or above all floors of the rules passed so far, whatever their
order (`RankIsHighest` and `RouterInv`); `StoredInv` carries what the router
returned through adoption, refusal and the end of the process.

**Plans.** `AcceptsExactlyPlans` needs the invariants of a depth-first search with
an explicit stack (`Searched`): the frames are distinct items and form a path of
dependencies, each waiting for the one above it (`Frames`); what is visited has
only visited dependencies (`Closed`), and every part of it has an item that
depends on none of the part (`Grounded`), so it has no cycle. When the search
meets an item of the stack, the frames from that item up lead back to it.

**Store.** The temporary file holds a whole document and is synchronised when it
is renamed (`ThreadInv`), so what readers see, and whatever a power loss leaves,
is a checkpoint (`FileInv`). For the journal, no more events are missing than
lines are torn, counted twice: over the lines that a power loss would keep for
what was acknowledged, and over all lines for what has returned or is flushed.
An event that continues part of a line is lost, but that line is torn from then
on, which pays for it; a power loss leaves a prefix no shorter than the kept one.

**Codex calls.** By `HomeInv` only the inventory ever copies the home, and no
session opens before the copy is known to be whole; `AnswerInv` ties each call's
end to the result its item gets; `SignalInv` keeps a signal requested, pending
or raised until the command has stopped, whatever the task group and the
timeouts do, or has an exception of the session in its place, which only a
writer's command survives.

**Leases.** `BodiesExclude` needs only that the lock has one holder. The others
need that a wait does not end before its operation, which fails when a signal
arrives between two awaits (`SignalCancels = TRUE`, see the next section).
Without such signals `WaitInv` has every pending cancellation show in the
owner's count while it waits; from it follow what a thread has open
(`ThreadInv`), where a command's process may be (`CommandInv`), and that a
cancellation is pending, recorded, or what the owner ends with (`CancelInv`).

**Inspection.** While the pinned index is still the index (`Current`), what Git's
commands have read of it was true when they did (`ReadInv`), every path collected
as dirty did differ, and every other agreed with the index or is still to be
compared (`DirtyInv`); an entry that still is what was opened has the content
that its digest tells (`BatchInv`).

**Installation.** Until the commit every target can be had back: from the
rollback's file, from its backup, or because it is still what was found. Which of
these it is depends on the position in the plan, which has each file at most once
and all but the retained policy; the rollback undoes the positions in reverse,
and a success has passed them all. `RetryInv` says that what a retry checks of the
marker, the launcher and the control file holds as long as the uninstaller is
there to run, since it is removed before the control files and the marker.
`ForwardInv` has everything in the state directory under its sentinel as long as
nothing is killed, so that an installation or an uninstall accepts what any
attempt has left; only after a failed removal in the final section is there a
marker without an uninstaller, which both refuse.

Only model-checked: the liveness properties (`CommandsEnd`, `LeaseComesBack`,
`CommandEnds`), which the prover has no means for. That the planner's search
ends is by induction over the list, which is out of its reach as well.

## Where documentation and code part

With a run that shows it:

- **LateWrite** (`LeaseHeldThroughWrites`). An interrupt during a store call ends
  the await and releases the run lease while the call's thread still replaces
  `state.json` (`json_store.py:74`); `src/docs/architecture.md:232-234` has the
  lease held through the final write.
- **RedactedNames** (`RunsCanBeResumed`). Redaction replaces the values of keys
  that are item identifiers, so a run with an item called `password` is saved in
  a form that no load accepts (`json_store.py:157`).
- **InstallSignal** (`FailedInstallChangesNothing`). A signal between `mktemp`
  and its record, or during the removal of the backups, is not rolled back
  (`install.sh:687`, `:728`); `src/docs/installation.md:116` says any failure is.
  On a fresh installation the leftover in the configuration directory makes
  later installations refuse it.

Observed with the definitions at the end of `GoalRouterProps` and of
`ExclusiveLease`, by replacing the properties of the named configuration:

- `CompletedIsReviewed` (Resumes.cfg): `completed` is on disk before the
  review is appended (`application.py:275`; `src/docs/architecture.md:197-199`).
- `FailuresBlockDependents` (Resumes.cfg): blocked items are computed once per
  iteration, so in a chain of three the last can stay pending until the next
  command (`scheduler.py:80`; `src/docs/architecture.md:196`). Direct dependents
  are always blocked, which `NothingLeftToDecide` checks.
- `FailuresNotRewritten` (Owners.cfg with an objective of two independent
  writers): a command that finds the project busy has saved `planned`
  over a run with a failed item (`scheduler.py:86`;
  `src/docs/operations.md:112-114`).
- `OneWriteCapableItem` (Resumes.cfg with a writing sandbox for every item): items
  planned as readers and routed with a writing sandbox run together
  (`scheduler.py:83`; `src/docs/architecture.md:191`).
- `WaitsUntilTerminal` (LeasedInspections.cfg with `SignalCancels = TRUE`):
  asyncio's SIGINT handler cancels the main task also while it runs. A
  cancellation requested before `wait_for_owned_task` is entered is in the count
  from which it starts, so its delivery is taken for the operation's own end and
  the wait is over early (`async_tools.py:25`; docstring `:13`). Every invariant
  of that run then fails, at the latest when the release of
  the lease or the stop of a process is waited for in that way.

Shown by the exception that a property of a passing run names:

- `SignalStopsCommand`: leaving a session that is being cancelled may raise an
  exception of its own, from the SDK's `__aexit__` or from closing the streams
  (`sdk/codex.py:331`, `:338`, `:348-352`). It takes the place of the
  cancellation, becomes an `SdkError` (`:156-157`), and for a writer a failed
  result (`scheduler.py:138`): the command goes on although it was interrupted.
- `SomeWayForward`: the final section of the uninstaller ignores signals "so it
  cannot strand an untrusted orphan" (`uninstall.sh:439-440`), but under
  `set -e` an `rm` that fails at `:445-448` leaves `.uninstalling` without an
  uninstaller, which `install.sh:309-310` and every retry refuse.

Read off the code:

- The status `blocked` of a run is unreachable, though the state diagram of
  `src/docs/architecture.md` has it: a blocked item always has a failed cause.
- Resumption of threads (`src/docs/operations.md:156`,
  `src/docs/troubleshooting.md:74`) never happens: a result that names a thread
  is terminal.
- Escalation cycles are accepted (`config.py:118-122` checks only that the target
  exists; `src/docs/configuration.md:73`).
- Matching rules and `default-task` never decide a route, because every request
  names its task (`src/docs/configuration.md:77-78`).
- The completion task need not have a read-only sandbox
  (`src/docs/configuration.md:32`).
- An event appended after a torn journal line continues that line and is lost with
  it (`json_store.py:138`; `src/docs/architecture.md:227`), and since a rename is
  not followed by an fsync of its directory, a synchronised event may outlive its
  checkpoint in a power loss.

## What is not modelled

- **Text and layout:** reports, argument parsing and exit codes, the JSON schemas
  (a file or an answer is schema-valid or refused), validation of single fields
  in `domain.py`, identifiers, YAML.
- **Routing:** matching rules and the default task beyond their validation, since
  no command reaches them; efforts, attempts and descriptions carry no
  decision, and timeouts are in `CodexCalls` as events.
- **Codex:** what a session answers and how items and usage are converted;
  `resume_thread`, which the scheduler cannot reach. What the SDK's `__aenter__`
  and `__aexit__` do when they are cancelled or fail is the SDK's: they may
  leave a process, which `NothingIsLeftRunning` excludes.
- **Plans:** the refusal of a plan that uses the identifier of the completion
  review (`application.py:133-134`), which ends the command as any other error
  does; in `RoutedRun` and `GoalRouter` no planned item has that identifier.
- **Store:** late writes of events and reports add a record that is true or an
  older status line; only `state.json` is ever read back. A crash between mkdir
  and the first `state.json` leaves a run identifier that can be neither created
  nor loaded; the model has that state and no property forbids it. The rename
  that is not durable is mentioned above.
- **Inspection:** ignored entries: `git ls-files` runs with `--exclude-standard`
  (`repository.py:593`), the paths of the model are those that are not ignored,
  and an edit of an ignore file during an inspection is left out. The branch name, gitlinks, output limits, instruction files
  and the bounded reader, the framing of the hash helper. Two changes of an
  entry are assumed to have distinct fingerprints, and HEAD is not pinned by
  the code either.
- **Leases and subprocesses:** cancellation inside `create_subprocess_exec`,
  which is asyncio's; a cancellation during a release after the body raised
  becomes a note on that error, as in the code.
- **Lifecycle scripts:** two commands at a time (the scripts take no lock; a
  hazard without a property, `install.sh:309`), a failing `rm` or `mv`
  inside the rollback, reuse of a PID in a backup's name,
  directory identities and paths, download and verification. The Windows
  scripts, containers, release and smoke scripts are outside these models.

## Plan

What a next step would be, most useful first:

1. Two lifecycle commands at a time, a hazard without a property.
2. Instruction files, the bounded reader and gitlinks of `repository.py`.
3. `GoalRouter`'s turn as an abstract specification that `CodexCalls` is shown
   to implement, checked and proved; so far the correspondence is by the
   properties that are proved of it.
