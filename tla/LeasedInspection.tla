--------------------------- MODULE LeasedInspection ---------------------------
(***************************************************************************)
(* Leases and subprocesses together.  plan_objective and run_task inspect  *)
(* the repository inside the run lease: the task that owns the lease is    *)
(* the task that owns a Git or hash-helper process, one cancellation hits  *)
(* both, and inspect's timeout cancels that task too but takes its request *)
(* back when it leaves.  Inspecting owners run one such command; the       *)
(* others have any body, and compete for the lease.                        *)
(***************************************************************************)
EXTENDS ExclusiveLease

CONSTANTS
  Inspecting,    \* the owners whose body is an inspection
  RivalCancels   \* bound on the cancellations of the other owners

ASSUME InspectingAssumption == Inspecting \subseteq Owner
ASSUME RivalCancelsAssumption == RivalCancels \in Nat

VARIABLES
  running, process, doomed, capture, cause, gathered, spared, ran,   \* the command
  expired   \* has the timeout around the command fired?

leaseVars   == <<threadVars, ownerVars>>
commandVars == <<running, process, doomed, capture, cause, gathered, spared, ran>>
inspectionVars == <<vars, commandVars, expired>>

Command == INSTANCE OwnedProcess WITH pc <- running, outcome <- ran

InspectionInit ==
  /\ Init
  /\ Command!Init
  /\ expired = [p \in Owner |-> FALSE]

InBody(p) == p \in Inspecting /\ pc[p] = "body"

-----------------------------------------------------------------------------
\* The command's owner runs in the body; process and capture run by themselves.
CommandStep(p) ==
  /\ InBody(p)
  /\ Command!OwnerStep(p)
  /\ UNCHANGED <<leaseVars, expired>>

ProcessStep(p) ==
  /\ Command!ProcessStep(p) \/ Command!Exit(p) \/ Command!CaptureFails(p)
  /\ UNCHANGED <<leaseVars, expired>>

\* asyncio.timeout around the command.
Expire(p) ==
  /\ InBody(p)
  /\ ~expired[p]
  /\ Command!Cancel(p)
  /\ expired' = [expired EXCEPT ![p] = TRUE]
  /\ UNCHANGED leaseVars

\* Mutant of EndInspection: the timeout does not look for other requests.
EndInspectionExpired(p) ==
  /\ InBody(p)
  /\ running[p] = "ended"
  /\ primary' = [primary EXCEPT ![p] =
       CASE ran[p] = "returned" -> "returned"
         [] ran[p] = "cancelled" /\ ~expired[p] -> "cancelled"
         [] OTHER -> "error"]
  /\ cancelling' = IF expired[p] THEN [cancelling EXCEPT ![p] = @ - 1] ELSE cancelling
  /\ Goto(p, "leave")
  /\ UNCHANGED <<pending, observed, recorded, threadVars, outcome, noted, commandVars, expired>>

(***************************************************************************)
(* The timeout takes its request back, and turns a cancellation into an    *)
(* error if nobody else requested one.                                     *)
(***************************************************************************)
EndInspection(p) ==
  /\ InBody(p)
  /\ running[p] = "ended"
  /\ primary' = [primary EXCEPT ![p] =
       CASE ran[p] = "returned" -> "returned"
         [] ran[p] = "cancelled" /\ ~(expired[p] /\ cancelling[p] = 1) -> "cancelled"
         [] OTHER -> "error"]
  /\ cancelling' = IF expired[p] THEN [cancelling EXCEPT ![p] = @ - 1] ELSE cancelling
  /\ Goto(p, "leave")
  /\ UNCHANGED <<pending, observed, recorded, threadVars, outcome, noted, commandVars, expired>>

\* The lease's own steps; the body of an inspecting owner is the command.
LeaseOwnerStep(p) ==
  /\ ~InBody(p)
  /\ OwnerStep(p)
  /\ UNCHANGED <<commandVars, expired>>

LeaseThreadStep(p) == ThreadStep(p) /\ UNCHANGED <<commandVars, expired>>

\* run_ready takes a project lease again; the run lease is taken once.
LeaseAgain(p) ==
  /\ p \notin Inspecting
  /\ Again(p)
  /\ UNCHANGED <<commandVars, expired>>

CancelOwner(p) ==
  \/ InBody(p) /\ Command!Cancel(p) /\ UNCHANGED <<leaseVars, expired>>
  \/ /\ ~InBody(p)
     /\ p \notin Inspecting => cancelling[p] < RivalCancels
     /\ Cancel(p)
     /\ UNCHANGED <<commandVars, expired>>

InspectionNext ==
  \E p \in Owner :
    \/ CommandStep(p) \/ ProcessStep(p) \/ Expire(p) \/ EndInspection(p)
    \/ LeaseOwnerStep(p) \/ LeaseThreadStep(p) \/ LeaseAgain(p) \/ CancelOwner(p)

InspectionSpec == InspectionInit /\ [][InspectionNext]_inspectionVars

(***************************************************************************)
(* System calls return, killed processes die and are reaped, the event     *)
(* loop runs a task whose await is over, and timers fire.  A Git that has  *)
(* not been killed may hang.                                               *)
(***************************************************************************)
FairInspectionSpec ==
  /\ InspectionSpec
  /\ \A p \in Owner :
       /\ WF_inspectionVars(CommandStep(p) \/ EndInspection(p) \/ LeaseOwnerStep(p))
       /\ WF_inspectionVars(LeaseThreadStep(p))
       /\ WF_inspectionVars(Command!ProcessStep(p) /\ UNCHANGED <<leaseVars, expired>>)
       /\ WF_inspectionVars(Expire(p))

-----------------------------------------------------------------------------
(* Properties; those of ExclusiveLease are checked of the composition.     *)

NothingLeftRunning == Command!NothingLeftRunning

(***************************************************************************)
(* A run lease covers every process its inspection started: whoever takes  *)
(* the lease next finds no Git and no hash helper of its predecessor.      *)
(***************************************************************************)
ProcessesHaveLease ==
  \A p \in Inspecting : process[p] \in {"running", "zombie"} \/ capture[p] = "running" => lock = p

\* A cancellation that is not the timeout's own ends the inspection as a cancellation.
CancellationWins ==
  \A p \in Inspecting :
    /\ InBody(p) /\ running[p] = "ended" /\ cancelling[p] > 0 => ran[p] = "cancelled"
    /\ cancelling[p] > 0 /\ pc[p] = "leave" => primary[p] = "cancelled"

\* A lease comes back although Git hangs: the timeout kills it, if it may be killed.
LeaseComesBack == \A p \in Owner : lock = p ~> (lock # p \/ noted[p] \/ spared[p])

=============================================================================
