---------------------------- MODULE OwnedProcess ----------------------------
(***************************************************************************)
(* One Git or hash-helper subprocess as LocalCommandRunner.run_read_only   *)
(* and LocalBlobHasher.hash_descriptors own it: captured by a task, killed *)
(* with its process group and reaped when the capture fails or the owner   *)
(* is cancelled (inspect's timeouts cancel too), through any number of     *)
(* further cancellations.                                                  *)
(***************************************************************************)
EXTENDS OwnedTask

CONSTANT SignalCancels   \* may a cancellation hit the owner between two awaits?

VARIABLES
  pc,        \* where each owner is
  process,   \* the subprocess
  doomed,    \* was its process group killed?
  capture,   \* the task _collect_process_output
  cause,     \* what the except branch caught
  gathered,  \* did a wait of the cleanup collect a cancellation?
  spared,    \* did killing the process group fail?
  outcome    \* how run_read_only or hash_descriptors ended

processVars == <<process, doomed, capture>>
ownerVars   == <<pc, cause, gathered, spared, outcome>>
vars == <<taskVars, processVars, ownerVars>>

Pc == {"spawn", "capture", "stop", "end_capture", "reap_start", "reap", "ended"}

\* A process that exited is a zombie until asyncio's child watcher reaps it.
Process == {"none", "running", "zombie", "reaped"}

Capture == {"none", "running", "done", "failed", "cancelled"}

CaptureOver(p) == capture[p] # "running"
Reaped(p) == process[p] = "reaped"

TypeOK ==
  /\ TaskTypeOK
  /\ pc \in [Owner -> Pc]
  /\ process \in [Owner -> Process]
  /\ doomed \in [Owner -> BOOLEAN]
  /\ capture \in [Owner -> Capture]
  /\ cause \in [Owner -> {"none", "failure", "cancelled"}]
  /\ gathered \in [Owner -> BOOLEAN]
  /\ spared \in [Owner -> BOOLEAN]
  /\ outcome \in [Owner -> {"none", "returned", "failed", "cancelled"}]

Init ==
  /\ TaskInit
  /\ pc = [p \in Owner |-> "spawn"]
  /\ process = [p \in Owner |-> "none"]
  /\ doomed = [p \in Owner |-> FALSE]
  /\ capture = [p \in Owner |-> "none"]
  /\ cause = [p \in Owner |-> "none"]
  /\ gathered = [p \in Owner |-> FALSE]
  /\ spared = [p \in Owner |-> FALSE]
  /\ outcome = [p \in Owner |-> "none"]

Goto(p, to) == pc' = [pc EXCEPT ![p] = to]

-----------------------------------------------------------------------------
(* The process and its capture.                                            *)

\* Git ends by itself, if it ever does, or because its group was killed.
Exit(p) ==
  /\ process[p] = "running"
  /\ process' = [process EXCEPT ![p] = "zombie"]
  /\ UNCHANGED <<taskVars, doomed, capture, ownerVars>>

Reap(p) ==
  /\ process[p] = "zombie"
  /\ process' = [process EXCEPT ![p] = "reaped"]
  /\ UNCHANGED <<taskVars, doomed, capture, ownerVars>>

\* Both streams ended and process.wait() returned.
CaptureEnds(p) ==
  /\ capture[p] = "running"
  /\ Reaped(p)
  /\ capture' = [capture EXCEPT ![p] = "done"]
  /\ UNCHANGED <<taskVars, process, doomed, ownerVars>>

\* A stream exceeds _GIT_OUTPUT_LIMIT_BYTES or cannot be read.
CaptureFails(p) ==
  /\ capture[p] = "running"
  /\ capture' = [capture EXCEPT ![p] = "failed"]
  /\ UNCHANGED <<taskVars, process, doomed, ownerVars>>

\* The task group ends after communication.cancel().
CaptureCancelled(p) ==
  /\ capture[p] = "running"
  /\ pc[p] = "end_capture"
  /\ capture' = [capture EXCEPT ![p] = "cancelled"]
  /\ UNCHANGED <<taskVars, process, doomed, ownerVars>>

-----------------------------------------------------------------------------
(* The owner.                                                              *)

End(p, how) ==
  /\ outcome' = [outcome EXCEPT ![p] = how]
  /\ Goto(p, "ended")

SpawnFails(p) ==
  /\ pc[p] = "spawn"
  /\ End(p, "failed")
  /\ UNCHANGED <<taskVars, processVars, cause, gathered, spared>>

Spawn(p) ==
  /\ pc[p] = "spawn"
  /\ process' = [process EXCEPT ![p] = "running"]
  /\ capture' = [capture EXCEPT ![p] = "running"]
  /\ Goto(p, "capture")
  /\ UNCHANGED <<taskVars, doomed, cause, gathered, spared, outcome>>

\* asyncio.shield(communication) returns the output; a hash may be refused.
Captured(p) ==
  /\ pc[p] = "capture"
  /\ ~pending[p]
  /\ capture[p] = "done"
  /\ \E how \in {"returned", "failed"} : End(p, how)
  /\ UNCHANGED <<taskVars, processVars, cause, gathered, spared>>

\* It raises the owner's cancellation, or what failed the capture.
CaptureRaises(p) ==
  /\ pc[p] = "capture"
  /\ IF pending[p]
       THEN Delivered(p) /\ cause' = [cause EXCEPT ![p] = "cancelled"]
       ELSE /\ capture[p] = "failed"
            /\ cause' = [cause EXCEPT ![p] = "failure"]
            /\ UNCHANGED taskVars
  /\ Goto(p, "stop")
  /\ UNCHANGED <<processVars, gathered, spared, outcome>>

\* Mutant of Stop: the capture is cancelled but Git is left alone.
StopWithoutKill(p) ==
  /\ pc[p] = "stop"
  /\ EnterWait(p)
  /\ Goto(p, IF CaptureOver(p) THEN "reap_start" ELSE "end_capture")
  /\ UNCHANGED <<processVars, cause, gathered, spared, outcome>>

(***************************************************************************)
(* _stop_and_reap_process: killpg unless the return code is known (it may  *)
(* fail), communication.cancel(), and the wait for that task.              *)
(***************************************************************************)
Stop(p) ==
  /\ pc[p] = "stop"
  /\ \/ Reaped(p) /\ UNCHANGED <<doomed, spared>>
     \/ ~Reaped(p) /\ doomed' = [doomed EXCEPT ![p] = TRUE] /\ UNCHANGED spared
     \/ ~Reaped(p) /\ spared' = [spared EXCEPT ![p] = TRUE] /\ UNCHANGED doomed
  /\ EnterWait(p)
  /\ Goto(p, IF CaptureOver(p) THEN "reap_start" ELSE "end_capture")
  /\ UNCHANGED <<process, capture, cause, gathered, outcome>>

Waiting(p) ==
  \/ pc[p] = "end_capture" /\ Wake(p, CaptureOver(p)) /\ ~LeavesWait(p, CaptureOver(p))
  \/ pc[p] = "reap" /\ Wake(p, Reaped(p)) /\ ~LeavesWait(p, Reaped(p))

\* A wake-up that leaves the owner in the loop of wait_for_owned_task.
KeepWaiting(p) ==
  /\ Waiting(p)
  /\ UNCHANGED <<processVars, ownerVars>>

CaptureStopped(p) ==
  /\ pc[p] = "end_capture"
  /\ Wake(p, CaptureOver(p))
  /\ LeavesWait(p, CaptureOver(p))
  /\ gathered' = [gathered EXCEPT ![p] = @ \/ WasCancelled(p)]
  /\ Goto(p, "reap_start")
  /\ UNCHANGED <<processVars, cause, spared, outcome>>

\* Mutant of StartReap: a process that was killed is not waited for.
StartReapUnlessKilled(p) ==
  /\ pc[p] = "reap_start"
  /\ EnterWait(p)
  /\ IF doomed[p]
       THEN End(p, IF cause[p] = "cancelled" THEN "cancelled" ELSE "failed")
       ELSE Goto(p, "reap") /\ UNCHANGED outcome
  /\ UNCHANGED <<processVars, cause, gathered, spared>>

\* The wait for process.wait().
StartReap(p) ==
  /\ pc[p] = "reap_start"
  /\ EnterWait(p)
  /\ Goto(p, "reap")
  /\ UNCHANGED <<processVars, cause, gathered, spared, outcome>>

\* A cancellation, first or collected on the way, is what the caller sees.
Stopped(p) ==
  /\ pc[p] = "reap"
  /\ Wake(p, Reaped(p))
  /\ LeavesWait(p, Reaped(p))
  /\ End(p, IF cause[p] = "cancelled" \/ gathered[p] \/ WasCancelled(p)
              THEN "cancelled" ELSE "failed")
  /\ UNCHANGED <<processVars, cause, gathered, spared>>

\* By inspect's timeout, the command's task or a signal.
Cancel(p) ==
  /\ pc[p] \in IF SignalCancels THEN Pc \ {"spawn", "ended"}
                                ELSE {"capture", "end_capture", "reap"}
  /\ RequestCancel(p)
  /\ UNCHANGED <<processVars, ownerVars>>

-----------------------------------------------------------------------------
ProcessStep(p) ==
  \/ doomed[p] /\ Exit(p)
  \/ Reap(p) \/ CaptureEnds(p) \/ CaptureCancelled(p)

OwnerStep(p) ==
  \/ SpawnFails(p) \/ Spawn(p) \/ Captured(p) \/ CaptureRaises(p) \/ Stop(p) \/ KeepWaiting(p)
  \/ CaptureStopped(p) \/ StartReap(p) \/ Stopped(p)

Next ==
  \E p \in Owner : ProcessStep(p) \/ OwnerStep(p) \/ Exit(p) \/ CaptureFails(p) \/ Cancel(p)

Spec == Init /\ [][Next]_vars

-----------------------------------------------------------------------------
(* Properties.                                                             *)

(***************************************************************************)
(* Whatever failed or was cancelled, and however often, run_read_only and  *)
(* hash_descriptors leave no process, zombie or capture task behind.       *)
(***************************************************************************)
NothingLeftRunning ==
  \A p \in Owner : pc[p] = "ended" => process[p] \in {"none", "reaped"} /\ CaptureOver(p)

\* A cancellation is what the caller sees, whatever failed before or after it.
CancellationWins ==
  \A p \in Owner : cancelling[p] > 0 /\ pc[p] = "ended" => outcome[p] = "cancelled"
=============================================================================
