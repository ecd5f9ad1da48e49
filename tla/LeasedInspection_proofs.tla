------------------------ MODULE LeasedInspection_proofs ------------------------
(***************************************************************************)
(* However many owners compete for a lease, however deep its chain of      *)
(* descriptors is and however often they are cancelled: bodies exclude     *)
(* each other, leases, descriptors and processes are given back, and a     *)
(* cancellation is what the caller sees.                                   *)
(*                                                                         *)
(* Mutual exclusion needs no assumption.  All else is proved for owners    *)
(* that are cancelled at awaits only, SignalCancels = FALSE: a signal that *)
(* hits an owner between two awaits ends a wait for an owned task early.   *)
(***************************************************************************)
EXTENDS LeasedInspection, Integers, TLAPS

Running == Command!Pc

TaskTypes ==
  /\ cancelling \in [Owner -> Int] /\ observed \in [Owner -> Int] /\ recorded \in [Owner -> Nat]
  /\ pending \in [Owner -> BOOLEAN]

LeaseTypes ==
  /\ pc \in [Owner -> Pc] /\ thread \in [Owner -> Thread]
  /\ fds \in [Owner -> SUBSET (1 .. Depth)]
  /\ primary \in [Owner -> Ending] /\ outcome \in [Owner -> Ending] /\ noted \in [Owner -> BOOLEAN]

CommandTypes ==
  /\ running \in [Owner -> Running] /\ process \in [Owner -> Command!Process]
  /\ capture \in [Owner -> Command!Capture] /\ cause \in [Owner -> {"none", "failure", "cancelled"}]
  /\ gathered \in [Owner -> BOOLEAN] /\ expired \in [Owner -> BOOLEAN]
  /\ ran \in [Owner -> {"none", "returned", "failed", "cancelled"}]

TypeInv == TaskTypes /\ LeaseTypes /\ CommandTypes

\* The lease: what its holder's thread and owner may be at.
LeaseInv ==
  \A p \in Owner :
    /\ lock = p => thread[p] \in {"locked", "releasing", "unreleased"}
    /\ thread[p] \in {"locked", "releasing"} => lock = p
    /\ pc[p] = "start" => thread[p] = "idle"
    /\ pc[p] \in {"body", "leave"} => thread[p] = "locked"
    /\ pc[p] = "ended" /\ outcome[p] = "returned" => thread[p] = "released"

\* A thread is waited for until it is finished, and what it has open is the end of the chain.
ThreadInv ==
  \A p \in Owner :
    /\ pc[p] = "acquire" =>
         thread[p] \in {"opening", "abandoning", "opened", "flock", "locked", "failed", "busy"}
    /\ pc[p] = "release" => thread[p] \in {"releasing", "released", "unreleased"}
    /\ pc[p] = "ended" => thread[p] \in {"failed", "busy", "released", "unreleased"}
    /\ pc[p] = "ended" /\ thread[p] = "unreleased" => noted[p]
    /\ thread[p] \in {"flock", "locked", "releasing"} => fds[p] \subseteq {Depth}
    /\ thread[p] \in {"idle", "failed", "busy", "released", "unreleased"} => fds[p] = {}

\* The command runs in the body, and its owner leaves it when all of it is over.
CommandInv ==
  \A p \in Owner :
    /\ running[p] \notin {"spawn", "ended"} => InBody(p)
    /\ p \in Inspecting /\ pc[p] \in {"start", "acquire"} => running[p] = "spawn" /\ ~expired[p]
    /\ running[p] = "spawn" => process[p] = "none" /\ capture[p] = "none"
    /\ capture[p] = "done" => process[p] = "reaped"
    /\ running[p] \in {"reap_start", "reap", "ended"} => capture[p] # "running"
    /\ running[p] = "ended" => process[p] \in {"none", "reaped"}

\* Where an owner waits for an owned task.
InWait(p) ==
  \/ pc[p] \in {"acquire", "release"}
  \/ InBody(p) /\ running[p] \in {"end_capture", "reap"}

\* A cancellation is delivered at the await it was requested at, so Task.cancelling() explains it.
WaitInv ==
  \A p \in Owner :
    /\ pending[p] => \/ InWait(p)
                     \/ pc[p] = "body" /\ (p \in Inspecting => running[p] = "capture")
    /\ InWait(p) => /\ observed[p] <= cancelling[p]
                    /\ pending[p] => observed[p] < cancelling[p]

\* A requested cancellation is pending, recorded, or what the owner ends with.
CancelInv ==
  \A p \in Owner :
    /\ cancelling[p] >= 0
    /\ InBody(p) /\ expired[p] => cancelling[p] > 0
    /\ outcome[p] = "returned" => pc[p] = "ended"
    /\ cancelling[p] > 0 =>
         /\ pc[p] # "start" /\ outcome[p] # "returned"
         /\ pc[p] = "acquire" => pending[p] \/ recorded[p] > 0
         /\ pc[p] = "body" /\ p \notin Inspecting => pending[p]
         /\ InBody(p) =>
              /\ running[p] # "spawn"
              /\ running[p] = "capture" => pending[p]
              /\ running[p] = "stop" => cause[p] = "cancelled"
              /\ running[p] = "end_capture" =>
                   cause[p] = "cancelled" \/ pending[p] \/ recorded[p] > 0
              /\ running[p] = "reap_start" => cause[p] = "cancelled" \/ gathered[p]
              /\ running[p] = "reap" =>
                   cause[p] = "cancelled" \/ gathered[p] \/ pending[p] \/ recorded[p] > 0
              /\ running[p] = "ended" => ran[p] = "cancelled"
         /\ pc[p] = "leave" => primary[p] = "cancelled"
         /\ pc[p] = "release" => primary[p] = "cancelled" \/ pending[p] \/ recorded[p] > 0

IInv == TypeInv /\ LeaseInv
AwaitInv == SignalCancels = FALSE /\ ThreadInv /\ CommandInv /\ WaitInv /\ CancelInv
-----------------------------------------------------------------------------
(* Every step keeps the invariants.                                        *)

\* A thread opens the next element.
LEMMA OpenNextKeeps ==
  ASSUME IInv, NEW p \in Owner, OpenNext(p) /\ UNCHANGED <<commandVars, expired>>
  PROVE  IInv' /\ (AwaitInv => AwaitInv')
<1> USE NobodyAssumption, DepthAssumption DEF OpenNext, Becomes, vars, taskVars, threadVars,
       ownerVars, leaseVars, commandVars, Command!taskVars, Command!processVars,
       Command!ownerVars
<1>1. TypeInv'
  <2>1. TaskTypes'
    BY DEF IInv, TypeInv, TaskTypes, LeaseTypes
  <2>2. LeaseTypes'
    BY DEF IInv, TypeInv, LeaseTypes, Pc, Thread, Ending
  <2>3. CommandTypes'
    BY DEF IInv, TypeInv, CommandTypes, Running, Command!Pc, Command!Process, Command!Capture
  <2>4. QED
    BY <2>1, <2>2, <2>3 DEF TypeInv
<1>2. LeaseInv'
  BY DEF IInv, TypeInv, TaskTypes, LeaseTypes, CommandTypes, LeaseInv, InBody
<1>3. ASSUME AwaitInv PROVE AwaitInv'
  <2>1. ThreadInv'
    BY <1>3 DEF IInv, AwaitInv, TypeInv, TaskTypes, LeaseTypes, CommandTypes, LeaseInv,
     ThreadInv, InBody, WaitInv, InWait
  <2>2. CommandInv'
    BY <1>3 DEF IInv, AwaitInv, TypeInv, TaskTypes, LeaseTypes, CommandTypes, CommandInv,
     InBody, WaitInv, InWait
  <2>3. WaitInv'
    BY <1>3 DEF IInv, AwaitInv, TypeInv, TaskTypes, LeaseTypes, CommandTypes, CommandInv,
     InBody, WaitInv, InWait
  <2>4. CancelInv'
    BY <1>3 DEF IInv, AwaitInv, TypeInv, TaskTypes, LeaseTypes, CommandTypes, LeaseInv,
     CommandInv, InBody, WaitInv, InWait, CancelInv
  <2>5. QED
    BY <1>3, <2>1, <2>2, <2>3, <2>4 DEF AwaitInv
<1>4. QED
  BY <1>1, <1>2, <1>3 DEF IInv

\* An element cannot be opened.
LEMMA OpenFailsKeeps ==
  ASSUME IInv, NEW p \in Owner, OpenFails(p) /\ UNCHANGED <<commandVars, expired>>
  PROVE  IInv' /\ (AwaitInv => AwaitInv')
<1> USE NobodyAssumption, DepthAssumption DEF OpenFails, Becomes, vars, taskVars,
       threadVars, ownerVars, leaseVars, commandVars, Command!taskVars, Command!processVars,
       Command!ownerVars
<1>1. TypeInv'
  <2>1. TaskTypes'
    BY DEF IInv, TypeInv, TaskTypes, LeaseTypes
  <2>2. LeaseTypes'
    BY DEF IInv, TypeInv, LeaseTypes, Pc, Thread, Ending
  <2>3. CommandTypes'
    BY DEF IInv, TypeInv, CommandTypes, Running, Command!Pc, Command!Process, Command!Capture
  <2>4. QED
    BY <2>1, <2>2, <2>3 DEF TypeInv
<1>2. LeaseInv'
  BY DEF IInv, TypeInv, TaskTypes, LeaseTypes, CommandTypes, LeaseInv, InBody
<1>3. ASSUME AwaitInv PROVE AwaitInv'
  <2>1. ThreadInv'
    BY <1>3 DEF IInv, AwaitInv, TypeInv, TaskTypes, LeaseTypes, CommandTypes, LeaseInv,
     ThreadInv, InBody, WaitInv, InWait
  <2>2. CommandInv'
    BY <1>3 DEF IInv, AwaitInv, TypeInv, TaskTypes, LeaseTypes, CommandTypes, CommandInv,
     InBody, WaitInv, InWait
  <2>3. WaitInv'
    BY <1>3 DEF IInv, AwaitInv, TypeInv, TaskTypes, LeaseTypes, CommandTypes, CommandInv,
     InBody, WaitInv, InWait
  <2>4. CancelInv'
    BY <1>3 DEF IInv, AwaitInv, TypeInv, TaskTypes, LeaseTypes, CommandTypes, LeaseInv,
     CommandInv, InBody, WaitInv, InWait, CancelInv
  <2>5. QED
    BY <1>3, <2>1, <2>2, <2>3, <2>4 DEF AwaitInv
<1>4. QED
  BY <1>1, <1>2, <1>3 DEF IInv

\* What was opened before is closed.
LEMMA CloseAbandonedKeeps ==
  ASSUME IInv, NEW p \in Owner, CloseAbandoned(p) /\ UNCHANGED <<commandVars, expired>>
  PROVE  IInv' /\ (AwaitInv => AwaitInv')
<1> USE NobodyAssumption, DepthAssumption DEF CloseAbandoned, Becomes, Close, vars,
       taskVars, threadVars, ownerVars, leaseVars, commandVars, Command!taskVars,
       Command!processVars, Command!ownerVars
<1>1. TypeInv'
  <2>1. TaskTypes'
    BY DEF IInv, TypeInv, TaskTypes, LeaseTypes
  <2>2. LeaseTypes'
    BY DEF IInv, TypeInv, LeaseTypes, Pc, Thread, Ending
  <2>3. CommandTypes'
    BY DEF IInv, TypeInv, CommandTypes, Running, Command!Pc, Command!Process, Command!Capture
  <2>4. QED
    BY <2>1, <2>2, <2>3 DEF TypeInv
<1>2. LeaseInv'
  BY DEF IInv, TypeInv, TaskTypes, LeaseTypes, CommandTypes, LeaseInv, InBody
<1>3. ASSUME AwaitInv PROVE AwaitInv'
  <2>1. ThreadInv'
    BY <1>3 DEF IInv, AwaitInv, TypeInv, TaskTypes, LeaseTypes, CommandTypes, LeaseInv,
     ThreadInv, InBody, WaitInv, InWait
  <2>2. CommandInv'
    BY <1>3 DEF IInv, AwaitInv, TypeInv, TaskTypes, LeaseTypes, CommandTypes, CommandInv,
     InBody, WaitInv, InWait
  <2>3. WaitInv'
    BY <1>3 DEF IInv, AwaitInv, TypeInv, TaskTypes, LeaseTypes, CommandTypes, CommandInv,
     InBody, WaitInv, InWait
  <2>4. CancelInv'
    BY <1>3 DEF IInv, AwaitInv, TypeInv, TaskTypes, LeaseTypes, CommandTypes, LeaseInv,
     CommandInv, InBody, WaitInv, InWait, CancelInv
  <2>5. QED
    BY <1>3, <2>1, <2>2, <2>3, <2>4 DEF AwaitInv
<1>4. QED
  BY <1>1, <1>2, <1>3 DEF IInv

\* The directories above the lock are closed.
LEMMA CloseDirectoriesKeeps ==
  ASSUME IInv, NEW p \in Owner, CloseDirectories(p) /\ UNCHANGED <<commandVars, expired>>
  PROVE  IInv' /\ (AwaitInv => AwaitInv')
<1> USE NobodyAssumption, DepthAssumption DEF CloseDirectories, Becomes, Close, vars,
       taskVars, threadVars, ownerVars, leaseVars, commandVars, Command!taskVars,
       Command!processVars, Command!ownerVars
<1>1. TypeInv'
  <2>1. TaskTypes'
    BY DEF IInv, TypeInv, TaskTypes, LeaseTypes
  <2>2. LeaseTypes'
    BY DEF IInv, TypeInv, LeaseTypes, Pc, Thread, Ending
  <2>3. CommandTypes'
    BY DEF IInv, TypeInv, CommandTypes, Running, Command!Pc, Command!Process, Command!Capture
  <2>4. QED
    BY <2>1, <2>2, <2>3 DEF TypeInv
<1>2. LeaseInv'
  BY DEF IInv, TypeInv, TaskTypes, LeaseTypes, CommandTypes, LeaseInv, InBody
<1>3. ASSUME AwaitInv PROVE AwaitInv'
  <2>1. ThreadInv'
    BY <1>3 DEF IInv, AwaitInv, TypeInv, TaskTypes, LeaseTypes, CommandTypes, LeaseInv,
     ThreadInv, InBody, WaitInv, InWait
  <2>2. CommandInv'
    BY <1>3 DEF IInv, AwaitInv, TypeInv, TaskTypes, LeaseTypes, CommandTypes, CommandInv,
     InBody, WaitInv, InWait
  <2>3. WaitInv'
    BY <1>3 DEF IInv, AwaitInv, TypeInv, TaskTypes, LeaseTypes, CommandTypes, CommandInv,
     InBody, WaitInv, InWait
  <2>4. CancelInv'
    BY <1>3 DEF IInv, AwaitInv, TypeInv, TaskTypes, LeaseTypes, CommandTypes, LeaseInv,
     CommandInv, InBody, WaitInv, InWait, CancelInv
  <2>5. QED
    BY <1>3, <2>1, <2>2, <2>3, <2>4 DEF AwaitInv
<1>4. QED
  BY <1>1, <1>2, <1>3 DEF IInv

\* The lock is taken.
LEMMA FlockKeeps ==
  ASSUME IInv, NEW p \in Owner, Flock(p) /\ UNCHANGED <<commandVars, expired>>
  PROVE  IInv' /\ (AwaitInv => AwaitInv')
<1> USE NobodyAssumption, DepthAssumption DEF Flock, Becomes, vars, taskVars, threadVars,
       ownerVars, leaseVars, commandVars, Command!taskVars, Command!processVars,
       Command!ownerVars
<1>1. TypeInv'
  <2>1. TaskTypes'
    BY DEF IInv, TypeInv, TaskTypes, LeaseTypes
  <2>2. LeaseTypes'
    BY DEF IInv, TypeInv, LeaseTypes, Pc, Thread, Ending
  <2>3. CommandTypes'
    BY DEF IInv, TypeInv, CommandTypes, Running, Command!Pc, Command!Process, Command!Capture
  <2>4. QED
    BY <2>1, <2>2, <2>3 DEF TypeInv
<1>2. LeaseInv'
  BY DEF IInv, TypeInv, TaskTypes, LeaseTypes, CommandTypes, LeaseInv, InBody
<1>3. ASSUME AwaitInv PROVE AwaitInv'
  <2>1. ThreadInv'
    BY <1>3 DEF IInv, AwaitInv, TypeInv, TaskTypes, LeaseTypes, CommandTypes, LeaseInv,
     ThreadInv, InBody, WaitInv, InWait
  <2>2. CommandInv'
    BY <1>3 DEF IInv, AwaitInv, TypeInv, TaskTypes, LeaseTypes, CommandTypes, CommandInv,
     InBody, WaitInv, InWait
  <2>3. WaitInv'
    BY <1>3 DEF IInv, AwaitInv, TypeInv, TaskTypes, LeaseTypes, CommandTypes, CommandInv,
     InBody, WaitInv, InWait
  <2>4. CancelInv'
    BY <1>3 DEF IInv, AwaitInv, TypeInv, TaskTypes, LeaseTypes, CommandTypes, LeaseInv,
     CommandInv, InBody, WaitInv, InWait, CancelInv
  <2>5. QED
    BY <1>3, <2>1, <2>2, <2>3, <2>4 DEF AwaitInv
<1>4. QED
  BY <1>1, <1>2, <1>3 DEF IInv

\* The lock is not taken.
LEMMA FlockFailsKeeps ==
  ASSUME IInv, NEW p \in Owner, FlockFails(p) /\ UNCHANGED <<commandVars, expired>>
  PROVE  IInv' /\ (AwaitInv => AwaitInv')
<1> USE NobodyAssumption, DepthAssumption DEF FlockFails, Becomes, Close, vars, taskVars,
       threadVars, ownerVars, leaseVars, commandVars, Command!taskVars, Command!processVars,
       Command!ownerVars
<1>1. TypeInv'
  <2>1. TaskTypes'
    BY DEF IInv, TypeInv, TaskTypes, LeaseTypes
  <2>2. LeaseTypes'
    BY DEF IInv, TypeInv, LeaseTypes, Pc, Thread, Ending
  <2>3. CommandTypes'
    BY DEF IInv, TypeInv, CommandTypes, Running, Command!Pc, Command!Process, Command!Capture
  <2>4. QED
    BY <2>1, <2>2, <2>3 DEF TypeInv
<1>2. LeaseInv'
  BY DEF IInv, TypeInv, TaskTypes, LeaseTypes, CommandTypes, LeaseInv, InBody
<1>3. ASSUME AwaitInv PROVE AwaitInv'
  <2>1. ThreadInv'
    BY <1>3 DEF IInv, AwaitInv, TypeInv, TaskTypes, LeaseTypes, CommandTypes, LeaseInv,
     ThreadInv, InBody, WaitInv, InWait
  <2>2. CommandInv'
    BY <1>3 DEF IInv, AwaitInv, TypeInv, TaskTypes, LeaseTypes, CommandTypes, CommandInv,
     InBody, WaitInv, InWait
  <2>3. WaitInv'
    BY <1>3 DEF IInv, AwaitInv, TypeInv, TaskTypes, LeaseTypes, CommandTypes, CommandInv,
     InBody, WaitInv, InWait
  <2>4. CancelInv'
    BY <1>3 DEF IInv, AwaitInv, TypeInv, TaskTypes, LeaseTypes, CommandTypes, LeaseInv,
     CommandInv, InBody, WaitInv, InWait, CancelInv
  <2>5. QED
    BY <1>3, <2>1, <2>2, <2>3, <2>4 DEF AwaitInv
<1>4. QED
  BY <1>1, <1>2, <1>3 DEF IInv

\* The lock is given back, or not.
LEMMA ReleaseDescriptorKeeps ==
  ASSUME IInv, NEW p \in Owner, ReleaseDescriptor(p) /\ UNCHANGED <<commandVars, expired>>
  PROVE  IInv' /\ (AwaitInv => AwaitInv')
<1> USE NobodyAssumption, DepthAssumption DEF ReleaseDescriptor, Becomes, Close, vars,
       taskVars, threadVars, ownerVars, leaseVars, commandVars, Command!taskVars,
       Command!processVars, Command!ownerVars
<1>1. TypeInv'
  <2>1. TaskTypes'
    BY DEF IInv, TypeInv, TaskTypes, LeaseTypes
  <2>2. LeaseTypes'
    BY DEF IInv, TypeInv, LeaseTypes, Pc, Thread, Ending
  <2>3. CommandTypes'
    BY DEF IInv, TypeInv, CommandTypes, Running, Command!Pc, Command!Process, Command!Capture
  <2>4. QED
    BY <2>1, <2>2, <2>3 DEF TypeInv
<1>2. LeaseInv'
  BY DEF IInv, TypeInv, TaskTypes, LeaseTypes, CommandTypes, LeaseInv, InBody
<1>3. ASSUME AwaitInv PROVE AwaitInv'
  <2>1. ThreadInv'
    BY <1>3 DEF IInv, AwaitInv, TypeInv, TaskTypes, LeaseTypes, CommandTypes, LeaseInv,
     ThreadInv, InBody, WaitInv, InWait
  <2>2. CommandInv'
    BY <1>3 DEF IInv, AwaitInv, TypeInv, TaskTypes, LeaseTypes, CommandTypes, CommandInv,
     InBody, WaitInv, InWait
  <2>3. WaitInv'
    BY <1>3 DEF IInv, AwaitInv, TypeInv, TaskTypes, LeaseTypes, CommandTypes, CommandInv,
     InBody, WaitInv, InWait
  <2>4. CancelInv'
    BY <1>3 DEF IInv, AwaitInv, TypeInv, TaskTypes, LeaseTypes, CommandTypes, LeaseInv,
     CommandInv, InBody, WaitInv, InWait, CancelInv
  <2>5. QED
    BY <1>3, <2>1, <2>2, <2>3, <2>4 DEF AwaitInv
<1>4. QED
  BY <1>1, <1>2, <1>3 DEF IInv

\* The wait for the lease begins.
LEMMA AcquireKeeps ==
  ASSUME IInv, NEW p \in Owner, Acquire(p) /\ UNCHANGED <<commandVars, expired>>
  PROVE  IInv' /\ (AwaitInv => AwaitInv')
<1> USE NobodyAssumption, DepthAssumption DEF Acquire, Becomes, Goto, EnterWait, vars,
       taskVars, threadVars, ownerVars, leaseVars, commandVars, Command!taskVars,
       Command!processVars, Command!ownerVars
<1>1. TypeInv'
  <2>1. TaskTypes'
    BY DEF IInv, TypeInv, TaskTypes, LeaseTypes
  <2>2. LeaseTypes'
    BY DEF IInv, TypeInv, LeaseTypes, Pc, Thread, Ending
  <2>3. CommandTypes'
    BY DEF IInv, TypeInv, CommandTypes, Running, Command!Pc, Command!Process, Command!Capture
  <2>4. QED
    BY <2>1, <2>2, <2>3 DEF TypeInv
<1>2. LeaseInv'
  BY DEF IInv, TypeInv, TaskTypes, LeaseTypes, CommandTypes, LeaseInv, InBody
<1>3. ASSUME AwaitInv PROVE AwaitInv'
  <2>1. ThreadInv'
    BY <1>3 DEF IInv, AwaitInv, TypeInv, TaskTypes, LeaseTypes, CommandTypes, LeaseInv,
     ThreadInv, InBody, WaitInv, InWait
  <2>2. CommandInv'
    BY <1>3 DEF IInv, AwaitInv, TypeInv, TaskTypes, LeaseTypes, CommandTypes, CommandInv,
     InBody, WaitInv, InWait
  <2>3. WaitInv'
    BY <1>3 DEF IInv, AwaitInv, TypeInv, TaskTypes, LeaseTypes, CommandTypes, CommandInv,
     InBody, WaitInv, InWait
  <2>4. CancelInv'
    BY <1>3 DEF IInv, AwaitInv, TypeInv, TaskTypes, LeaseTypes, CommandTypes, LeaseInv,
     CommandInv, InBody, WaitInv, InWait, CancelInv
  <2>5. QED
    BY <1>3, <2>1, <2>2, <2>3, <2>4 DEF AwaitInv
<1>4. QED
  BY <1>1, <1>2, <1>3 DEF IInv

\* A cancellation is recorded and the wait goes on.
LEMMA KeepWaitingKeeps ==
  ASSUME IInv, NEW p \in Owner, KeepWaiting(p) /\ UNCHANGED <<commandVars, expired>>
  PROVE  IInv' /\ (AwaitInv => AwaitInv')
<1> USE NobodyAssumption, DepthAssumption DEF KeepWaiting, Wake, LeavesWait, Unexplained,
       Finished, vars, taskVars, threadVars, ownerVars, leaseVars, commandVars,
       Command!taskVars, Command!processVars, Command!ownerVars
<1>1. TypeInv'
  <2>1. TaskTypes'
    BY DEF IInv, TypeInv, TaskTypes, LeaseTypes
  <2>2. LeaseTypes'
    BY DEF IInv, TypeInv, LeaseTypes, Pc, Thread, Ending
  <2>3. CommandTypes'
    BY DEF IInv, TypeInv, CommandTypes, Running, Command!Pc, Command!Process, Command!Capture
  <2>4. QED
    BY <2>1, <2>2, <2>3 DEF TypeInv
<1>2. LeaseInv'
  BY DEF IInv, TypeInv, TaskTypes, LeaseTypes, CommandTypes, LeaseInv, InBody
<1>3. ASSUME AwaitInv PROVE AwaitInv'
  <2>1. ThreadInv'
    BY <1>3 DEF IInv, AwaitInv, TypeInv, TaskTypes, LeaseTypes, CommandTypes, LeaseInv,
     ThreadInv, InBody, WaitInv, InWait
  <2>2. CommandInv'
    BY <1>3 DEF IInv, AwaitInv, TypeInv, TaskTypes, LeaseTypes, CommandTypes, CommandInv,
     InBody, WaitInv, InWait
  <2>3. WaitInv'
    BY <1>3 DEF IInv, AwaitInv, TypeInv, TaskTypes, LeaseTypes, CommandTypes, CommandInv,
     InBody, WaitInv, InWait
  <2>4. CancelInv'
    BY <1>3 DEF IInv, AwaitInv, TypeInv, TaskTypes, LeaseTypes, CommandTypes, LeaseInv,
     CommandInv, InBody, WaitInv, InWait, CancelInv
  <2>5. QED
    BY <1>3, <2>1, <2>2, <2>3, <2>4 DEF AwaitInv
<1>4. QED
  BY <1>1, <1>2, <1>3 DEF IInv

\* The wait for the lease is over.
LEMMA AcquiredKeeps ==
  ASSUME IInv, NEW p \in Owner, Acquired(p) /\ UNCHANGED <<commandVars, expired>>
  PROVE  IInv' /\ (AwaitInv => AwaitInv')
<1> USE NobodyAssumption, DepthAssumption DEF Acquired, Wake, LeavesWait, Unexplained,
       WasCancelled, Finished, Goto, End, vars, taskVars, threadVars, ownerVars, leaseVars,
       commandVars, Command!taskVars, Command!processVars, Command!ownerVars
<1>1. TypeInv'
  <2>1. TaskTypes'
    BY DEF IInv, TypeInv, TaskTypes, LeaseTypes
  <2>2. LeaseTypes'
    BY DEF IInv, TypeInv, LeaseTypes, Pc, Thread, Ending
  <2>3. CommandTypes'
    BY DEF IInv, TypeInv, CommandTypes, Running, Command!Pc, Command!Process, Command!Capture
  <2>4. QED
    BY <2>1, <2>2, <2>3 DEF TypeInv
<1>2. LeaseInv'
  BY DEF IInv, TypeInv, TaskTypes, LeaseTypes, CommandTypes, LeaseInv, InBody
<1>3. ASSUME AwaitInv PROVE AwaitInv'
  <2>1. ThreadInv'
    BY <1>3 DEF IInv, AwaitInv, TypeInv, TaskTypes, LeaseTypes, CommandTypes, LeaseInv,
     ThreadInv, InBody, WaitInv, InWait
  <2>2. CommandInv'
    BY <1>3 DEF IInv, AwaitInv, TypeInv, TaskTypes, LeaseTypes, CommandTypes, CommandInv,
     InBody, WaitInv, InWait
  <2>3. WaitInv'
    BY <1>3 DEF IInv, AwaitInv, TypeInv, TaskTypes, LeaseTypes, CommandTypes, CommandInv,
     InBody, WaitInv, InWait
  <2>4. CancelInv'
    BY <1>3 DEF IInv, AwaitInv, TypeInv, TaskTypes, LeaseTypes, CommandTypes, LeaseInv,
     CommandInv, InBody, WaitInv, InWait, CancelInv
  <2>5. QED
    BY <1>3, <2>1, <2>2, <2>3, <2>4 DEF AwaitInv
<1>4. QED
  BY <1>1, <1>2, <1>3 DEF IInv

\* A body that is no inspection ends.
LEMMA BodyKeeps ==
  ASSUME IInv, NEW p \in Owner, ~InBody(p) /\ Body(p) /\ UNCHANGED <<commandVars, expired>>
  PROVE  IInv' /\ (AwaitInv => AwaitInv')
<1> USE NobodyAssumption, DepthAssumption DEF Body, Delivered, Goto, vars, taskVars,
       threadVars, ownerVars, leaseVars, commandVars, Command!taskVars, Command!processVars,
       Command!ownerVars
<1>1. TypeInv'
  <2>1. TaskTypes'
    BY DEF IInv, TypeInv, TaskTypes, LeaseTypes
  <2>2. LeaseTypes'
    BY DEF IInv, TypeInv, LeaseTypes, Pc, Thread, Ending
  <2>3. CommandTypes'
    BY DEF IInv, TypeInv, CommandTypes, Running, Command!Pc, Command!Process, Command!Capture
  <2>4. QED
    BY <2>1, <2>2, <2>3 DEF TypeInv
<1>2. LeaseInv'
  BY DEF IInv, TypeInv, TaskTypes, LeaseTypes, CommandTypes, LeaseInv, InBody
<1>3. ASSUME AwaitInv PROVE AwaitInv'
  <2>1. ThreadInv'
    BY <1>3 DEF IInv, AwaitInv, TypeInv, TaskTypes, LeaseTypes, CommandTypes, LeaseInv,
     ThreadInv, InBody, WaitInv, InWait
  <2>2. CommandInv'
    BY <1>3 DEF IInv, AwaitInv, TypeInv, TaskTypes, LeaseTypes, CommandTypes, CommandInv,
     InBody, WaitInv, InWait
  <2>3. WaitInv'
    BY <1>3 DEF IInv, AwaitInv, TypeInv, TaskTypes, LeaseTypes, CommandTypes, CommandInv,
     InBody, WaitInv, InWait
  <2>4. CancelInv'
    BY <1>3 DEF IInv, AwaitInv, TypeInv, TaskTypes, LeaseTypes, CommandTypes, LeaseInv,
     CommandInv, InBody, WaitInv, InWait, CancelInv
  <2>5. QED
    BY <1>3, <2>1, <2>2, <2>3, <2>4 DEF AwaitInv
<1>4. QED
  BY <1>1, <1>2, <1>3 DEF IInv

\* The release begins.
LEMMA LeaveKeeps ==
  ASSUME IInv, NEW p \in Owner, Leave(p) /\ UNCHANGED <<commandVars, expired>>
  PROVE  IInv' /\ (AwaitInv => AwaitInv')
<1> USE NobodyAssumption, DepthAssumption DEF Leave, Becomes, Goto, EnterWait, vars,
       taskVars, threadVars, ownerVars, leaseVars, commandVars, Command!taskVars,
       Command!processVars, Command!ownerVars
<1>1. TypeInv'
  <2>1. TaskTypes'
    BY DEF IInv, TypeInv, TaskTypes, LeaseTypes
  <2>2. LeaseTypes'
    BY DEF IInv, TypeInv, LeaseTypes, Pc, Thread, Ending
  <2>3. CommandTypes'
    BY DEF IInv, TypeInv, CommandTypes, Running, Command!Pc, Command!Process, Command!Capture
  <2>4. QED
    BY <2>1, <2>2, <2>3 DEF TypeInv
<1>2. LeaseInv'
  BY DEF IInv, TypeInv, TaskTypes, LeaseTypes, CommandTypes, LeaseInv, InBody
<1>3. ASSUME AwaitInv PROVE AwaitInv'
  <2>1. ThreadInv'
    BY <1>3 DEF IInv, AwaitInv, TypeInv, TaskTypes, LeaseTypes, CommandTypes, LeaseInv,
     ThreadInv, InBody, WaitInv, InWait
  <2>2. CommandInv'
    BY <1>3 DEF IInv, AwaitInv, TypeInv, TaskTypes, LeaseTypes, CommandTypes, CommandInv,
     InBody, WaitInv, InWait
  <2>3. WaitInv'
    BY <1>3 DEF IInv, AwaitInv, TypeInv, TaskTypes, LeaseTypes, CommandTypes, CommandInv,
     InBody, WaitInv, InWait
  <2>4. CancelInv'
    BY <1>3 DEF IInv, AwaitInv, TypeInv, TaskTypes, LeaseTypes, CommandTypes, LeaseInv,
     CommandInv, InBody, WaitInv, InWait, CancelInv
  <2>5. QED
    BY <1>3, <2>1, <2>2, <2>3, <2>4 DEF AwaitInv
<1>4. QED
  BY <1>1, <1>2, <1>3 DEF IInv

\* The release is over.
LEMMA ReleasedKeeps ==
  ASSUME IInv, NEW p \in Owner, Released(p) /\ UNCHANGED <<commandVars, expired>>
  PROVE  IInv' /\ (AwaitInv => AwaitInv')
<1> USE NobodyAssumption, DepthAssumption DEF Released, Wake, LeavesWait, Unexplained,
       WasCancelled, Finished, Goto, End, vars, taskVars, threadVars, ownerVars, leaseVars,
       commandVars, Command!taskVars, Command!processVars, Command!ownerVars
<1>1. TypeInv'
  <2>1. TaskTypes'
    BY DEF IInv, TypeInv, TaskTypes, LeaseTypes
  <2>2. LeaseTypes'
    BY DEF IInv, TypeInv, LeaseTypes, Pc, Thread, Ending
  <2>3. CommandTypes'
    BY DEF IInv, TypeInv, CommandTypes, Running, Command!Pc, Command!Process, Command!Capture
  <2>4. QED
    BY <2>1, <2>2, <2>3 DEF TypeInv
<1>2. LeaseInv'
  BY DEF IInv, TypeInv, TaskTypes, LeaseTypes, CommandTypes, LeaseInv, InBody
<1>3. ASSUME AwaitInv PROVE AwaitInv'
  <2>1. ThreadInv'
    <3>1. Finished(p)
      BY <1>3 DEF IInv, AwaitInv, TypeInv, TaskTypes, WaitInv, InWait
    <3>2. thread[p] \in {"released", "unreleased"}
      BY <1>3, <3>1 DEF AwaitInv, ThreadInv
    <3>3. noted'[p] = (thread[p] # "released")
      BY DEF IInv, TypeInv, LeaseTypes
    <3>4. /\ \A q \in Owner \ {p} : noted'[q] = noted[q] /\ pc'[q] = pc[q]
          /\ pc'[p] = "ended" /\ UNCHANGED <<thread, fds>>
      BY DEF IInv, TypeInv, LeaseTypes
    <3>5. ThreadInv
      BY <1>3 DEF AwaitInv
    <3>6. thread[p] = "unreleased" => noted'[p]
      BY <3>3
    <3>7. QED
      BY <3>2, <3>4, <3>5, <3>6 DEF ThreadInv
  <2>2. CommandInv'
    BY <1>3 DEF IInv, AwaitInv, TypeInv, TaskTypes, LeaseTypes, CommandTypes, CommandInv,
     InBody, WaitInv, InWait
  <2>3. WaitInv'
    BY <1>3 DEF IInv, AwaitInv, TypeInv, TaskTypes, LeaseTypes, CommandTypes, CommandInv,
     InBody, WaitInv, InWait
  <2>4. CancelInv'
    BY <1>3 DEF IInv, AwaitInv, TypeInv, TaskTypes, LeaseTypes, CommandTypes, LeaseInv,
     CommandInv, InBody, WaitInv, InWait, CancelInv
  <2>5. QED
    BY <1>3, <2>1, <2>2, <2>3, <2>4 DEF AwaitInv
<1>4. QED
  BY <1>1, <1>2, <1>3 DEF IInv

\* The lease is taken again.
LEMMA LeaseAgainKeeps ==
  ASSUME IInv, NEW p \in Owner, LeaseAgain(p)
  PROVE  IInv' /\ (AwaitInv => AwaitInv')
<1> USE NobodyAssumption, DepthAssumption DEF LeaseAgain, Again, Becomes, Goto, vars,
       taskVars, threadVars, ownerVars, leaseVars, commandVars, Command!taskVars,
       Command!processVars, Command!ownerVars
<1>1. TypeInv'
  <2>1. TaskTypes'
    BY DEF IInv, TypeInv, TaskTypes, LeaseTypes
  <2>2. LeaseTypes'
    BY DEF IInv, TypeInv, LeaseTypes, Pc, Thread, Ending
  <2>3. CommandTypes'
    BY DEF IInv, TypeInv, CommandTypes, Running, Command!Pc, Command!Process, Command!Capture
  <2>4. QED
    BY <2>1, <2>2, <2>3 DEF TypeInv
<1>2. LeaseInv'
  BY DEF IInv, TypeInv, TaskTypes, LeaseTypes, CommandTypes, LeaseInv, InBody
<1>3. ASSUME AwaitInv PROVE AwaitInv'
  <2>1. ThreadInv'
    BY <1>3 DEF IInv, AwaitInv, TypeInv, TaskTypes, LeaseTypes, CommandTypes, LeaseInv,
     ThreadInv, InBody, WaitInv, InWait
  <2>2. CommandInv'
    BY <1>3 DEF IInv, AwaitInv, TypeInv, TaskTypes, LeaseTypes, CommandTypes, CommandInv,
     InBody, WaitInv, InWait
  <2>3. WaitInv'
    BY <1>3 DEF IInv, AwaitInv, TypeInv, TaskTypes, LeaseTypes, CommandTypes, CommandInv,
     InBody, WaitInv, InWait
  <2>4. CancelInv'
    BY <1>3 DEF IInv, AwaitInv, TypeInv, TaskTypes, LeaseTypes, CommandTypes, LeaseInv,
     CommandInv, InBody, WaitInv, InWait, CancelInv
  <2>5. QED
    BY <1>3, <2>1, <2>2, <2>3, <2>4 DEF AwaitInv
<1>4. QED
  BY <1>1, <1>2, <1>3 DEF IInv

\* An owner is cancelled.
LEMMA CancelOwnerKeeps ==
  ASSUME IInv, NEW p \in Owner, CancelOwner(p)
  PROVE  IInv' /\ (AwaitInv => AwaitInv')
<1> USE NobodyAssumption, DepthAssumption DEF CancelOwner, Cancel, RequestCancel,
       Command!Cancel, Command!RequestCancel, vars, taskVars, threadVars, ownerVars,
       leaseVars, commandVars, Command!taskVars, Command!processVars, Command!ownerVars
<1>1. TypeInv'
  <2>1. TaskTypes'
    <3>1. CASE InBody(p) /\ Command!Cancel(p)
      BY <3>1 DEF IInv, TypeInv, TaskTypes
    <3>2. CASE ~InBody(p) /\ Cancel(p)
      BY <3>2 DEF IInv, TypeInv, TaskTypes
    <3>3. QED
      BY <3>1, <3>2
  <2>2. LeaseTypes'
    BY DEF IInv, TypeInv, LeaseTypes, Pc, Thread, Ending
  <2>3. CommandTypes'
    BY DEF IInv, TypeInv, CommandTypes, Running, Command!Pc, Command!Process, Command!Capture
  <2>4. QED
    BY <2>1, <2>2, <2>3 DEF TypeInv
<1>2. LeaseInv'
  BY DEF IInv, TypeInv, TaskTypes, LeaseTypes, CommandTypes, LeaseInv, InBody
<1>3. ASSUME AwaitInv PROVE AwaitInv'
  <2>1. ThreadInv'
    BY <1>3 DEF IInv, AwaitInv, TypeInv, TaskTypes, LeaseTypes, CommandTypes, LeaseInv,
     ThreadInv, InBody, WaitInv, InWait
  <2>2. CommandInv'
    BY <1>3 DEF IInv, AwaitInv, TypeInv, TaskTypes, LeaseTypes, CommandTypes, CommandInv,
     InBody, WaitInv, InWait
  <2>3. WaitInv'
    <3>1. CASE InBody(p) /\ Command!Cancel(p)
      BY <1>3, <3>1 DEF IInv, AwaitInv, TypeInv, TaskTypes, LeaseTypes, CommandTypes, CommandInv,
         InBody, WaitInv, InWait
    <3>2. CASE ~InBody(p) /\ Cancel(p)
      <4>1. pc[p] \in {"acquire", "release"} \/ (pc[p] = "body" /\ p \notin Inspecting)
        BY <1>3, <3>2 DEF IInv, AwaitInv, TypeInv, LeaseTypes, Pc, InBody
      <4>2. QED
        BY <1>3, <3>2, <4>1 DEF IInv, AwaitInv, TypeInv, TaskTypes, InBody, WaitInv, InWait
    <3>3. QED
      BY <3>1, <3>2
  <2>4. CancelInv'
    BY <1>3 DEF IInv, AwaitInv, TypeInv, TaskTypes, LeaseTypes, CommandTypes, LeaseInv,
     CommandInv, InBody, WaitInv, InWait, CancelInv
  <2>5. QED
    BY <1>3, <2>1, <2>2, <2>3, <2>4 DEF AwaitInv
<1>4. QED
  BY <1>1, <1>2, <1>3 DEF IInv

\* The timeout fires.
LEMMA ExpireKeeps ==
  ASSUME IInv, NEW p \in Owner, Expire(p)
  PROVE  IInv' /\ (AwaitInv => AwaitInv')
<1> USE NobodyAssumption, DepthAssumption DEF Expire, Command!Cancel, Command!RequestCancel,
       vars, taskVars, threadVars, ownerVars, leaseVars, commandVars, Command!taskVars,
       Command!processVars, Command!ownerVars
<1>1. TypeInv'
  <2>1. TaskTypes'
    BY DEF IInv, TypeInv, TaskTypes, LeaseTypes
  <2>2. LeaseTypes'
    BY DEF IInv, TypeInv, LeaseTypes, Pc, Thread, Ending
  <2>3. CommandTypes'
    BY DEF IInv, TypeInv, CommandTypes, Running, Command!Pc, Command!Process, Command!Capture
  <2>4. QED
    BY <2>1, <2>2, <2>3 DEF TypeInv
<1>2. LeaseInv'
  BY DEF IInv, TypeInv, TaskTypes, LeaseTypes, CommandTypes, LeaseInv, InBody
<1>3. ASSUME AwaitInv PROVE AwaitInv'
  <2>1. ThreadInv'
    BY <1>3 DEF IInv, AwaitInv, TypeInv, TaskTypes, LeaseTypes, CommandTypes, LeaseInv,
     ThreadInv, InBody, WaitInv, InWait
  <2>2. CommandInv'
    BY <1>3 DEF IInv, AwaitInv, TypeInv, TaskTypes, LeaseTypes, CommandTypes, CommandInv,
     InBody, WaitInv, InWait
  <2>3. WaitInv'
    BY <1>3 DEF IInv, AwaitInv, TypeInv, TaskTypes, LeaseTypes, CommandTypes, CommandInv,
     InBody, WaitInv, InWait
  <2>4. CancelInv'
    BY <1>3 DEF IInv, AwaitInv, TypeInv, TaskTypes, LeaseTypes, CommandTypes, LeaseInv,
     CommandInv, InBody, WaitInv, InWait, CancelInv
  <2>5. QED
    BY <1>3, <2>1, <2>2, <2>3, <2>4 DEF AwaitInv
<1>4. QED
  BY <1>1, <1>2, <1>3 DEF IInv

\* The timeout takes its request back.
LEMMA EndInspectionKeeps ==
  ASSUME IInv, NEW p \in Owner, EndInspection(p)
  PROVE  IInv' /\ (AwaitInv => AwaitInv')
<1> USE NobodyAssumption, DepthAssumption DEF EndInspection, Goto, vars, taskVars,
       threadVars, ownerVars, leaseVars, commandVars, Command!taskVars, Command!processVars,
       Command!ownerVars
<1>1. TypeInv'
  <2>1. TaskTypes'
    BY DEF IInv, TypeInv, TaskTypes, LeaseTypes
  <2>2. LeaseTypes'
    BY DEF IInv, TypeInv, LeaseTypes, Pc, Thread, Ending
  <2>3. CommandTypes'
    BY DEF IInv, TypeInv, CommandTypes, Running, Command!Pc, Command!Process, Command!Capture
  <2>4. QED
    BY <2>1, <2>2, <2>3 DEF TypeInv
<1>2. LeaseInv'
  BY DEF IInv, TypeInv, TaskTypes, LeaseTypes, CommandTypes, LeaseInv, InBody
<1>3. ASSUME AwaitInv PROVE AwaitInv'
  <2>1. ThreadInv'
    BY <1>3 DEF IInv, AwaitInv, TypeInv, TaskTypes, LeaseTypes, CommandTypes, LeaseInv,
     ThreadInv, InBody, WaitInv, InWait
  <2>2. CommandInv'
    BY <1>3 DEF IInv, AwaitInv, TypeInv, TaskTypes, LeaseTypes, CommandTypes, CommandInv,
     InBody, WaitInv, InWait
  <2>3. WaitInv'
    BY <1>3 DEF IInv, AwaitInv, TypeInv, TaskTypes, LeaseTypes, CommandTypes, CommandInv,
     InBody, WaitInv, InWait
  <2>4. CancelInv'
    BY <1>3 DEF IInv, AwaitInv, TypeInv, TaskTypes, LeaseTypes, CommandTypes, LeaseInv,
     CommandInv, InBody, WaitInv, InWait, CancelInv
  <2>5. QED
    BY <1>3, <2>1, <2>2, <2>3, <2>4 DEF AwaitInv
<1>4. QED
  BY <1>1, <1>2, <1>3 DEF IInv

\* No process is started.
LEMMA CommandSpawnFailsKeeps ==
  ASSUME IInv, NEW p \in Owner, InBody(p) /\ Command!SpawnFails(p) /\ UNCHANGED <<leaseVars, expired>>
  PROVE  IInv' /\ (AwaitInv => AwaitInv')
<1> USE NobodyAssumption, DepthAssumption DEF Command!SpawnFails, Command!Goto, Command!End,
       vars, taskVars, threadVars, ownerVars, leaseVars, commandVars, Command!taskVars,
       Command!processVars, Command!ownerVars
<1>1. TypeInv'
  <2>1. TaskTypes'
    BY DEF IInv, TypeInv, TaskTypes, LeaseTypes
  <2>2. LeaseTypes'
    BY DEF IInv, TypeInv, LeaseTypes, Pc, Thread, Ending
  <2>3. CommandTypes'
    BY DEF IInv, TypeInv, CommandTypes, Running, Command!Pc, Command!Process, Command!Capture
  <2>4. QED
    BY <2>1, <2>2, <2>3 DEF TypeInv
<1>2. LeaseInv'
  BY DEF IInv, TypeInv, TaskTypes, LeaseTypes, CommandTypes, LeaseInv, InBody
<1>3. ASSUME AwaitInv PROVE AwaitInv'
  <2>1. ThreadInv'
    BY <1>3 DEF IInv, AwaitInv, TypeInv, TaskTypes, LeaseTypes, CommandTypes, LeaseInv,
     ThreadInv, InBody, WaitInv, InWait
  <2>2. CommandInv'
    BY <1>3 DEF IInv, AwaitInv, TypeInv, TaskTypes, LeaseTypes, CommandTypes, CommandInv,
     InBody, WaitInv, InWait
  <2>3. WaitInv'
    BY <1>3 DEF IInv, AwaitInv, TypeInv, TaskTypes, LeaseTypes, CommandTypes, CommandInv,
     InBody, WaitInv, InWait
  <2>4. CancelInv'
    BY <1>3 DEF IInv, AwaitInv, TypeInv, TaskTypes, LeaseTypes, CommandTypes, LeaseInv,
     CommandInv, InBody, WaitInv, InWait, CancelInv
  <2>5. QED
    BY <1>3, <2>1, <2>2, <2>3, <2>4 DEF AwaitInv
<1>4. QED
  BY <1>1, <1>2, <1>3 DEF IInv

\* A process is started.
LEMMA CommandSpawnKeeps ==
  ASSUME IInv, NEW p \in Owner, InBody(p) /\ Command!Spawn(p) /\ UNCHANGED <<leaseVars, expired>>
  PROVE  IInv' /\ (AwaitInv => AwaitInv')
<1> USE NobodyAssumption, DepthAssumption DEF Command!Spawn, Command!Goto, vars, taskVars,
       threadVars, ownerVars, leaseVars, commandVars, Command!taskVars, Command!processVars,
       Command!ownerVars
<1>1. TypeInv'
  <2>1. TaskTypes'
    BY DEF IInv, TypeInv, TaskTypes, LeaseTypes
  <2>2. LeaseTypes'
    BY DEF IInv, TypeInv, LeaseTypes, Pc, Thread, Ending
  <2>3. CommandTypes'
    BY DEF IInv, TypeInv, CommandTypes, Running, Command!Pc, Command!Process, Command!Capture
  <2>4. QED
    BY <2>1, <2>2, <2>3 DEF TypeInv
<1>2. LeaseInv'
  BY DEF IInv, TypeInv, TaskTypes, LeaseTypes, CommandTypes, LeaseInv, InBody
<1>3. ASSUME AwaitInv PROVE AwaitInv'
  <2>1. ThreadInv'
    BY <1>3 DEF IInv, AwaitInv, TypeInv, TaskTypes, LeaseTypes, CommandTypes, LeaseInv,
     ThreadInv, InBody, WaitInv, InWait
  <2>2. CommandInv'
    BY <1>3 DEF IInv, AwaitInv, TypeInv, TaskTypes, LeaseTypes, CommandTypes, CommandInv,
     InBody, WaitInv, InWait
  <2>3. WaitInv'
    BY <1>3 DEF IInv, AwaitInv, TypeInv, TaskTypes, LeaseTypes, CommandTypes, CommandInv,
     InBody, WaitInv, InWait
  <2>4. CancelInv'
    BY <1>3 DEF IInv, AwaitInv, TypeInv, TaskTypes, LeaseTypes, CommandTypes, LeaseInv,
     CommandInv, InBody, WaitInv, InWait, CancelInv
  <2>5. QED
    BY <1>3, <2>1, <2>2, <2>3, <2>4 DEF AwaitInv
<1>4. QED
  BY <1>1, <1>2, <1>3 DEF IInv

\* The output is there.
LEMMA CommandCapturedKeeps ==
  ASSUME IInv, NEW p \in Owner, InBody(p) /\ Command!Captured(p) /\ UNCHANGED <<leaseVars, expired>>
  PROVE  IInv' /\ (AwaitInv => AwaitInv')
<1> USE NobodyAssumption, DepthAssumption DEF Command!Captured, Command!Goto, Command!End,
       vars, taskVars, threadVars, ownerVars, leaseVars, commandVars, Command!taskVars,
       Command!processVars, Command!ownerVars
<1>1. TypeInv'
  <2>1. TaskTypes'
    BY DEF IInv, TypeInv, TaskTypes, LeaseTypes
  <2>2. LeaseTypes'
    BY DEF IInv, TypeInv, LeaseTypes, Pc, Thread, Ending
  <2>3. CommandTypes'
    BY DEF IInv, TypeInv, CommandTypes, Running, Command!Pc, Command!Process, Command!Capture
  <2>4. QED
    BY <2>1, <2>2, <2>3 DEF TypeInv
<1>2. LeaseInv'
  BY DEF IInv, TypeInv, TaskTypes, LeaseTypes, CommandTypes, LeaseInv, InBody
<1>3. ASSUME AwaitInv PROVE AwaitInv'
  <2>1. ThreadInv'
    BY <1>3 DEF IInv, AwaitInv, TypeInv, TaskTypes, LeaseTypes, CommandTypes, LeaseInv,
     ThreadInv, InBody, WaitInv, InWait
  <2>2. CommandInv'
    BY <1>3 DEF IInv, AwaitInv, TypeInv, TaskTypes, LeaseTypes, CommandTypes, CommandInv,
     InBody, WaitInv, InWait
  <2>3. WaitInv'
    BY <1>3 DEF IInv, AwaitInv, TypeInv, TaskTypes, LeaseTypes, CommandTypes, CommandInv,
     InBody, WaitInv, InWait
  <2>4. CancelInv'
    BY <1>3 DEF IInv, AwaitInv, TypeInv, TaskTypes, LeaseTypes, CommandTypes, LeaseInv,
     CommandInv, InBody, WaitInv, InWait, CancelInv
  <2>5. QED
    BY <1>3, <2>1, <2>2, <2>3, <2>4 DEF AwaitInv
<1>4. QED
  BY <1>1, <1>2, <1>3 DEF IInv

\* The capture fails, or its owner is cancelled.
LEMMA CommandCaptureRaisesKeeps ==
  ASSUME IInv, NEW p \in Owner, InBody(p) /\ Command!CaptureRaises(p) /\ UNCHANGED <<leaseVars, expired>>
  PROVE  IInv' /\ (AwaitInv => AwaitInv')
<1> USE NobodyAssumption, DepthAssumption DEF Command!CaptureRaises, Command!Goto,
       Command!Delivered, vars, taskVars, threadVars, ownerVars, leaseVars, commandVars,
       Command!taskVars, Command!processVars, Command!ownerVars
<1>1. TypeInv'
  <2>1. TaskTypes'
    BY DEF IInv, TypeInv, TaskTypes, LeaseTypes
  <2>2. LeaseTypes'
    BY DEF IInv, TypeInv, LeaseTypes, Pc, Thread, Ending
  <2>3. CommandTypes'
    BY DEF IInv, TypeInv, CommandTypes, Running, Command!Pc, Command!Process, Command!Capture
  <2>4. QED
    BY <2>1, <2>2, <2>3 DEF TypeInv
<1>2. LeaseInv'
  BY DEF IInv, TypeInv, TaskTypes, LeaseTypes, CommandTypes, LeaseInv, InBody
<1>3. ASSUME AwaitInv PROVE AwaitInv'
  <2>1. ThreadInv'
    BY <1>3 DEF IInv, AwaitInv, TypeInv, TaskTypes, LeaseTypes, CommandTypes, LeaseInv,
     ThreadInv, InBody, WaitInv, InWait
  <2>2. CommandInv'
    BY <1>3 DEF IInv, AwaitInv, TypeInv, TaskTypes, LeaseTypes, CommandTypes, CommandInv,
     InBody, WaitInv, InWait
  <2>3. WaitInv'
    BY <1>3 DEF IInv, AwaitInv, TypeInv, TaskTypes, LeaseTypes, CommandTypes, CommandInv,
     InBody, WaitInv, InWait
  <2>4. CancelInv'
    BY <1>3 DEF IInv, AwaitInv, TypeInv, TaskTypes, LeaseTypes, CommandTypes, LeaseInv,
     CommandInv, InBody, WaitInv, InWait, CancelInv
  <2>5. QED
    BY <1>3, <2>1, <2>2, <2>3, <2>4 DEF AwaitInv
<1>4. QED
  BY <1>1, <1>2, <1>3 DEF IInv

\* The process group is killed.
LEMMA CommandStopKeeps ==
  ASSUME IInv, NEW p \in Owner, InBody(p) /\ Command!Stop(p) /\ UNCHANGED <<leaseVars, expired>>
  PROVE  IInv' /\ (AwaitInv => AwaitInv')
<1> USE NobodyAssumption, DepthAssumption DEF Command!Stop, Command!Goto, Command!EnterWait,
       Command!Reaped, Command!CaptureOver, vars, taskVars, threadVars, ownerVars,
       leaseVars, commandVars, Command!taskVars, Command!processVars, Command!ownerVars
<1>1. TypeInv'
  <2>1. TaskTypes'
    BY DEF IInv, TypeInv, TaskTypes, LeaseTypes
  <2>2. LeaseTypes'
    BY DEF IInv, TypeInv, LeaseTypes, Pc, Thread, Ending
  <2>3. CommandTypes'
    BY DEF IInv, TypeInv, CommandTypes, Running, Command!Pc, Command!Process, Command!Capture
  <2>4. QED
    BY <2>1, <2>2, <2>3 DEF TypeInv
<1>2. LeaseInv'
  BY DEF IInv, TypeInv, TaskTypes, LeaseTypes, CommandTypes, LeaseInv, InBody
<1>3. ASSUME AwaitInv PROVE AwaitInv'
  <2>1. ThreadInv'
    BY <1>3 DEF IInv, AwaitInv, TypeInv, TaskTypes, LeaseTypes, CommandTypes, LeaseInv,
     ThreadInv, InBody, WaitInv, InWait
  <2>2. CommandInv'
    BY <1>3 DEF IInv, AwaitInv, TypeInv, TaskTypes, LeaseTypes, CommandTypes, CommandInv,
     InBody, WaitInv, InWait
  <2>3. WaitInv'
    BY <1>3 DEF IInv, AwaitInv, TypeInv, TaskTypes, LeaseTypes, CommandTypes, CommandInv,
     InBody, WaitInv, InWait
  <2>4. CancelInv'
    BY <1>3 DEF IInv, AwaitInv, TypeInv, TaskTypes, LeaseTypes, CommandTypes, LeaseInv,
     CommandInv, InBody, WaitInv, InWait, CancelInv
  <2>5. QED
    BY <1>3, <2>1, <2>2, <2>3, <2>4 DEF AwaitInv
<1>4. QED
  BY <1>1, <1>2, <1>3 DEF IInv

\* The cleanup goes on although it is cancelled.
LEMMA CommandKeepWaitingKeeps ==
  ASSUME IInv, NEW p \in Owner, InBody(p) /\ Command!KeepWaiting(p) /\ UNCHANGED <<leaseVars, expired>>
  PROVE  IInv' /\ (AwaitInv => AwaitInv')
<1> USE NobodyAssumption, DepthAssumption DEF Command!KeepWaiting, Command!Waiting,
       Command!Wake, Command!LeavesWait, Command!Unexplained, Command!Reaped,
       Command!CaptureOver, vars, taskVars, threadVars, ownerVars, leaseVars, commandVars,
       Command!taskVars, Command!processVars, Command!ownerVars
<1>1. TypeInv'
  <2>1. TaskTypes'
    <3>1. CASE Command!Wake(p, capture[p] # "running")
      BY <3>1 DEF IInv, TypeInv, TaskTypes
    <3>2. CASE Command!Wake(p, process[p] = "reaped")
      BY <3>2 DEF IInv, TypeInv, TaskTypes
    <3>3. QED
      BY <3>1, <3>2
  <2>2. LeaseTypes'
    BY DEF IInv, TypeInv, LeaseTypes, Pc, Thread, Ending
  <2>3. CommandTypes'
    BY DEF IInv, TypeInv, CommandTypes, Running, Command!Pc, Command!Process, Command!Capture
  <2>4. QED
    BY <2>1, <2>2, <2>3 DEF TypeInv
<1>2. LeaseInv'
  BY DEF IInv, TypeInv, TaskTypes, LeaseTypes, CommandTypes, LeaseInv, InBody
<1>3. ASSUME AwaitInv PROVE AwaitInv'
  <2>1. ThreadInv'
    BY <1>3 DEF IInv, AwaitInv, TypeInv, TaskTypes, LeaseTypes, CommandTypes, LeaseInv,
     ThreadInv, InBody, WaitInv, InWait
  <2>2. CommandInv'
    BY <1>3 DEF IInv, AwaitInv, TypeInv, TaskTypes, LeaseTypes, CommandTypes, CommandInv,
     InBody, WaitInv, InWait
  <2>3. WaitInv'
    BY <1>3 DEF IInv, AwaitInv, TypeInv, TaskTypes, LeaseTypes, CommandTypes, CommandInv,
     InBody, WaitInv, InWait
  <2>4. CancelInv'
    BY <1>3 DEF IInv, AwaitInv, TypeInv, TaskTypes, LeaseTypes, CommandTypes, LeaseInv,
     CommandInv, InBody, WaitInv, InWait, CancelInv
  <2>5. QED
    BY <1>3, <2>1, <2>2, <2>3, <2>4 DEF AwaitInv
<1>4. QED
  BY <1>1, <1>2, <1>3 DEF IInv

\* The capture is over.
LEMMA CommandCaptureStoppedKeeps ==
  ASSUME IInv, NEW p \in Owner, InBody(p) /\ Command!CaptureStopped(p) /\ UNCHANGED <<leaseVars, expired>>
  PROVE  IInv' /\ (AwaitInv => AwaitInv')
<1> USE NobodyAssumption, DepthAssumption DEF Command!CaptureStopped, Command!Wake,
       Command!LeavesWait, Command!Unexplained, Command!WasCancelled, Command!CaptureOver,
       Command!Goto, vars, taskVars, threadVars, ownerVars, leaseVars, commandVars,
       Command!taskVars, Command!processVars, Command!ownerVars
<1>1. TypeInv'
  <2>1. TaskTypes'
    BY DEF IInv, TypeInv, TaskTypes, LeaseTypes
  <2>2. LeaseTypes'
    BY DEF IInv, TypeInv, LeaseTypes, Pc, Thread, Ending
  <2>3. CommandTypes'
    BY DEF IInv, TypeInv, CommandTypes, Running, Command!Pc, Command!Process, Command!Capture
  <2>4. QED
    BY <2>1, <2>2, <2>3 DEF TypeInv
<1>2. LeaseInv'
  BY DEF IInv, TypeInv, TaskTypes, LeaseTypes, CommandTypes, LeaseInv, InBody
<1>3. ASSUME AwaitInv PROVE AwaitInv'
  <2>1. ThreadInv'
    BY <1>3 DEF IInv, AwaitInv, TypeInv, TaskTypes, LeaseTypes, CommandTypes, LeaseInv,
     ThreadInv, InBody, WaitInv, InWait
  <2>2. CommandInv'
    BY <1>3 DEF IInv, AwaitInv, TypeInv, TaskTypes, LeaseTypes, CommandTypes, CommandInv,
     InBody, WaitInv, InWait
  <2>3. WaitInv'
    BY <1>3 DEF IInv, AwaitInv, TypeInv, TaskTypes, LeaseTypes, CommandTypes, CommandInv,
     InBody, WaitInv, InWait
  <2>4. CancelInv'
    <3>1. running[p] = "end_capture" /\ InWait(p)
      BY DEF InWait
    <3>2. pending[p] \/ recorded[p] > 0 => gathered'[p]
      <4>1. pending[p] => ~Command!Unexplained(p)
        BY <1>3, <3>1 DEF IInv, AwaitInv, TypeInv, TaskTypes, WaitInv
      <4>2. gathered'[p] = (gathered[p] \/ Command!WasCancelled(p))
        BY DEF IInv, TypeInv, CommandTypes
      <4>3. QED
        BY <4>1, <4>2
    <3>3. gathered[p] => gathered'[p]
      BY DEF IInv, TypeInv, CommandTypes
    <3>4. /\ \A q \in Owner \ {p} : gathered'[q] = gathered[q] /\ pending'[q] = pending[q]
                                    /\ recorded'[q] = recorded[q] /\ running'[q] = running[q]
          /\ running'[p] = "reap_start"
          /\ UNCHANGED <<cancelling, cause, ran, leaseVars, expired>>
      BY DEF IInv, TypeInv, TaskTypes, CommandTypes
    <3>5. CancelInv
      BY <1>3 DEF AwaitInv
    <3>6. QED
      BY <3>1, <3>2, <3>3, <3>4, <3>5 DEF CancelInv, InBody
  <2>5. QED
    BY <1>3, <2>1, <2>2, <2>3, <2>4 DEF AwaitInv
<1>4. QED
  BY <1>1, <1>2, <1>3 DEF IInv

\* The wait for the process begins.
LEMMA CommandStartReapKeeps ==
  ASSUME IInv, NEW p \in Owner, InBody(p) /\ Command!StartReap(p) /\ UNCHANGED <<leaseVars, expired>>
  PROVE  IInv' /\ (AwaitInv => AwaitInv')
<1> USE NobodyAssumption, DepthAssumption DEF Command!StartReap, Command!EnterWait,
       Command!Goto, vars, taskVars, threadVars, ownerVars, leaseVars, commandVars,
       Command!taskVars, Command!processVars, Command!ownerVars
<1>1. TypeInv'
  <2>1. TaskTypes'
    BY DEF IInv, TypeInv, TaskTypes, LeaseTypes
  <2>2. LeaseTypes'
    BY DEF IInv, TypeInv, LeaseTypes, Pc, Thread, Ending
  <2>3. CommandTypes'
    BY DEF IInv, TypeInv, CommandTypes, Running, Command!Pc, Command!Process, Command!Capture
  <2>4. QED
    BY <2>1, <2>2, <2>3 DEF TypeInv
<1>2. LeaseInv'
  BY DEF IInv, TypeInv, TaskTypes, LeaseTypes, CommandTypes, LeaseInv, InBody
<1>3. ASSUME AwaitInv PROVE AwaitInv'
  <2>1. ThreadInv'
    BY <1>3 DEF IInv, AwaitInv, TypeInv, TaskTypes, LeaseTypes, CommandTypes, LeaseInv,
     ThreadInv, InBody, WaitInv, InWait
  <2>2. CommandInv'
    BY <1>3 DEF IInv, AwaitInv, TypeInv, TaskTypes, LeaseTypes, CommandTypes, CommandInv,
     InBody, WaitInv, InWait
  <2>3. WaitInv'
    BY <1>3 DEF IInv, AwaitInv, TypeInv, TaskTypes, LeaseTypes, CommandTypes, CommandInv,
     InBody, WaitInv, InWait
  <2>4. CancelInv'
    BY <1>3 DEF IInv, AwaitInv, TypeInv, TaskTypes, LeaseTypes, CommandTypes, LeaseInv,
     CommandInv, InBody, WaitInv, InWait, CancelInv
  <2>5. QED
    BY <1>3, <2>1, <2>2, <2>3, <2>4 DEF AwaitInv
<1>4. QED
  BY <1>1, <1>2, <1>3 DEF IInv

\* The process was reaped.
LEMMA CommandStoppedKeeps ==
  ASSUME IInv, NEW p \in Owner, InBody(p) /\ Command!Stopped(p) /\ UNCHANGED <<leaseVars, expired>>
  PROVE  IInv' /\ (AwaitInv => AwaitInv')
<1> USE NobodyAssumption, DepthAssumption DEF Command!Stopped, Command!Wake,
       Command!LeavesWait, Command!Unexplained, Command!WasCancelled, Command!Reaped,
       Command!Goto, Command!End, vars, taskVars, threadVars, ownerVars, leaseVars,
       commandVars, Command!taskVars, Command!processVars, Command!ownerVars
<1>1. TypeInv'
  <2>1. TaskTypes'
    BY DEF IInv, TypeInv, TaskTypes, LeaseTypes
  <2>2. LeaseTypes'
    BY DEF IInv, TypeInv, LeaseTypes, Pc, Thread, Ending
  <2>3. CommandTypes'
    BY DEF IInv, TypeInv, CommandTypes, Running, Command!Pc, Command!Process, Command!Capture
  <2>4. QED
    BY <2>1, <2>2, <2>3 DEF TypeInv
<1>2. LeaseInv'
  BY DEF IInv, TypeInv, TaskTypes, LeaseTypes, CommandTypes, LeaseInv, InBody
<1>3. ASSUME AwaitInv PROVE AwaitInv'
  <2>1. ThreadInv'
    BY <1>3 DEF IInv, AwaitInv, TypeInv, TaskTypes, LeaseTypes, CommandTypes, LeaseInv,
     ThreadInv, InBody, WaitInv, InWait
  <2>2. CommandInv'
    BY <1>3 DEF IInv, AwaitInv, TypeInv, TaskTypes, LeaseTypes, CommandTypes, CommandInv,
     InBody, WaitInv, InWait
  <2>3. WaitInv'
    BY <1>3 DEF IInv, AwaitInv, TypeInv, TaskTypes, LeaseTypes, CommandTypes, CommandInv,
     InBody, WaitInv, InWait
  <2>4. CancelInv'
    BY <1>3 DEF IInv, AwaitInv, TypeInv, TaskTypes, LeaseTypes, CommandTypes, LeaseInv,
     CommandInv, InBody, WaitInv, InWait, CancelInv
  <2>5. QED
    BY <1>3, <2>1, <2>2, <2>3, <2>4 DEF AwaitInv
<1>4. QED
  BY <1>1, <1>2, <1>3 DEF IInv

\* A process ends.
LEMMA ExitKeeps ==
  ASSUME IInv, NEW p \in Owner, Command!Exit(p) /\ UNCHANGED <<leaseVars, expired>>
  PROVE  IInv' /\ (AwaitInv => AwaitInv')
<1> USE NobodyAssumption, DepthAssumption DEF Command!Exit, vars, taskVars, threadVars,
       ownerVars, leaseVars, commandVars, Command!taskVars, Command!processVars,
       Command!ownerVars
<1>1. TypeInv'
  <2>1. TaskTypes'
    BY DEF IInv, TypeInv, TaskTypes, LeaseTypes
  <2>2. LeaseTypes'
    BY DEF IInv, TypeInv, LeaseTypes, Pc, Thread, Ending
  <2>3. CommandTypes'
    BY DEF IInv, TypeInv, CommandTypes, Running, Command!Pc, Command!Process, Command!Capture
  <2>4. QED
    BY <2>1, <2>2, <2>3 DEF TypeInv
<1>2. LeaseInv'
  BY DEF IInv, TypeInv, TaskTypes, LeaseTypes, CommandTypes, LeaseInv, InBody
<1>3. ASSUME AwaitInv PROVE AwaitInv'
  <2>1. ThreadInv'
    BY <1>3 DEF IInv, AwaitInv, TypeInv, TaskTypes, LeaseTypes, CommandTypes, LeaseInv,
     ThreadInv, InBody, WaitInv, InWait
  <2>2. CommandInv'
    BY <1>3 DEF IInv, AwaitInv, TypeInv, TaskTypes, LeaseTypes, CommandTypes, CommandInv,
     InBody, WaitInv, InWait
  <2>3. WaitInv'
    BY <1>3 DEF IInv, AwaitInv, TypeInv, TaskTypes, LeaseTypes, CommandTypes, CommandInv,
     InBody, WaitInv, InWait
  <2>4. CancelInv'
    BY <1>3 DEF IInv, AwaitInv, TypeInv, TaskTypes, LeaseTypes, CommandTypes, LeaseInv,
     CommandInv, InBody, WaitInv, InWait, CancelInv
  <2>5. QED
    BY <1>3, <2>1, <2>2, <2>3, <2>4 DEF AwaitInv
<1>4. QED
  BY <1>1, <1>2, <1>3 DEF IInv

\* A process is reaped.
LEMMA ReapKeeps ==
  ASSUME IInv, NEW p \in Owner, Command!Reap(p) /\ UNCHANGED <<leaseVars, expired>>
  PROVE  IInv' /\ (AwaitInv => AwaitInv')
<1> USE NobodyAssumption, DepthAssumption DEF Command!Reap, vars, taskVars, threadVars,
       ownerVars, leaseVars, commandVars, Command!taskVars, Command!processVars,
       Command!ownerVars
<1>1. TypeInv'
  <2>1. TaskTypes'
    BY DEF IInv, TypeInv, TaskTypes, LeaseTypes
  <2>2. LeaseTypes'
    BY DEF IInv, TypeInv, LeaseTypes, Pc, Thread, Ending
  <2>3. CommandTypes'
    BY DEF IInv, TypeInv, CommandTypes, Running, Command!Pc, Command!Process, Command!Capture
  <2>4. QED
    BY <2>1, <2>2, <2>3 DEF TypeInv
<1>2. LeaseInv'
  BY DEF IInv, TypeInv, TaskTypes, LeaseTypes, CommandTypes, LeaseInv, InBody
<1>3. ASSUME AwaitInv PROVE AwaitInv'
  <2>1. ThreadInv'
    BY <1>3 DEF IInv, AwaitInv, TypeInv, TaskTypes, LeaseTypes, CommandTypes, LeaseInv,
     ThreadInv, InBody, WaitInv, InWait
  <2>2. CommandInv'
    BY <1>3 DEF IInv, AwaitInv, TypeInv, TaskTypes, LeaseTypes, CommandTypes, CommandInv,
     InBody, WaitInv, InWait
  <2>3. WaitInv'
    BY <1>3 DEF IInv, AwaitInv, TypeInv, TaskTypes, LeaseTypes, CommandTypes, CommandInv,
     InBody, WaitInv, InWait
  <2>4. CancelInv'
    BY <1>3 DEF IInv, AwaitInv, TypeInv, TaskTypes, LeaseTypes, CommandTypes, LeaseInv,
     CommandInv, InBody, WaitInv, InWait, CancelInv
  <2>5. QED
    BY <1>3, <2>1, <2>2, <2>3, <2>4 DEF AwaitInv
<1>4. QED
  BY <1>1, <1>2, <1>3 DEF IInv

\* A capture ends.
LEMMA CaptureEndsKeeps ==
  ASSUME IInv, NEW p \in Owner, Command!CaptureEnds(p) /\ UNCHANGED <<leaseVars, expired>>
  PROVE  IInv' /\ (AwaitInv => AwaitInv')
<1> USE NobodyAssumption, DepthAssumption DEF Command!CaptureEnds, Command!Reaped, vars,
       taskVars, threadVars, ownerVars, leaseVars, commandVars, Command!taskVars,
       Command!processVars, Command!ownerVars
<1>1. TypeInv'
  <2>1. TaskTypes'
    BY DEF IInv, TypeInv, TaskTypes, LeaseTypes
  <2>2. LeaseTypes'
    BY DEF IInv, TypeInv, LeaseTypes, Pc, Thread, Ending
  <2>3. CommandTypes'
    BY DEF IInv, TypeInv, CommandTypes, Running, Command!Pc, Command!Process, Command!Capture
  <2>4. QED
    BY <2>1, <2>2, <2>3 DEF TypeInv
<1>2. LeaseInv'
  BY DEF IInv, TypeInv, TaskTypes, LeaseTypes, CommandTypes, LeaseInv, InBody
<1>3. ASSUME AwaitInv PROVE AwaitInv'
  <2>1. ThreadInv'
    BY <1>3 DEF IInv, AwaitInv, TypeInv, TaskTypes, LeaseTypes, CommandTypes, LeaseInv,
     ThreadInv, InBody, WaitInv, InWait
  <2>2. CommandInv'
    BY <1>3 DEF IInv, AwaitInv, TypeInv, TaskTypes, LeaseTypes, CommandTypes, CommandInv,
     InBody, WaitInv, InWait
  <2>3. WaitInv'
    BY <1>3 DEF IInv, AwaitInv, TypeInv, TaskTypes, LeaseTypes, CommandTypes, CommandInv,
     InBody, WaitInv, InWait
  <2>4. CancelInv'
    BY <1>3 DEF IInv, AwaitInv, TypeInv, TaskTypes, LeaseTypes, CommandTypes, LeaseInv,
     CommandInv, InBody, WaitInv, InWait, CancelInv
  <2>5. QED
    BY <1>3, <2>1, <2>2, <2>3, <2>4 DEF AwaitInv
<1>4. QED
  BY <1>1, <1>2, <1>3 DEF IInv

\* A capture is cancelled.
LEMMA CaptureCancelledKeeps ==
  ASSUME IInv, NEW p \in Owner, Command!CaptureCancelled(p) /\ UNCHANGED <<leaseVars, expired>>
  PROVE  IInv' /\ (AwaitInv => AwaitInv')
<1> USE NobodyAssumption, DepthAssumption DEF Command!CaptureCancelled, vars, taskVars,
       threadVars, ownerVars, leaseVars, commandVars, Command!taskVars, Command!processVars,
       Command!ownerVars
<1>1. TypeInv'
  <2>1. TaskTypes'
    BY DEF IInv, TypeInv, TaskTypes, LeaseTypes
  <2>2. LeaseTypes'
    BY DEF IInv, TypeInv, LeaseTypes, Pc, Thread, Ending
  <2>3. CommandTypes'
    BY DEF IInv, TypeInv, CommandTypes, Running, Command!Pc, Command!Process, Command!Capture
  <2>4. QED
    BY <2>1, <2>2, <2>3 DEF TypeInv
<1>2. LeaseInv'
  BY DEF IInv, TypeInv, TaskTypes, LeaseTypes, CommandTypes, LeaseInv, InBody
<1>3. ASSUME AwaitInv PROVE AwaitInv'
  <2>1. ThreadInv'
    BY <1>3 DEF IInv, AwaitInv, TypeInv, TaskTypes, LeaseTypes, CommandTypes, LeaseInv,
     ThreadInv, InBody, WaitInv, InWait
  <2>2. CommandInv'
    BY <1>3 DEF IInv, AwaitInv, TypeInv, TaskTypes, LeaseTypes, CommandTypes, CommandInv,
     InBody, WaitInv, InWait
  <2>3. WaitInv'
    BY <1>3 DEF IInv, AwaitInv, TypeInv, TaskTypes, LeaseTypes, CommandTypes, CommandInv,
     InBody, WaitInv, InWait
  <2>4. CancelInv'
    BY <1>3 DEF IInv, AwaitInv, TypeInv, TaskTypes, LeaseTypes, CommandTypes, LeaseInv,
     CommandInv, InBody, WaitInv, InWait, CancelInv
  <2>5. QED
    BY <1>3, <2>1, <2>2, <2>3, <2>4 DEF AwaitInv
<1>4. QED
  BY <1>1, <1>2, <1>3 DEF IInv

\* A capture fails.
LEMMA CaptureFailsKeeps ==
  ASSUME IInv, NEW p \in Owner, Command!CaptureFails(p) /\ UNCHANGED <<leaseVars, expired>>
  PROVE  IInv' /\ (AwaitInv => AwaitInv')
<1> USE NobodyAssumption, DepthAssumption DEF Command!CaptureFails, vars, taskVars,
       threadVars, ownerVars, leaseVars, commandVars, Command!taskVars, Command!processVars,
       Command!ownerVars
<1>1. TypeInv'
  <2>1. TaskTypes'
    BY DEF IInv, TypeInv, TaskTypes, LeaseTypes
  <2>2. LeaseTypes'
    BY DEF IInv, TypeInv, LeaseTypes, Pc, Thread, Ending
  <2>3. CommandTypes'
    BY DEF IInv, TypeInv, CommandTypes, Running, Command!Pc, Command!Process, Command!Capture
  <2>4. QED
    BY <2>1, <2>2, <2>3 DEF TypeInv
<1>2. LeaseInv'
  BY DEF IInv, TypeInv, TaskTypes, LeaseTypes, CommandTypes, LeaseInv, InBody
<1>3. ASSUME AwaitInv PROVE AwaitInv'
  <2>1. ThreadInv'
    BY <1>3 DEF IInv, AwaitInv, TypeInv, TaskTypes, LeaseTypes, CommandTypes, LeaseInv,
     ThreadInv, InBody, WaitInv, InWait
  <2>2. CommandInv'
    BY <1>3 DEF IInv, AwaitInv, TypeInv, TaskTypes, LeaseTypes, CommandTypes, CommandInv,
     InBody, WaitInv, InWait
  <2>3. WaitInv'
    BY <1>3 DEF IInv, AwaitInv, TypeInv, TaskTypes, LeaseTypes, CommandTypes, CommandInv,
     InBody, WaitInv, InWait
  <2>4. CancelInv'
    BY <1>3 DEF IInv, AwaitInv, TypeInv, TaskTypes, LeaseTypes, CommandTypes, LeaseInv,
     CommandInv, InBody, WaitInv, InWait, CancelInv
  <2>5. QED
    BY <1>3, <2>1, <2>2, <2>3, <2>4 DEF AwaitInv
<1>4. QED
  BY <1>1, <1>2, <1>3 DEF IInv

\* A step that changes nothing.
LEMMA StutterKeeps ==
  ASSUME IInv, UNCHANGED inspectionVars
  PROVE  IInv' /\ (AwaitInv => AwaitInv')
<1> USE DEF inspectionVars, vars, taskVars, threadVars, ownerVars, commandVars
<1>1. IInv'
  BY DEF IInv, TypeInv, TaskTypes, LeaseTypes, CommandTypes, LeaseInv
<1>2. ASSUME AwaitInv PROVE AwaitInv'
  BY <1>2 DEF AwaitInv, ThreadInv, CommandInv, WaitInv, CancelInv, InWait, InBody
<1>3. QED
  BY <1>1, <1>2

\* Nobody has opened, locked or started anything.
LEMMA InitHolds == InspectionInit => IInv /\ (SignalCancels = FALSE => AwaitInv)
<1> SUFFICES ASSUME InspectionInit PROVE IInv /\ (SignalCancels = FALSE => AwaitInv)
  OBVIOUS
<1> USE NobodyAssumption DEF InspectionInit, Init, TaskInit, Command!Init, Command!TaskInit
<1>1. TypeInv
  BY DEF TypeInv, TaskTypes, LeaseTypes, CommandTypes, Pc, Thread, Ending, Running, Command!Pc,
     Command!Process, Command!Capture
<1>2. LeaseInv
  BY DEF LeaseInv
<1>3. ThreadInv /\ CommandInv
  BY DEF ThreadInv, CommandInv, InBody
<1>4. WaitInv /\ CancelInv
  BY DEF WaitInv, CancelInv, InWait, InBody
<1>5. QED
  BY <1>1, <1>2, <1>3, <1>4 DEF IInv, AwaitInv

\* Every step of a thread, an owner, a process, a timer or a cancellation keeps both.
LEMMA Inductive == IInv /\ [InspectionNext]_inspectionVars => IInv' /\ (AwaitInv => AwaitInv')
<1> SUFFICES ASSUME IInv, [InspectionNext]_inspectionVars
             PROVE  IInv' /\ (AwaitInv => AwaitInv')
  OBVIOUS
<1> DEFINE Kept == IInv' /\ (AwaitInv => AwaitInv')
<1>1. ASSUME NEW p \in Owner, LeaseThreadStep(p) PROVE Kept
  BY <1>1, OpenNextKeeps, OpenFailsKeeps, CloseAbandonedKeeps, CloseDirectoriesKeeps, FlockKeeps,
     FlockFailsKeeps, ReleaseDescriptorKeeps DEF LeaseThreadStep, ThreadStep
<1>2. ASSUME NEW p \in Owner, LeaseOwnerStep(p) PROVE Kept
  BY <1>2, AcquireKeeps, KeepWaitingKeeps, AcquiredKeeps, BodyKeeps, LeaveKeeps, ReleasedKeeps
     DEF LeaseOwnerStep, OwnerStep
<1>3. ASSUME NEW p \in Owner, CommandStep(p) PROVE Kept
  BY <1>3, CommandSpawnFailsKeeps, CommandSpawnKeeps, CommandCapturedKeeps,
     CommandCaptureRaisesKeeps, CommandStopKeeps, CommandKeepWaitingKeeps,
     CommandCaptureStoppedKeeps, CommandStartReapKeeps, CommandStoppedKeeps
     DEF CommandStep, Command!OwnerStep
<1>4. ASSUME NEW p \in Owner, ProcessStep(p) PROVE Kept
  BY <1>4, ExitKeeps, ReapKeeps, CaptureEndsKeeps, CaptureCancelledKeeps, CaptureFailsKeeps
     DEF ProcessStep, Command!ProcessStep
<1>5. ASSUME NEW p \in Owner, Expire(p) \/ EndInspection(p) \/ LeaseAgain(p) \/ CancelOwner(p)
      PROVE  Kept
  BY <1>5, ExpireKeeps, EndInspectionKeeps, LeaseAgainKeeps, CancelOwnerKeeps
<1>6. CASE UNCHANGED inspectionVars
  BY <1>6, StutterKeeps
<1>7. QED
  BY <1>1, <1>2, <1>3, <1>4, <1>5, <1>6 DEF InspectionNext

\* What holds of owners that a signal may hit anywhere.
LEMMA Invariance == InspectionSpec => []IInv
<1>1. QED
  BY InitHolds, Inductive, PTL DEF InspectionSpec

\* What holds of owners that are cancelled at awaits only.
LEMMA AwaitInvariance == InspectionSpec /\ SignalCancels = FALSE => [](IInv /\ AwaitInv)
<1>1. InspectionInit /\ SignalCancels = FALSE => IInv /\ AwaitInv
  BY InitHolds
<1>2. IInv /\ AwaitInv /\ [InspectionNext]_inspectionVars => (IInv /\ AwaitInv)'
  BY Inductive
<1>3. QED
  BY <1>1, <1>2, PTL DEF InspectionSpec
-----------------------------------------------------------------------------
(* What a lease and the processes under it promise.                        *)

\* The body of _exclusive_lease runs under the flock, whatever is cancelled when: two
\* owners, and so two commands of a run or two writers, are never in theirs together.
THEOREM BodiesExclude == InspectionSpec => []BodyHoldsLease
<1>1. IInv => BodyHoldsLease
  BY DEF IInv, LeaseInv, BodyHoldsLease
<1>2. QED
  BY <1>1, Invariance, PTL

\* An owner that is through keeps the lease only if it raised or noted that it does.
THEOREM LeasesComeBack == InspectionSpec /\ SignalCancels = FALSE => []NoLeaseLeftBehind
<1>1. IInv /\ AwaitInv => NoLeaseLeftBehind
  BY DEF IInv, AwaitInv, LeaseInv, ThreadInv, NoLeaseLeftBehind
<1>2. QED
  BY <1>1, AwaitInvariance, PTL

\* Whatever fails, every descriptor of a chain of any length is closed once.
THEOREM DescriptorsComeBack == InspectionSpec /\ SignalCancels = FALSE => []DescriptorsClosed
<1>1. IInv /\ AwaitInv => DescriptorsClosed
  BY DEF AwaitInv, ThreadInv, DescriptorsClosed
<1>2. QED
  BY <1>1, AwaitInvariance, PTL

\* A cancellation during acquisition, body or release is never swallowed by a return.
THEOREM CancellationsAreRaised == InspectionSpec /\ SignalCancels = FALSE => []CancelledNeverReturns
<1>1. IInv /\ AwaitInv => CancelledNeverReturns
  BY DEF IInv, TypeInv, TaskTypes, AwaitInv, CancelInv, CancelledNeverReturns
<1>2. QED
  BY <1>1, AwaitInvariance, PTL

\* run_read_only and hash_descriptors leave no process, zombie or capture behind.
THEOREM CommandsAreReaped == InspectionSpec /\ SignalCancels = FALSE => []NothingLeftRunning
<1>1. IInv /\ AwaitInv => NothingLeftRunning
  BY DEF AwaitInv, CommandInv, NothingLeftRunning, Command!NothingLeftRunning, Command!CaptureOver
<1>2. QED
  BY <1>1, AwaitInvariance, PTL

\* Who takes a run lease finds no Git and no hash helper of its predecessor.
THEOREM LeasesCoverProcesses == InspectionSpec /\ SignalCancels = FALSE => []ProcessesHaveLease
<1>1. ASSUME IInv, AwaitInv, NEW p \in Inspecting,
             process[p] \in {"running", "zombie"} \/ capture[p] = "running"
      PROVE  lock = p
  <2>1. running[p] \notin {"spawn", "ended"}
    BY <1>1, InspectingAssumption DEF AwaitInv, CommandInv
  <2>2. pc[p] = "body"
    BY <1>1, <2>1, InspectingAssumption DEF AwaitInv, CommandInv, InBody
  <2>3. QED
    BY <1>1, <2>2, InspectingAssumption DEF IInv, LeaseInv
<1>2. IInv /\ AwaitInv => ProcessesHaveLease
  BY <1>1 DEF ProcessesHaveLease
<1>3. QED
  BY <1>2, AwaitInvariance, PTL

\* A cancellation that is not the timeout's own is what an inspection ends with.
THEOREM CancellationsWin == InspectionSpec /\ SignalCancels = FALSE => []CancellationWins
<1>1. IInv /\ AwaitInv => CancellationWins
  BY InspectingAssumption DEF AwaitInv, CancelInv, CancellationWins, InBody
<1>2. QED
  BY <1>1, AwaitInvariance, PTL
=============================================================================
