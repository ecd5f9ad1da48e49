---------------------------- MODULE ExclusiveLease ----------------------------
(***************************************************************************)
(* _exclusive_lease: one flock(2) lease as processes compete for it.  Each *)
(* owner opens a chain of descriptors in a thread, of which the last is    *)
(* locked (root, .locks, runs and the lockfile of a run; or the project    *)
(* directory alone), runs a body under the lease, and gives it back in     *)
(* another thread.  The owner may be cancelled meanwhile, and every system *)
(* call of the threads may fail.                                           *)
(***************************************************************************)
EXTENDS OwnedTask

CONSTANTS
  Depth,          \* descriptors opened; descriptor Depth is the locked one
  None,           \* nobody
  SignalCancels   \* may a cancellation hit the owner between two awaits?

ASSUME DepthAssumption == Depth \in Nat \ {0}
ASSUME NobodyAssumption == None \notin Owner

VARIABLES
  lock,     \* whose open description holds the flock
  pc,       \* where each owner is
  thread,   \* where the thread is that the owner waits for
  fds,      \* descriptors a thread has open
  stuck,    \* descriptors whose close failed
  primary,  \* how the body ended
  outcome,  \* how the async context manager ended
  noted     \* was a failed cleanup raised or noted on the error raised?

threadVars == <<lock, thread, fds, stuck>>
ownerVars  == <<pc, primary, outcome, noted>>
vars == <<taskVars, threadVars, ownerVars>>

Pc == {"start", "acquire", "body", "leave", "release", "ended"}
Thread == {"idle", "opening", "abandoning", "opened", "flock", "locked", "failed", "busy",
           "releasing", "released", "unreleased"}
Ending == {"none", "returned", "error", "busy", "cancelled"}

\* The operation's thread is over.
Finished(p) == thread[p] \in {"idle", "locked", "failed", "busy", "released", "unreleased"}

TypeOK ==
  /\ TaskTypeOK
  /\ lock \in Owner \cup {None}
  /\ pc \in [Owner -> Pc]
  /\ thread \in [Owner -> Thread]
  /\ fds \in [Owner -> SUBSET (1 .. Depth)]
  /\ stuck \in [Owner -> SUBSET (1 .. Depth)]
  /\ primary \in [Owner -> Ending]
  /\ outcome \in [Owner -> Ending]
  /\ noted \in [Owner -> BOOLEAN]

Init ==
  /\ TaskInit
  /\ lock = None
  /\ pc = [p \in Owner |-> "start"]
  /\ thread = [p \in Owner |-> "idle"]
  /\ fds = [p \in Owner |-> {}]
  /\ stuck = [p \in Owner |-> {}]
  /\ primary = [p \in Owner |-> "none"]
  /\ outcome = [p \in Owner |-> "none"]
  /\ noted = [p \in Owner |-> FALSE]

Goto(p, to) == pc' = [pc EXCEPT ![p] = to]
Becomes(p, to) == thread' = [thread EXCEPT ![p] = to]

-----------------------------------------------------------------------------
(* The threads.                                                            *)

\* Closing descriptors: each close may fail, and then it is not tried again.
Close(p, some, bad) ==
  /\ fds' = [fds EXCEPT ![p] = @ \ some]
  /\ stuck' = [stuck EXCEPT ![p] = @ \cup bad]

\* os.mkdir, os.open and fchmod of the next element, root first.
OpenNext(p) ==
  \E d \in 1 .. Depth :
    /\ thread[p] = "opening"
    /\ fds[p] = 1 .. (d - 1)
    /\ fds' = [fds EXCEPT ![p] = @ \cup {d}]
    /\ Becomes(p, IF d = Depth THEN "opened" ELSE "opening")
    /\ UNCHANGED <<taskVars, lock, stuck, ownerVars>>

\* Opening or checking an element fails; what is open is closed after that.
OpenFails(p) ==
  /\ thread[p] = "opening"
  /\ Becomes(p, "abandoning")
  /\ UNCHANGED <<taskVars, lock, fds, stuck, ownerVars>>

CloseAbandoned(p) ==
  /\ thread[p] = "abandoning"
  /\ \E bad \in SUBSET fds[p] : Close(p, fds[p], bad)
  /\ Becomes(p, "failed")
  /\ UNCHANGED <<taskVars, lock, ownerVars>>

\* The finally of _open_run_lock: a directory that does not close costs the lock.
CloseDirectories(p) ==
  /\ thread[p] = "opened"
  /\ \E bad \in SUBSET fds[p] :
       \/ /\ bad = {}
          /\ Close(p, fds[p] \ {Depth}, {})
          /\ Becomes(p, "flock")
       \/ /\ bad \ {Depth} # {}
          /\ Close(p, fds[p], bad)
          /\ Becomes(p, "failed")
  /\ UNCHANGED <<taskVars, lock, ownerVars>>

\* flock(LOCK_EX | LOCK_NB) in _acquire_descriptor.
Flock(p) ==
  /\ thread[p] = "flock"
  /\ lock = None
  /\ lock' = p
  /\ Becomes(p, "locked")
  /\ UNCHANGED <<taskVars, fds, stuck, ownerVars>>

\* The lock is taken by another owner, or flock fails otherwise.
FlockFails(p) ==
  /\ thread[p] = "flock"
  /\ \E bad \in SUBSET {Depth} : Close(p, {Depth}, bad)
  /\ \/ lock # None /\ Becomes(p, "busy")
     \/ Becomes(p, "failed")
  /\ UNCHANGED <<taskVars, lock, ownerVars>>

\* Mutant of ReleaseDescriptor: a failed unlock skips the close.
ReleaseDescriptorUnlockOnly(p) ==
  /\ thread[p] = "releasing"
  /\ \E unlocked, closed \in BOOLEAN :
       /\ lock' = IF unlocked THEN None ELSE lock
       /\ IF unlocked THEN Close(p, {Depth}, IF closed THEN {} ELSE {Depth})
                      ELSE UNCHANGED <<fds, stuck>>
       /\ Becomes(p, IF unlocked /\ closed THEN "released" ELSE "unreleased")
  /\ UNCHANGED <<taskVars, ownerVars>>

\* _release_descriptor: the close is tried even when LOCK_UN failed.
ReleaseDescriptor(p) ==
  /\ thread[p] = "releasing"
  /\ \E unlocked, closed \in BOOLEAN :
       /\ lock' = IF unlocked \/ closed THEN None ELSE lock
       /\ Close(p, {Depth}, IF closed THEN {} ELSE {Depth})
       /\ Becomes(p, IF unlocked /\ closed THEN "released" ELSE "unreleased")
  /\ UNCHANGED <<taskVars, ownerVars>>

-----------------------------------------------------------------------------
(* The owner.                                                              *)

End(p, how) ==
  /\ outcome' = [outcome EXCEPT ![p] = how]
  /\ Goto(p, "ended")

\* _acquire_cancellation_safe starts its thread and waits for it.
Acquire(p) ==
  /\ pc[p] = "start"
  /\ EnterWait(p)
  /\ Becomes(p, "opening")
  /\ Goto(p, "acquire")
  /\ UNCHANGED <<lock, fds, stuck, primary, outcome, noted>>

\* A wake-up that leaves the owner in the loop of wait_for_owned_task.
KeepWaiting(p) ==
  /\ pc[p] \in {"acquire", "release"}
  /\ Wake(p, Finished(p))
  /\ ~LeavesWait(p, Finished(p))
  /\ UNCHANGED <<threadVars, ownerVars>>

\* Mutant of Acquired: the body runs although the wait was cancelled.
AcquiredRegardless(p) ==
  /\ pc[p] = "acquire"
  /\ Wake(p, Finished(p))
  /\ LeavesWait(p, Finished(p))
  /\ CASE thread[p] = "locked" -> Goto(p, "body") /\ UNCHANGED outcome
       [] thread[p] = "busy" -> End(p, "busy")
       [] OTHER -> End(p, "error")
  /\ UNCHANGED <<threadVars, primary, noted>>

\* Mutant of Acquired: a cancelled owner drops the descriptor it got.
AcquiredAbandons(p) ==
  /\ pc[p] = "acquire"
  /\ Wake(p, Finished(p))
  /\ LeavesWait(p, Finished(p))
  /\ CASE WasCancelled(p) -> End(p, "cancelled")
       [] ~WasCancelled(p) /\ thread[p] = "locked" -> Goto(p, "body") /\ UNCHANGED outcome
       [] OTHER -> End(p, "error")
  /\ UNCHANGED <<threadVars, primary, noted>>

(***************************************************************************)
(* The wait for the acquisition is over: a cancelled owner gives back what *)
(* it got and raises its CancelledError, other errors are raised as such.  *)
(* A thread that is not finished makes acquisition.result() an error.      *)
(***************************************************************************)
Acquired(p) ==
  /\ pc[p] = "acquire"
  /\ Wake(p, Finished(p))
  /\ LeavesWait(p, Finished(p))
  /\ CASE thread[p] = "locked" ->
            Goto(p, IF WasCancelled(p) THEN "leave" ELSE "body") /\ UNCHANGED outcome
       [] thread[p] = "busy" /\ ~WasCancelled(p) -> End(p, "busy")
       [] thread[p] # "locked" /\ WasCancelled(p) -> End(p, "cancelled")
       [] OTHER -> End(p, "error")
  /\ primary' = [primary EXCEPT ![p] = IF WasCancelled(p) THEN "cancelled" ELSE @]
  /\ UNCHANGED <<threadVars, noted>>

\* The body under the lease returns, raises, or is cancelled at an await.
Body(p) ==
  /\ pc[p] = "body"
  /\ \/ \E how \in {"returned", "error"} :
          /\ pending[p] => SignalCancels
          /\ primary' = [primary EXCEPT ![p] = how]
          /\ UNCHANGED taskVars
     \/ /\ Delivered(p)
        /\ primary' = [primary EXCEPT ![p] = "cancelled"]
  /\ Goto(p, "leave")
  /\ UNCHANGED <<threadVars, outcome, noted>>

\* _release_cancellation_safe starts its thread and waits for it.
Leave(p) ==
  /\ pc[p] = "leave"
  /\ EnterWait(p)
  /\ Becomes(p, "releasing")
  /\ Goto(p, "release")
  /\ UNCHANGED <<lock, fds, stuck, primary, outcome, noted>>

\* The body's error is raised first; a failed release is noted on it.
Released(p) ==
  LET failure == CASE WasCancelled(p) -> "cancelled"
                   [] ~WasCancelled(p) /\ thread[p] # "released" -> "error"
                   [] OTHER -> "none"
  IN
  /\ pc[p] = "release"
  /\ Wake(p, Finished(p))
  /\ LeavesWait(p, Finished(p))
  /\ End(p, IF primary[p] = "returned" /\ failure # "none" THEN failure ELSE primary[p])
  /\ noted' = [noted EXCEPT ![p] = thread[p] # "released"]
  /\ UNCHANGED <<threadVars, primary>>

\* run_ready takes the project lease again for its next writer.
Again(p) ==
  /\ pc[p] = "ended"
  /\ outcome[p] = "returned"
  /\ ~pending[p]
  /\ Becomes(p, "idle")
  /\ primary' = [primary EXCEPT ![p] = "none"]
  /\ outcome' = [outcome EXCEPT ![p] = "none"]
  /\ Goto(p, "start")
  /\ UNCHANGED <<taskVars, lock, fds, stuck, noted>>

\* A parent task or a signal; a signal may hit the owner while it runs.
Cancel(p) ==
  /\ pc[p] # "ended"
  /\ pc[p] \in {"start", "leave"} => SignalCancels
  /\ RequestCancel(p)
  /\ UNCHANGED <<threadVars, ownerVars>>

-----------------------------------------------------------------------------
ThreadStep(p) ==
  \/ OpenNext(p) \/ OpenFails(p) \/ CloseAbandoned(p) \/ CloseDirectories(p)
  \/ Flock(p) \/ FlockFails(p) \/ ReleaseDescriptor(p)

OwnerStep(p) ==
  \/ Acquire(p) \/ KeepWaiting(p) \/ Acquired(p) \/ Body(p) \/ Leave(p) \/ Released(p)

Next == \E p \in Owner : ThreadStep(p) \/ OwnerStep(p) \/ Again(p) \/ Cancel(p)

Spec == Init /\ [][Next]_vars

-----------------------------------------------------------------------------
(* Properties.                                                             *)

\* The body runs under the lease, so no two owners are in their bodies.
BodyHoldsLease == \A p \in Owner : pc[p] = "body" => lock = p

\* An owner that is through keeps the lease only if it says that cleanup failed.
NoLeaseLeftBehind ==
  \A p \in Owner : pc[p] = "ended" /\ Finished(p) /\ lock = p => noted[p]

\* Whatever failed or was cancelled on the way, every descriptor is closed once.
DescriptorsClosed ==
  \A p \in Owner : pc[p] = "ended" /\ Finished(p) => fds[p] = {}

\* A cancellation during acquire, body or release is never swallowed by a return.
CancelledNeverReturns ==
  \A p \in Owner : outcome[p] = "returned" => cancelling[p] = 0

\* async_tools.py:13: "Wait ... until an owned task is terminal."
WaitsUntilTerminal == \A p \in Owner : pc[p] = "ended" => Finished(p)
=============================================================================
