------------------------------ MODULE OwnedTask ------------------------------
(***************************************************************************)
(* wait_for_owned_task: an asyncio task, the owner, waits for an operation *)
(* it must not abandon, through every cancellation of itself.  asyncio     *)
(* delivers a cancellation as a CancelledError at the owner's next await;  *)
(* requests made before that delivery are delivered as one.  The helper    *)
(* tells its own cancellation from the operation's by Task.cancelling().   *)
(***************************************************************************)
EXTENDS Naturals

CONSTANTS
  Owner,       \* the tasks that wait
  MaxCancels   \* bound on the cancellations of one owner

ASSUME MaxCancelsAssumption == MaxCancels \in Nat

VARIABLES
  cancelling,  \* Task.cancelling(): how often the owner was asked to cancel
  pending,     \* is a CancelledError still to be delivered?
  observed,    \* observed_cancelling of the current wait
  recorded     \* number of CancelledErrors the current wait collected

taskVars == <<cancelling, pending, observed, recorded>>

TaskTypeOK ==
  /\ cancelling \in [Owner -> 0 .. MaxCancels]
  /\ pending \in [Owner -> BOOLEAN]
  /\ observed \in [Owner -> 0 .. MaxCancels]
  /\ recorded \in [Owner -> 0 .. MaxCancels]

TaskInit ==
  /\ cancelling = [p \in Owner |-> 0]
  /\ pending = [p \in Owner |-> FALSE]
  /\ observed = [p \in Owner |-> 0]
  /\ recorded = [p \in Owner |-> 0]

\* Task.cancel, by a parent task or by asyncio's SIGINT handler.
RequestCancel(p) ==
  /\ cancelling[p] < MaxCancels
  /\ cancelling' = [cancelling EXCEPT ![p] = @ + 1]
  /\ pending' = [pending EXCEPT ![p] = TRUE]
  /\ UNCHANGED <<observed, recorded>>

\* The delivery of a CancelledError at an await outside the helper.
Delivered(p) ==
  /\ pending[p]
  /\ pending' = [pending EXCEPT ![p] = FALSE]
  /\ UNCHANGED <<cancelling, observed, recorded>>

EnterWait(p) ==
  /\ observed' = [observed EXCEPT ![p] = cancelling[p]]
  /\ recorded' = [recorded EXCEPT ![p] = 0]
  /\ UNCHANGED <<cancelling, pending>>

\* A CancelledError that Task.cancelling() does not explain ends the wait.
Unexplained(p) == pending[p] /\ cancelling[p] = observed[p]

(***************************************************************************)
(* The await of the shielded operation returns: with a CancelledError when *)
(* one is to be delivered, otherwise because the operation is done.        *)
(***************************************************************************)
Wake(p, done) ==
  /\ pending[p] \/ done
  /\ pending' = [pending EXCEPT ![p] = FALSE]
  /\ IF pending[p] /\ ~Unexplained(p)
       THEN /\ recorded' = [recorded EXCEPT ![p] = @ + 1]
            /\ observed' = [observed EXCEPT ![p] = cancelling[p]]
       ELSE UNCHANGED <<observed, recorded>>
  /\ UNCHANGED cancelling

\* Did the loop end with this wake-up?
LeavesWait(p, done) == done \/ Unexplained(p)

\* The wait was cancelled, this wake-up included.
WasCancelled(p) == recorded[p] > 0 \/ (pending[p] /\ ~Unexplained(p))
=============================================================================
