------------------------------ MODULE CodexCalls ------------------------------
(***************************************************************************)
(* The calls one command makes of the Codex client: the model inventory    *)
(* and then a planner's turn, a writer's turn or a batch of readers' turns *)
(* in a task group.  Each call stages the Codex home when nobody has, opens*)
(* a session, works in it, closes it and closes its output streams, all    *)
(* under one timeout; threads outlive the awaits of a cancelled call.      *)
(*                                                                         *)
(* A cancellation is a request first (of the timeout, of the task group or *)
(* of a signal) and is raised when the task is next scheduled; requests    *)
(* made before that are raised as one.                                     *)
(***************************************************************************)
EXTENDS Integers

CONSTANTS
  Item,       \* work items a batch may consist of
  Inventory,  \* the call available_models
  None

ASSUME CallAssumption == Inventory \notin Item
ASSUME NoneAssumption == None \notin {"succeeded", "failed", "cancelled"}

Call == Item \cup {Inventory}

VARIABLES
  phase,      \* where the command is
  use,        \* what it calls after the inventory
  members,    \* the items it calls for
  signalled,  \* was the command cancelled, and
  pending,    \* has its task still to raise that?
  aborting,   \* has the task group cancelled its tasks?
  at,         \* [Call -> the await a call is at]
  lock,       \* owner of _staging_lock
  staged,     \* _staged
  copy,       \* [Call -> state of the thread that stages for it]
  session,    \* [Call -> state of its Codex process]
  requests,   \* [Call -> who requested its cancellation]
  due,        \* [Call -> is a cancellation still to be raised?]
  raised,     \* [Call -> what is in flight when its session's body is left]
  outcome,    \* [Call -> what the call ended with]
  results     \* results of _run_read_batch or _run_one

command == <<phase, use, members, signalled, pending, aborting>>
home    == <<lock, staged, copy>>
call    == <<at, session, requests, due, raised, outcome, results>>
vars == <<command, home, call>>

Over == {"done", "failed", "cancelled"}
Active(c) == at[c] \notin {"idle", "ended"}

Init ==
  /\ phase = "start"
  /\ use \in {"planner", "writer", "batch"}
  /\ members \in SUBSET Item \ {{}}
  /\ use # "batch" => \E i \in Item : members = {i}
  /\ signalled = FALSE
  /\ pending = FALSE
  /\ aborting = FALSE
  /\ at = [c \in Call |-> "idle"]
  /\ lock = None
  /\ staged \in BOOLEAN     \* no staging is configured, or it is
  /\ copy = [c \in Call |-> "none"]
  /\ session = [c \in Call |-> "none"]
  /\ requests = [c \in Call |-> {}]
  /\ due = [c \in Call |-> FALSE]
  /\ raised = [c \in Call |-> "nothing"]
  /\ outcome = [c \in Call |-> None]
  /\ results = [i \in {} |-> None]

-----------------------------------------------------------------------------
(* How a call ends.                                                        *)

(***************************************************************************)
(* asyncio.timeout turns the cancellation into TimeoutError if nobody else *)
(* asked for one.  Any other exception, and so one that has taken the      *)
(* place of a cancellation, becomes an SdkError.                           *)
(***************************************************************************)
Outcome(c, exception) ==
  CASE exception = "nothing" -> "succeeded"
    [] exception \in {"error", "broken"} -> "failed"
    [] exception = "cancelled" -> IF requests[c] = {"timeout"} THEN "failed" ELSE "cancelled"

\* Mutant of Recorded: execute does not catch CancelledError.
RecordedUnlessCancelled(c, ending) ==
  IF c \in Item /\ ending \in {"succeeded", "failed"}
    THEN [i \in DOMAIN results \cup {c} |-> IF i = c THEN ending ELSE results[i]] ELSE results

\* What execute and _run_one note of an item; a cancelled writer has no result.
Recorded(c, ending) ==
  IF c \in Item /\ (use = "batch" \/ ending \in {"succeeded", "failed"})
    THEN [i \in DOMAIN results \cup {c} |-> IF i = c THEN ending ELSE results[i]] ELSE results

\* The call leaves its timeout and its except clauses with this exception, or without.
Leave(c, exception) ==
  /\ at' = [at EXCEPT ![c] = "ended"]
  /\ outcome' = [outcome EXCEPT ![c] = Outcome(c, exception)]
  /\ results' = Recorded(c, Outcome(c, exception))

Await(c, where) == at' = [at EXCEPT ![c] = where] /\ UNCHANGED <<outcome, results>>

-----------------------------------------------------------------------------
(* A call, await by await.                                                 *)

\* The home is ready, or the lock is free and nobody has staged meanwhile.
PrepareHome(c) ==
  /\ at[c] = "home"
  /\ ~due[c]
  /\ \/ /\ staged
        /\ Await(c, "opening")
        /\ UNCHANGED home
     \/ /\ ~staged /\ lock = None
        /\ lock' = c
        /\ copy' = [copy EXCEPT ![c] = "running"]
        /\ Await(c, "staging")
        /\ UNCHANGED staged
  /\ UNCHANGED <<command, session, requests, due, raised>>

\* _stage_codex_home ends, perhaps with an OSError, whether or not it is still awaited.
CopyEnds(c) ==
  /\ copy[c] = "running"
  /\ \E result \in {"whole", "failed"} : copy' = [copy EXCEPT ![c] = result]
  /\ UNCHANGED <<command, lock, staged, call>>

CopyReturns(c) ==
  /\ at[c] = "staging"
  /\ copy[c] \in {"whole", "failed"}
  /\ ~due[c]
  /\ lock' = None
  /\ IF copy[c] = "whole"
       THEN staged' = TRUE /\ Await(c, "opening")
       ELSE UNCHANGED staged /\ Leave(c, "error")
  /\ UNCHANGED <<command, copy, session, requests, due, raised>>

\* __aenter__ of the session.
Open(c) ==
  /\ at[c] = "opening"
  /\ ~due[c]
  /\ \/ session' = [session EXCEPT ![c] = "open"] /\ Await(c, "turn")
     \/ UNCHANGED session /\ Leave(c, "error")
  /\ UNCHANGED <<command, home, requests, due, raised>>

\* _authenticate, the thread, its turn and _normalize_result, or models.
Work(c) ==
  /\ at[c] = "turn"
  /\ ~due[c]
  /\ \E ending \in {"nothing", "error"} : raised' = [raised EXCEPT ![c] = ending]
  /\ Await(c, "closing")
  /\ UNCHANGED <<command, home, session, requests, due>>

\* What fails while a session is left takes the place of what was in flight.
Break(c) == raised' = [raised EXCEPT ![c] = "broken"]

\* __aexit__ of the session closes it, or raises and may leave it open.
Close(c) ==
  /\ at[c] = "closing"
  /\ ~due[c]
  /\ \/ session' = [session EXCEPT ![c] = "closed"] /\ UNCHANGED raised
     \/ \E left \in {"abandoned", "closed"} :
          session' = [session EXCEPT ![c] = left] /\ Break(c)
  /\ Await(c, "streams")
  /\ UNCHANGED <<command, home, requests, due>>

\* _close_output_streams returns or raises.
CloseOutputStreams(c) ==
  /\ at[c] = "streams"
  /\ ~due[c]
  /\ \/ Leave(c, raised[c]) /\ UNCHANGED raised
     \/ Leave(c, "broken") /\ Break(c)
  /\ UNCHANGED <<command, home, session, requests, due>>

\* Mutant of Raise: a cancelled session is not closed.
RaiseWithoutClose(c) ==
  /\ due[c] /\ Active(c)
  /\ due' = [due EXCEPT ![c] = FALSE]
  /\ lock' = IF at[c] = "staging" THEN None ELSE lock
  /\ raised' = [raised EXCEPT ![c] = "cancelled"]
  /\ Leave(c, "cancelled")
  /\ UNCHANGED <<command, staged, copy, session, requests>>

(***************************************************************************)
(* CancelledError at the await the call is at.  A session whose __aenter__ *)
(* or __aexit__ is interrupted may be abandoned, and they may end with an  *)
(* exception of their own; __aexit__ still runs when the body was          *)
(* interrupted, and the streams are closed whenever it was entered.        *)
(***************************************************************************)
Raise(c) ==
  /\ due[c]
  /\ due' = [due EXCEPT ![c] = FALSE]
  /\ \E exception \in {"cancelled", "broken"} :
       /\ raised' = [raised EXCEPT ![c] = exception]
       /\ exception = "broken" => at[c] \in {"opening", "closing"}
       /\ \/ /\ at[c] \in {"home", "staging", "streams"}
             /\ lock' = IF at[c] = "staging" THEN None ELSE lock
             /\ Leave(c, exception)
             /\ UNCHANGED session
          \/ /\ at[c] = "opening"
             /\ \E left \in {"none", "abandoned"} : session' = [session EXCEPT ![c] = left]
             /\ Leave(c, exception)
             /\ UNCHANGED lock
          \/ /\ at[c] = "turn"
             /\ Await(c, "closing")
             /\ UNCHANGED <<lock, session>>
          \/ /\ at[c] = "closing"
             /\ \E left \in {"abandoned", "closed"} : session' = [session EXCEPT ![c] = left]
             /\ Await(c, "streams")
             /\ UNCHANGED lock
  /\ UNCHANGED <<command, staged, copy, requests>>

Request(c, who) ==
  /\ requests' = [requests EXCEPT ![c] = @ \cup {who}]
  /\ due' = [due EXCEPT ![c] = TRUE]

\* Mutant of Expire: the timeout only covers the turn.
ExpireInTurn(c) ==
  /\ at[c] = "turn"
  /\ "timeout" \notin requests[c]
  /\ Request(c, "timeout")
  /\ UNCHANGED <<command, home, at, session, raised, outcome, results>>

\* asyncio.timeout fires.
Expire(c) ==
  /\ Active(c)
  /\ "timeout" \notin requests[c]
  /\ Request(c, "timeout")
  /\ UNCHANGED <<command, home, at, session, raised, outcome, results>>

Step(c) ==
  \/ PrepareHome(c) \/ CopyReturns(c) \/ Open(c) \/ Work(c) \/ Close(c)
  \/ CloseOutputStreams(c) \/ Raise(c)

-----------------------------------------------------------------------------
(* The command.                                                            *)

\* Mutant of StartCommand: turns are dispatched without the inventory.
StartWithoutInventory ==
  /\ phase = "start"
  /\ phase' = "dispatch"
  /\ UNCHANGED <<use, members, signalled, pending, aborting, home, call>>

\* _validate_model_inventory comes before every other call.
StartCommand ==
  /\ phase = "start"
  /\ phase' = "inventory"
  /\ Await(Inventory, "home")
  /\ UNCHANGED <<use, members, signalled, pending, aborting, home, session, requests, due,
                 raised>>

\* SdkError, AuthenticationError and ModelUnavailableError end the command.
EndInventory ==
  /\ phase = "inventory"
  /\ at[Inventory] = "ended"
  /\ \/ outcome[Inventory] = "succeeded" /\ phase' \in {"dispatch", "failed"}
     \/ outcome[Inventory] # "succeeded" /\ phase' = outcome[Inventory]
  /\ UNCHANGED <<use, members, signalled, pending, aborting, home, call>>

\* Tasks of a group take their first step before any of them can be cancelled.
Dispatch ==
  /\ phase = "dispatch"
  /\ ~pending
  /\ phase' = "calls"
  /\ at' = [c \in Call |-> IF c \in members THEN "home" ELSE at[c]]
  /\ UNCHANGED <<use, members, signalled, pending, aborting, home, session, requests, due,
                 raised, outcome, results>>

\* The task group cancels what is left of it, once.
Abort ==
  /\ phase = "calls"
  /\ use = "batch"
  /\ ~aborting
  /\ signalled \/ \E i \in members : outcome[i] = "failed"
  /\ aborting' = TRUE
  /\ requests' = [c \in Call |-> IF c \in members /\ Active(c)
                                   THEN requests[c] \cup {"abort"} ELSE requests[c]]
  /\ due' = [c \in Call |-> due[c] \/ (c \in members /\ Active(c))]
  /\ UNCHANGED <<phase, use, members, signalled, pending, home, at, session, raised, outcome,
                 results>>

Ended(ending) == \E i \in members : outcome[i] = ending

\* Mutant of EndCalls: a failed sibling makes the group forget its own cancellation.
EndCallsForgetful ==
  /\ phase = "calls"
  /\ \A i \in members : at[i] = "ended"
  /\ phase' = IF use = "batch" /\ Ended("failed") THEN "returned"
              ELSE IF signalled \/ Ended("cancelled") THEN "cancelled"
              ELSE IF use = "planner" /\ Ended("failed") THEN "failed" ELSE "returned"
  /\ UNCHANGED <<use, members, signalled, pending, aborting, home, call>>

(***************************************************************************)
(* The group, or the only call, is through.  Failures of a batch or of a   *)
(* writer become results, those of a planner end the command.  A group     *)
(* with failures requests the command's own cancellation again, without    *)
(* it raises it.                                                           *)
(***************************************************************************)
EndCalls ==
  /\ phase = "calls"
  /\ \A i \in members : at[i] = "ended"
  /\ \/ /\ use = "batch" /\ Ended("failed")
        /\ phase' = "returned"
        /\ pending' = signalled
     \/ /\ use = "batch" /\ ~Ended("failed")
        /\ phase' = IF signalled THEN "cancelled" ELSE "returned"
        /\ UNCHANGED pending
     \/ /\ use # "batch"
        /\ phase' = CASE Ended("cancelled") -> "cancelled"
                      [] Ended("failed") /\ use = "planner" -> "failed"
                      [] OTHER -> "returned"
        /\ UNCHANGED pending
  /\ UNCHANGED <<use, members, signalled, aborting, home, call>>

\* The command goes on with what the calls returned; its next await raises what is pending.
GoOn ==
  /\ phase \in {"dispatch", "returned"}
  /\ \/ pending /\ phase' = "cancelled"
     \/ phase = "returned" /\ ~pending /\ phase' = "done"
  /\ UNCHANGED <<use, members, signalled, pending, aborting, home, call>>

\* The call the command's own task is in, if it is in one.
Own == CASE phase = "inventory" /\ Active(Inventory) -> {Inventory}
         [] phase = "calls" /\ use # "batch" -> {i \in members : Active(i)}
         [] OTHER -> {}

\* SIGINT cancels the command's task; a second one does not come back to asyncio.
Signal ==
  /\ \/ phase \in {"dispatch", "returned"}
     \/ phase = "calls" /\ use = "batch"
     \/ Own # {}
  /\ ~signalled
  /\ signalled' = TRUE
  /\ pending' = (phase \in {"dispatch", "returned"})
  /\ requests' = [c \in Call |-> IF c \in Own THEN requests[c] \cup {"signal"} ELSE requests[c]]
  /\ due' = [c \in Call |-> due[c] \/ c \in Own]
  /\ UNCHANGED <<phase, use, members, aborting, home, at, session, raised, outcome, results>>

Command == StartCommand \/ EndInventory \/ Dispatch \/ Abort \/ EndCalls \/ GoOn

Next ==
  \/ \E c \in Call : Step(c) \/ CopyEnds(c) \/ Expire(c)
  \/ Command
  \/ Signal

Spec == Init /\ [][Next]_vars

(***************************************************************************)
(* The event loop runs what is ready, threads end, timers fire and a       *)
(* session's __aexit__ returns or raises.  Codex may hang while it opens   *)
(* or works.                                                               *)
(***************************************************************************)
FairSpec ==
  /\ Spec
  /\ WF_vars(Command)
  /\ \A c \in Call :
       /\ WF_vars(PrepareHome(c)) /\ WF_vars(CopyEnds(c)) /\ WF_vars(CopyReturns(c))
       /\ WF_vars(Close(c)) /\ WF_vars(CloseOutputStreams(c))
       /\ WF_vars(Raise(c)) /\ WF_vars(Expire(c))

-----------------------------------------------------------------------------
(* Properties.                                                             *)

(***************************************************************************)
(* No Codex process ever runs on a home that is being copied, although a   *)
(* staging thread outlives the call that timed out waiting for it.         *)
(***************************************************************************)
SessionsSeeWholeHome ==
  \A c \in Call :
    session[c] \in {"open", "abandoned"} => staged /\ \A d \in Call : copy[d] # "running"

(***************************************************************************)
(* Whatever failed, expired or was cancelled in whichever order, a batch   *)
(* or a writer that comes back has one result per item, the one its call   *)
(* ended with, and "a sibling failed" only if one did.                     *)
(***************************************************************************)
EveryItemIsAnswered ==
  phase = "returned" /\ use # "planner" =>
    /\ DOMAIN results = members
    /\ \A i \in members : results[i] = outcome[i]
    /\ (\E i \in members : results[i] = "cancelled") => \E i \in members : results[i] = "failed"

(***************************************************************************)
(* When its calls are over the command has no task left and no session,    *)
(* but for those whose __aexit__ failed, or that were hit by a             *)
(* cancellation in their __aenter__ or __aexit__; a writer gives its       *)
(* project lease back with no other Codex at work.                         *)
(***************************************************************************)
NothingIsLeftRunning ==
  phase \in Over \cup {"returned"} =>
    \A c \in Call : ~Active(c) /\ session[c] # "open"

(***************************************************************************)
(* A signal is never mistaken for a timeout, or swallowed by the group of  *)
(* a batch: the command stops.  It goes on in one case only: in a writer's *)
(* call, entering or leaving the session failed of itself after the        *)
(* signal, so that the cancellation became a failed result.                *)
(***************************************************************************)
SignalStopsCommand ==
  phase = "done" /\ signalled =>
    /\ use = "writer"
    /\ \E i \in members :
         "signal" \in requests[i] /\ raised[i] = "broken" /\ results[i] = "failed"

\* A Codex that hangs while it opens or works does not hang the command.
CommandEnds == <>(phase \in Over)
=============================================================================
