--------------------------- MODULE CodexCalls_proofs ---------------------------
(***************************************************************************)
(* However large a batch is, and whatever times out, fails or is cancelled *)
(* in whichever order: no session sees half a home, none is left at work,  *)
(* every item is answered, and a signal stops the command unless leaving a *)
(* writer's session fails.                                                 *)
(***************************************************************************)
EXTENDS CodexCalls, TLAPS

Phases  == {"start", "inventory", "dispatch", "calls", "returned"} \cup Over
Awaits  == {"idle", "home", "staging", "opening", "turn", "closing", "streams", "ended"}
Endings == {"succeeded", "failed", "cancelled"}

TypeInv ==
  /\ phase \in Phases /\ use \in {"planner", "writer", "batch"} /\ members \in SUBSET Item
  /\ signalled \in BOOLEAN /\ pending \in BOOLEAN /\ aborting \in BOOLEAN
  /\ at \in [Call -> Awaits]
  /\ staged \in BOOLEAN
  /\ copy \in [Call -> {"none", "running", "whole", "failed"}]
  /\ session \in [Call -> {"none", "open", "abandoned", "closed"}]
  /\ requests \in [Call -> SUBSET {"timeout", "abort", "signal"}]
  /\ due \in [Call -> BOOLEAN]
  /\ raised \in [Call -> {"nothing", "error", "cancelled", "broken"}]
  /\ outcome \in [Call -> Endings \cup {None}]

\* The home: only the inventory ever copies it, and nothing is opened before.
HomeInv ==
  /\ \A c \in Call : copy[c] # "none" \/ at[c] = "staging" => c = Inventory
  /\ at[Inventory] \in {"idle", "home"} => copy[Inventory] = "none"
  /\ at[Inventory] = "staging" => copy[Inventory] # "none" /\ ~staged
  /\ staged => copy[Inventory] # "running"
  /\ \A c \in Call :
       at[c] \in {"opening", "turn", "closing", "streams"} \/ session[c] \in {"open", "abandoned"}
         => staged
  /\ outcome[Inventory] = "succeeded" \/ phase \in {"dispatch", "calls", "returned"} => staged

\* A call: a cancellation that was requested is raised before it does anything else.
CallInv ==
  \A c \in Call :
    /\ due[c] => Active(c)
    /\ session[c] = "open" => at[c] \in {"turn", "closing"}
    /\ outcome[c] # None <=> at[c] = "ended"
    /\ due[c] \/ raised[c] = "cancelled" => requests[c] # {}
    /\ outcome[c] = "cancelled" => requests[c] \cap {"abort", "signal"} # {}
    /\ "signal" \in requests[c] =>
         \/ due[c]
         \/ at[c] \in {"closing", "streams"} /\ raised[c] \in {"cancelled", "broken"}
         \/ outcome[c] = "cancelled"
         \/ outcome[c] = "failed" /\ raised[c] = "broken"

\* The command: which calls are there in which phase.
PhaseInv ==
  /\ phase = "start" => at[Inventory] = "idle"
  /\ \A c \in Call :
       Active(c) => \/ phase = "inventory" /\ c = Inventory
                    \/ phase = "calls" /\ c \in members
  /\ phase \in {"start", "inventory", "dispatch"} =>
       results = [i \in {} |-> None] /\ \A i \in Item : at[i] = "idle"
  /\ \A i \in Item : at[i] = "idle" => requests[i] = {}
  /\ phase \in {"calls", "returned"} => \A i \in Item : at[i] = "idle" <=> i \notin members
  /\ use # "batch" => \E i \in Item : members = {i}

\* A writer's session failed while it was left, and the signal went with it.
Swallowed ==
  /\ use = "writer"
  /\ \E i \in members :
       "signal" \in requests[i] /\ raised[i] = "broken" /\ results[i] = "failed"

\* The cancellation of the command is pending, or with the call it waits for, or lost.
SignalInv ==
  /\ signalled => phase # "start"
  /\ signalled /\ phase = "inventory" => "signal" \in requests[Inventory]
  /\ signalled /\ phase = "dispatch" => pending
  /\ signalled /\ phase = "returned" => pending \/ Swallowed
  /\ signalled /\ phase = "done" => Swallowed
  /\ signalled /\ phase = "calls" /\ use # "batch" => \E i \in members : "signal" \in requests[i]

\* The task group: it cancels for a reason, and its tasks note what became of them.
AnswerInv ==
  /\ use = "batch" => \A i \in Item : "signal" \notin requests[i]
  /\ \A i \in Item : "abort" \in requests[i] => aborting
  /\ aborting => use = "batch" /\ (signalled \/ Ended("failed"))
  /\ phase \in {"calls", "returned"} =>
       /\ DOMAIN results =
            {i \in Item : at[i] = "ended" /\ (use = "batch" \/ outcome[i] # "cancelled")}
       /\ \A i \in DOMAIN results : results[i] = outcome[i]
  /\ phase = "returned" /\ use = "writer" => ~Ended("cancelled")
  /\ phase = "returned" /\ use = "batch" => ~Ended("cancelled") \/ Ended("failed")

IInv == TypeInv /\ HomeInv /\ CallInv /\ PhaseInv /\ SignalInv /\ AnswerInv
-----------------------------------------------------------------------------
(* Every step keeps the invariant.                                        *)

\* A call that goes on to another await has nothing to note yet.
LEMMA AwaitAnswers ==
  ASSUME TypeInv, CallInv, PhaseInv, AnswerInv, NEW c \in Call, Active(c),
         NEW where \in Awaits \ {"idle", "ended"}, Await(c, where), UNCHANGED <<command, requests>>
  PROVE  AnswerInv'
<1>1. /\ DOMAIN at = Call /\ at[c] \notin {"idle", "ended"}
      /\ at' = [at EXCEPT ![c] = where] /\ UNCHANGED <<outcome, results>>
      /\ UNCHANGED <<phase, use, members, signalled, pending, aborting, requests>>
  BY DEF TypeInv, Active, Await, command
<1>2. \A i \in Call : at'[i] = "ended" <=> at[i] = "ended"
  BY <1>1
<1>3. {i \in Item : at'[i] = "ended" /\ (use = "batch" \/ outcome[i] # "cancelled")}
        = {i \in Item : at[i] = "ended" /\ (use = "batch" \/ outcome[i] # "cancelled")}
  BY <1>2 DEF Call
<1>4. QED
  BY <1>1, <1>3 DEF AnswerInv, Ended

\* A call that ends notes how.
LEMMA LeaveAnswers ==
  ASSUME TypeInv, CallInv, PhaseInv, AnswerInv, NEW c \in Call, Active(c),
         NEW exception \in {"nothing", "error", "cancelled", "broken"}, Leave(c, exception),
         UNCHANGED <<command, requests>>
  PROVE  AnswerInv'
<1> DEFINE e == Outcome(c, exception)
<1>1. /\ DOMAIN at = Call /\ DOMAIN outcome = Call /\ at[c] \notin {"idle", "ended"}
      /\ at' = [at EXCEPT ![c] = "ended"] /\ outcome' = [outcome EXCEPT ![c] = e]
      /\ results' = Recorded(c, e)
      /\ UNCHANGED <<phase, use, members, signalled, pending, aborting, requests>>
  BY DEF TypeInv, Active, Leave, command
<1>2. e \in Endings /\ outcome[c] = None
  BY <1>1 DEF Outcome, Endings, CallInv
<1> HIDE DEF e
<1>3. Ended("failed") => Ended("failed")'
  BY <1>1, <1>2, NoneAssumption DEF Ended
<1>4. phase # "returned"
  BY <1>1 DEF PhaseInv
<1>5. CASE c = Inventory
  <2>1. results' = results /\ \A i \in Item : at'[i] = at[i] /\ outcome'[i] = outcome[i]
    BY <1>1, <1>5, CallAssumption DEF Recorded, Call
  <2>2. {i \in Item : at'[i] = "ended" /\ (use = "batch" \/ outcome'[i] # "cancelled")}
          = {i \in Item : at[i] = "ended" /\ (use = "batch" \/ outcome[i] # "cancelled")}
    BY <2>1
  <2>3. \A i \in DOMAIN results : i \in Item
    <3>1. phase = "inventory"
      BY <1>1, <1>5, CallAssumption DEF PhaseInv, TypeInv
    <3>2. results = [i \in {} |-> None]
      BY <3>1 DEF PhaseInv
    <3>3. QED
      BY <3>2
  <2>4. QED
    BY <1>1, <1>3, <1>4, <1>5, <2>1, <2>2, <2>3 DEF AnswerInv, PhaseInv
<1>6. CASE c \in Item
  <2>1. phase = "calls"
    BY <1>1, <1>6, CallAssumption DEF PhaseInv
  <2>2. /\ DOMAIN results = {i \in Item : at[i] = "ended" /\ (use = "batch" \/ outcome[i] # "cancelled")}
        /\ \A i \in DOMAIN results : results[i] = outcome[i]
    BY <2>1 DEF AnswerInv
  <2>3. /\ DOMAIN results' =
             {i \in Item : at'[i] = "ended" /\ (use = "batch" \/ outcome'[i] # "cancelled")}
        /\ \A i \in DOMAIN results' : results'[i] = outcome'[i]
    <3>1. CASE use = "batch" \/ e # "cancelled"
      <4>1. results' = [i \in DOMAIN results \cup {c} |-> IF i = c THEN e ELSE results[i]]
        BY <1>1, <1>2, <1>6, <3>1 DEF Recorded, Endings
      <4>2. QED
        BY <1>1, <1>6, <2>2, <3>1, <4>1 DEF Call
    <3>2. CASE ~(use = "batch" \/ e # "cancelled")
      <4>1. results' = results
        BY <1>1, <1>2, <3>2 DEF Recorded, Endings
      <4>2. QED
        BY <1>1, <1>6, <2>2, <3>2, <4>1 DEF Call
    <3>3. QED
      BY <3>1, <3>2
  <2>4. QED
    BY <1>1, <1>3, <1>4, <2>1, <2>3 DEF AnswerInv
<1>7. QED
  BY <1>5, <1>6 DEF Call

\* The home is staged once, or found staged.
LEMMA PrepareHomeKeeps ==
  ASSUME IInv, NEW c \in Call, PrepareHome(c)
  PROVE  IInv'
<1> USE CallAssumption, NoneAssumption DEF IInv, PrepareHome, home
<1>1. TypeInv'
  BY DEF Await, command, Call, Over, TypeInv, Phases, Awaits, Endings
<1>2. HomeInv'
  BY DEF Await, command, Call, Over, TypeInv, HomeInv, PhaseInv, CallInv, Active
<1>3. CallInv'
  BY DEF Await, command, Call, Over, TypeInv, CallInv, Active, Endings
<1>4. PhaseInv'
  BY DEF Await, command, Call, Over, TypeInv, PhaseInv, CallInv, Active
<1>5. SignalInv'
  BY DEF Await, command, Call, Over, TypeInv, SignalInv, Swallowed, CallInv, PhaseInv, Active
<1>6. AnswerInv'
  <2>1. Active(c) /\ UNCHANGED <<command, requests>> /\ TypeInv /\ CallInv /\ PhaseInv /\ AnswerInv
    BY DEF Active
  <2>2. ASSUME NEW where \in {"opening", "staging"}, Await(c, where)
        PROVE  AnswerInv'
    BY <2>1, <2>2, AwaitAnswers DEF Awaits
  <2>3. QED
    BY <2>2
<1>7. QED
  BY <1>1, <1>2, <1>3, <1>4, <1>5, <1>6

\* A staging thread ends, awaited or not.
LEMMA CopyEndsKeeps ==
  ASSUME IInv, NEW c \in Call, CopyEnds(c)
  PROVE  IInv'
<1> USE CallAssumption, NoneAssumption DEF IInv, Call, Over, CopyEnds, command, call
<1>1. TypeInv'
  BY DEF TypeInv, Phases, Awaits, Endings
<1>2. HomeInv'
  BY DEF TypeInv, HomeInv, PhaseInv, CallInv, Active
<1>3. CallInv'
  BY DEF TypeInv, CallInv, Active, Endings
<1>4. PhaseInv'
  BY DEF TypeInv, PhaseInv, CallInv, Active
<1>5. SignalInv'
  BY DEF TypeInv, SignalInv, Swallowed, CallInv, PhaseInv, Active
<1>6. AnswerInv'
  BY DEF TypeInv, AnswerInv, CallInv, PhaseInv, SignalInv, Active, Ended
<1>7. QED
  BY <1>1, <1>2, <1>3, <1>4, <1>5, <1>6

\* What was copied whole is the home from now on.
LEMMA CopyReturnsKeeps ==
  ASSUME IInv, NEW c \in Call, CopyReturns(c)
  PROVE  IInv'
<1> USE CallAssumption, NoneAssumption DEF IInv, CopyReturns
<1>1. TypeInv'
  BY DEF Await, Leave, Outcome, Recorded, command, Call, Over, TypeInv, Phases, Awaits, Endings
<1>2. HomeInv'
  BY DEF Await, Leave, Outcome, Recorded, command, Call, Over, TypeInv, HomeInv, PhaseInv,
         CallInv, Active
<1>3. CallInv'
  BY DEF Await, Leave, Outcome, Recorded, command, Call, Over, TypeInv, CallInv, Active, Endings
<1>4. PhaseInv'
  BY DEF Await, Leave, Outcome, Recorded, command, Call, Over, TypeInv, PhaseInv, CallInv, Active
<1>5. SignalInv'
  BY DEF Await, Leave, Outcome, Recorded, command, Call, Over, TypeInv, SignalInv, Swallowed,
         CallInv, PhaseInv, Active
<1>6. AnswerInv'
  <2>1. Active(c) /\ UNCHANGED <<command, requests>> /\ TypeInv /\ CallInv /\ PhaseInv /\ AnswerInv
    BY DEF Active
  <2>2. ASSUME NEW where \in {"opening"}, Await(c, where)
        PROVE  AnswerInv'
    BY <2>1, <2>2, AwaitAnswers DEF Awaits
  <2>3. ASSUME NEW exception \in {"error"}, Leave(c, exception)
        PROVE  AnswerInv'
    BY <2>1, <2>3, LeaveAnswers
  <2>4. QED
    BY <2>2, <2>3
<1>7. QED
  BY <1>1, <1>2, <1>3, <1>4, <1>5, <1>6

\* A session is opened in a staged home.
LEMMA OpenKeeps ==
  ASSUME IInv, NEW c \in Call, Open(c)
  PROVE  IInv'
<1> USE CallAssumption, NoneAssumption DEF IInv, Open, home
<1>1. TypeInv'
  BY DEF Await, Leave, Outcome, Recorded, command, Call, Over, TypeInv, Phases, Awaits, Endings
<1>2. HomeInv'
  BY DEF Await, Leave, Outcome, Recorded, command, Call, Over, TypeInv, HomeInv, PhaseInv,
         CallInv, Active
<1>3. CallInv'
  BY DEF Await, Leave, Outcome, Recorded, command, Call, Over, TypeInv, CallInv, Active, Endings
<1>4. PhaseInv'
  BY DEF Await, Leave, Outcome, Recorded, command, Call, Over, TypeInv, PhaseInv, CallInv, Active
<1>5. SignalInv'
  BY DEF Await, Leave, Outcome, Recorded, command, Call, Over, TypeInv, SignalInv, Swallowed,
         CallInv, PhaseInv, Active
<1>6. AnswerInv'
  <2>1. Active(c) /\ UNCHANGED <<command, requests>> /\ TypeInv /\ CallInv /\ PhaseInv /\ AnswerInv
    BY DEF Active
  <2>2. ASSUME NEW where \in {"turn"}, Await(c, where)
        PROVE  AnswerInv'
    BY <2>1, <2>2, AwaitAnswers DEF Awaits
  <2>3. ASSUME NEW exception \in {"error"}, Leave(c, exception)
        PROVE  AnswerInv'
    BY <2>1, <2>3, LeaveAnswers
  <2>4. QED
    BY <2>2, <2>3
<1>7. QED
  BY <1>1, <1>2, <1>3, <1>4, <1>5, <1>6

\* The body of a session ends.
LEMMA WorkKeeps ==
  ASSUME IInv, NEW c \in Call, Work(c)
  PROVE  IInv'
<1> USE CallAssumption, NoneAssumption DEF IInv, Work, home
<1>1. TypeInv'
  BY DEF Await, command, Call, Over, TypeInv, Phases, Awaits, Endings
<1>2. HomeInv'
  BY DEF Await, command, Call, Over, TypeInv, HomeInv, PhaseInv, CallInv, Active
<1>3. CallInv'
  BY DEF Await, command, Call, Over, TypeInv, CallInv, Active, Endings
<1>4. PhaseInv'
  BY DEF Await, command, Call, Over, TypeInv, PhaseInv, CallInv, Active
<1>5. SignalInv'
  BY DEF Await, command, Call, Over, TypeInv, SignalInv, Swallowed, CallInv, PhaseInv, Active
<1>6. AnswerInv'
  <2>1. Active(c) /\ UNCHANGED <<command, requests>> /\ TypeInv /\ CallInv /\ PhaseInv /\ AnswerInv
    BY DEF Active
  <2>2. ASSUME NEW where \in {"closing"}, Await(c, where)
        PROVE  AnswerInv'
    BY <2>1, <2>2, AwaitAnswers DEF Awaits
  <2>3. QED
    BY <2>2
<1>7. QED
  BY <1>1, <1>2, <1>3, <1>4, <1>5, <1>6

\* A session is closed.
LEMMA CloseKeeps ==
  ASSUME IInv, NEW c \in Call, Close(c)
  PROVE  IInv'
<1> USE CallAssumption, NoneAssumption DEF IInv, Close, Break, home
<1>1. TypeInv'
  BY DEF Await, command, Call, Over, TypeInv, Phases, Awaits, Endings
<1>2. HomeInv'
  BY DEF Await, command, Call, Over, TypeInv, HomeInv, PhaseInv, CallInv, Active
<1>3. CallInv'
  BY DEF Await, command, Call, Over, TypeInv, CallInv, Active, Endings
<1>4. PhaseInv'
  BY DEF Await, command, Call, Over, TypeInv, PhaseInv, CallInv, Active
<1>5. SignalInv'
  BY DEF Await, command, Call, Over, TypeInv, SignalInv, Swallowed, CallInv, PhaseInv, Active
<1>6. AnswerInv'
  <2>1. Active(c) /\ UNCHANGED <<command, requests>> /\ TypeInv /\ CallInv /\ PhaseInv /\ AnswerInv
    BY DEF Active
  <2>2. ASSUME NEW where \in {"streams"}, Await(c, where)
        PROVE  AnswerInv'
    BY <2>1, <2>2, AwaitAnswers DEF Awaits
  <2>3. QED
    BY <2>2
<1>7. QED
  BY <1>1, <1>2, <1>3, <1>4, <1>5, <1>6

\* A call ends with what its session ended with.
LEMMA CloseOutputStreamsKeeps ==
  ASSUME IInv, NEW c \in Call, CloseOutputStreams(c)
  PROVE  IInv'
<1> USE CallAssumption, NoneAssumption DEF IInv, CloseOutputStreams, Break, home
<1>1. TypeInv'
  BY DEF Leave, Outcome, Recorded, command, Call, Over, TypeInv, Phases, Awaits, Endings
<1>2. HomeInv'
  BY DEF Leave, Outcome, Recorded, command, Call, Over, TypeInv, HomeInv, PhaseInv, CallInv,
         Active
<1>3. CallInv'
  BY DEF Leave, Outcome, Recorded, command, Call, Over, TypeInv, CallInv, Active, Endings
<1>4. PhaseInv'
  BY DEF Leave, Outcome, Recorded, command, Call, Over, TypeInv, PhaseInv, CallInv, Active
<1>5. SignalInv'
  BY DEF Leave, Outcome, Recorded, command, Call, Over, TypeInv, SignalInv, Swallowed, CallInv,
         PhaseInv, Active
<1>6. AnswerInv'
  <2>1. Active(c) /\ UNCHANGED <<command, requests>> /\ TypeInv /\ CallInv /\ PhaseInv /\ AnswerInv
    BY DEF Active
  <2>2. raised[c] \in {"nothing", "error", "cancelled", "broken"}
    BY DEF TypeInv
  <2>3. ASSUME NEW exception \in {raised[c], "broken"}, Leave(c, exception)
        PROVE  AnswerInv'
    BY <2>1, <2>2, <2>3, LeaveAnswers
  <2>4. QED
    BY <2>3
<1>7. QED
  BY <1>1, <1>2, <1>3, <1>4, <1>5, <1>6

\* A cancellation is raised.
LEMMA RaiseKeeps ==
  ASSUME IInv, NEW c \in Call, Raise(c)
  PROVE  IInv'
<1> USE CallAssumption, NoneAssumption DEF IInv, Raise
<1>1. TypeInv'
  BY DEF Await, Leave, Outcome, Recorded, command, Call, Over, TypeInv, Phases, Awaits, Endings
<1>2. HomeInv'
  BY DEF Await, Leave, Outcome, Recorded, command, Call, Over, TypeInv, HomeInv, PhaseInv,
         CallInv, Active
<1>3. CallInv'
  BY DEF Await, Leave, Outcome, Recorded, command, Call, Over, TypeInv, CallInv, Active, Endings
<1>4. PhaseInv'
  BY DEF Await, Leave, Outcome, Recorded, command, Call, Over, TypeInv, PhaseInv, CallInv, Active
<1>5. SignalInv'
  BY DEF Await, Leave, Outcome, Recorded, command, Call, Over, TypeInv, SignalInv, Swallowed,
         CallInv, PhaseInv, Active
<1>6. AnswerInv'
  <2>1. Active(c) /\ UNCHANGED <<command, requests>> /\ TypeInv /\ CallInv /\ PhaseInv /\ AnswerInv
    BY DEF Active
  <2>2. ASSUME NEW where \in {"closing", "streams"}, Await(c, where)
        PROVE  AnswerInv'
    BY <2>1, <2>2, AwaitAnswers DEF Awaits
  <2>3. ASSUME NEW exception \in {"cancelled", "broken"}, Leave(c, exception)
        PROVE  AnswerInv'
    BY <2>1, <2>3, LeaveAnswers
  <2>4. QED
    BY <2>2, <2>3
<1>7. QED
  BY <1>1, <1>2, <1>3, <1>4, <1>5, <1>6

\* A timeout fires.
LEMMA ExpireKeeps ==
  ASSUME IInv, NEW c \in Call, Expire(c)
  PROVE  IInv'
<1> USE CallAssumption, NoneAssumption DEF IInv, Call, Over, Expire, Request, command, home
<1>1. TypeInv'
  BY DEF TypeInv, Phases, Awaits, Endings
<1>2. HomeInv'
  BY DEF TypeInv, HomeInv, PhaseInv, CallInv, Active
<1>3. CallInv'
  BY DEF TypeInv, CallInv, Active, Endings
<1>4. PhaseInv'
  BY DEF TypeInv, PhaseInv, CallInv, Active
<1>5. SignalInv'
  BY DEF TypeInv, SignalInv, Swallowed, CallInv, PhaseInv, Active
<1>6. AnswerInv'
  BY DEF TypeInv, AnswerInv, CallInv, PhaseInv, SignalInv, Active, Ended
<1>7. QED
  BY <1>1, <1>2, <1>3, <1>4, <1>5, <1>6

\* The inventory is asked for.
LEMMA StartCommandKeeps ==
  ASSUME IInv, StartCommand
  PROVE  IInv'
<1> USE CallAssumption, NoneAssumption DEF IInv, Call, Over, StartCommand, Await, home
<1>1. TypeInv'
  BY DEF TypeInv, Phases, Awaits, Endings
<1>2. HomeInv'
  BY DEF TypeInv, HomeInv, PhaseInv, CallInv, Active
<1>3. CallInv'
  BY DEF TypeInv, CallInv, PhaseInv, Active, Endings
<1>4. PhaseInv'
  BY DEF TypeInv, PhaseInv, CallInv, Active
<1>5. SignalInv'
  BY DEF TypeInv, SignalInv, Swallowed, CallInv, PhaseInv, Active
<1>6. AnswerInv'
  BY DEF TypeInv, AnswerInv, CallInv, PhaseInv, SignalInv, Active, Ended
<1>7. QED
  BY <1>1, <1>2, <1>3, <1>4, <1>5, <1>6

\* The inventory is over.
LEMMA EndInventoryKeeps ==
  ASSUME IInv, EndInventory
  PROVE  IInv'
<1> USE CallAssumption, NoneAssumption DEF IInv, Call, Over, EndInventory, home, call
<1>0. /\ outcome[Inventory] = "succeeded" \/ phase' \in {"failed", "cancelled"}
      /\ phase' \in {"dispatch", "failed", "cancelled"}
  <2>1. outcome[Inventory] \in Endings
    BY DEF TypeInv, CallInv
  <2>2. QED
    BY <2>1 DEF Endings
<1>1. TypeInv'
  BY <1>0 DEF TypeInv, Phases, Awaits, Endings
<1>2. HomeInv'
  BY <1>0 DEF TypeInv, HomeInv, PhaseInv, CallInv, Active
<1>3. CallInv'
  BY DEF TypeInv, CallInv, Active, Endings
<1>4. PhaseInv'
  BY <1>0 DEF TypeInv, PhaseInv, CallInv, Active
<1>5. SignalInv'
  BY DEF TypeInv, SignalInv, Swallowed, CallInv, PhaseInv, Active
<1>6. AnswerInv'
  BY DEF TypeInv, AnswerInv, CallInv, PhaseInv, SignalInv, Active, Ended
<1>7. QED
  BY <1>1, <1>2, <1>3, <1>4, <1>5, <1>6

\* The calls of the turns begin.
LEMMA DispatchKeeps ==
  ASSUME IInv, Dispatch
  PROVE  IInv'
<1> USE CallAssumption, NoneAssumption DEF IInv, Call, Over, Dispatch, home
<1>1. TypeInv'
  BY DEF TypeInv, Phases, Awaits, Endings
<1>2. HomeInv'
  BY DEF TypeInv, HomeInv, PhaseInv, CallInv, Active
<1>3. CallInv'
  <2>1. \A i \in Item : /\ at[i] = "idle" /\ ~due[i] /\ outcome[i] = None /\ session[i] # "open"
                        /\ requests[i] = {} /\ raised[i] # "cancelled"
    BY DEF TypeInv, CallInv, PhaseInv, Active, Endings
  <2>2. \A c \in Call : c \in members => at'[c] = "home"
    BY DEF TypeInv
  <2>3. \A c \in Call : c \notin members => at'[c] = at[c]
    BY DEF TypeInv
  <2>4. UNCHANGED <<session, requests, due, raised, outcome>>
    OBVIOUS
  <2>5. QED
    BY <2>1, <2>2, <2>3, <2>4 DEF TypeInv, CallInv, Active
<1>4. PhaseInv'
  BY DEF TypeInv, PhaseInv, CallInv, Active
<1>5. SignalInv'
  BY DEF TypeInv, SignalInv, Swallowed, CallInv, PhaseInv, Active
<1>6. AnswerInv'
  BY DEF TypeInv, AnswerInv, CallInv, PhaseInv, SignalInv, Active, Ended
<1>7. QED
  BY <1>1, <1>2, <1>3, <1>4, <1>5, <1>6

\* The task group cancels its tasks.
LEMMA AbortKeeps ==
  ASSUME IInv, Abort
  PROVE  IInv'
<1> USE CallAssumption, NoneAssumption DEF IInv, Call, Over, Abort, home
<1>1. TypeInv'
  BY DEF TypeInv, Phases, Awaits, Endings
<1>2. HomeInv'
  BY DEF TypeInv, HomeInv, PhaseInv, CallInv, Active
<1>3. CallInv'
  BY DEF TypeInv, CallInv, Active, Endings
<1>4. PhaseInv'
  BY DEF TypeInv, PhaseInv, CallInv, Active
<1>5. SignalInv'
  BY DEF TypeInv, SignalInv, Swallowed, CallInv, PhaseInv, Active
<1>6. AnswerInv'
  BY DEF TypeInv, AnswerInv, CallInv, PhaseInv, SignalInv, Active, Ended
<1>7. QED
  BY <1>1, <1>2, <1>3, <1>4, <1>5, <1>6

\* The turns are over.
LEMMA EndCallsKeeps ==
  ASSUME IInv, EndCalls
  PROVE  IInv'
<1> USE CallAssumption, NoneAssumption DEF IInv, Call, Over, EndCalls, home, call
<1>1. TypeInv'
  BY DEF TypeInv, Phases, Awaits, Endings
<1>2. HomeInv'
  BY DEF TypeInv, HomeInv, PhaseInv, CallInv, Active
<1>3. CallInv'
  BY DEF TypeInv, CallInv, Active, Endings
<1>4. PhaseInv'
  BY DEF TypeInv, PhaseInv, CallInv, Active
<1>5. SignalInv'
  <2>1. CASE use = "batch"
    BY <2>1 DEF SignalInv
  <2>2. CASE use # "batch"
    <3>1. phase' \in {"cancelled", "failed", "returned"} /\ UNCHANGED <<signalled, requests, members, use>>
      BY <2>2
    <3>2. ASSUME signalled
          PROVE  phase' \in {"cancelled", "failed"} \/ (phase' = "returned" /\ Swallowed)
      <4>1. PICK i \in members : "signal" \in requests[i]
        BY <2>2, <3>2 DEF SignalInv
      <4>2. i \in Item /\ i \in Call /\ at[i] = "ended"
        BY DEF TypeInv
      <4>3. outcome[i] = "cancelled" \/ (outcome[i] = "failed" /\ raised[i] = "broken")
        BY <4>1, <4>2 DEF CallInv, Active
      <4>4. CASE outcome[i] = "cancelled"
        <5>1. Ended("cancelled")
          BY <4>4 DEF Ended
        <5>2. QED
          BY <2>2, <5>1
      <4>5. CASE outcome[i] = "failed" /\ raised[i] = "broken"
        <5>1. Ended("failed") /\ ~Ended("cancelled")
          BY <2>2, <4>5 DEF Ended, PhaseInv
        <5>2. results[i] = "failed"
          BY <4>2, <4>5 DEF AnswerInv
        <5>3. use # "planner" => Swallowed
          BY <2>2, <4>1, <4>5, <5>2 DEF Swallowed, TypeInv
        <5>4. QED
          BY <2>2, <5>1, <5>3
      <4>6. QED
        BY <4>3, <4>4, <4>5
    <3>3. QED
      BY <3>1, <3>2 DEF SignalInv, Swallowed
  <2>3. QED
    BY <2>1, <2>2
<1>6. AnswerInv'
  BY DEF TypeInv, AnswerInv, CallInv, PhaseInv, SignalInv, Active, Ended
<1>7. QED
  BY <1>1, <1>2, <1>3, <1>4, <1>5, <1>6

\* The command goes on, or is cancelled.
LEMMA GoOnKeeps ==
  ASSUME IInv, GoOn
  PROVE  IInv'
<1> USE CallAssumption, NoneAssumption DEF IInv, Call, Over, GoOn, home, call
<1>1. TypeInv'
  BY DEF TypeInv, Phases, Awaits, Endings
<1>2. HomeInv'
  BY DEF TypeInv, HomeInv, PhaseInv, CallInv, Active
<1>3. CallInv'
  BY DEF TypeInv, CallInv, Active, Endings
<1>4. PhaseInv'
  BY DEF TypeInv, PhaseInv, CallInv, Active
<1>5. SignalInv'
  BY DEF TypeInv, SignalInv, Swallowed, CallInv, PhaseInv, Active
<1>6. AnswerInv'
  BY DEF TypeInv, AnswerInv, CallInv, PhaseInv, SignalInv, Active, Ended
<1>7. QED
  BY <1>1, <1>2, <1>3, <1>4, <1>5, <1>6

\* A signal cancels the command.
LEMMA SignalKeeps ==
  ASSUME IInv, Signal
  PROVE  IInv'
<1> USE CallAssumption, NoneAssumption DEF IInv, Call, Over, Signal, Own, home
<1>1. TypeInv'
  BY DEF TypeInv, Phases, Awaits, Endings
<1>2. HomeInv'
  BY DEF TypeInv, HomeInv, PhaseInv, CallInv, Active
<1>3. CallInv'
  BY DEF TypeInv, CallInv, Active, Endings
<1>4. PhaseInv'
  BY DEF TypeInv, PhaseInv, CallInv, Active
<1>5. SignalInv'
  BY DEF TypeInv, SignalInv, Swallowed, CallInv, PhaseInv, Active
<1>6. AnswerInv'
  BY DEF TypeInv, AnswerInv, CallInv, PhaseInv, SignalInv, Active, Ended
<1>7. QED
  BY <1>1, <1>2, <1>3, <1>4, <1>5, <1>6

\* A step that changes nothing.
LEMMA StutterKeeps ==
  ASSUME IInv, UNCHANGED vars
  PROVE  IInv'
<1> USE DEF IInv, vars, command, home, call
<1>1. TypeInv'
  BY DEF TypeInv
<1>2. HomeInv'
  BY DEF HomeInv
<1>3. CallInv'
  BY DEF CallInv, Active
<1>4. PhaseInv'
  BY DEF PhaseInv, Active
<1>5. SignalInv'
  BY DEF SignalInv, Swallowed
<1>6. AnswerInv'
  BY DEF AnswerInv, Ended
<1>7. QED
  BY <1>1, <1>2, <1>3, <1>4, <1>5, <1>6

\* Before the command starts nothing was called.
LEMMA InitHolds == Init => IInv
<1> SUFFICES ASSUME Init PROVE IInv
  OBVIOUS
<1> USE CallAssumption, NoneAssumption DEF Init, Call, Over
<1>1. TypeInv
  BY DEF TypeInv, Phases, Awaits, Endings
<1>2. HomeInv
  BY DEF HomeInv
<1>3. CallInv
  BY DEF CallInv, Active
<1>4. PhaseInv
  BY DEF PhaseInv, Active
<1>5. SignalInv
  BY DEF SignalInv, Swallowed
<1>6. AnswerInv
  BY DEF AnswerInv, Ended
<1>7. QED
  BY <1>1, <1>2, <1>3, <1>4, <1>5, <1>6 DEF IInv

\* Every step of a call, a timer, the command or a signal keeps the invariant.
LEMMA Inductive == IInv /\ [Next]_vars => IInv'
<1> SUFFICES ASSUME IInv, [Next]_vars PROVE IInv'
  OBVIOUS
<1>1. ASSUME NEW c \in Call, Step(c) PROVE IInv'
  BY <1>1, PrepareHomeKeeps, CopyReturnsKeeps, OpenKeeps, WorkKeeps, CloseKeeps,
     CloseOutputStreamsKeeps, RaiseKeeps DEF Step
<1>2. ASSUME NEW c \in Call, CopyEnds(c) \/ Expire(c) PROVE IInv'
  BY <1>2, CopyEndsKeeps, ExpireKeeps
<1>3. CASE Command
  BY <1>3, StartCommandKeeps, EndInventoryKeeps, DispatchKeeps, AbortKeeps, EndCallsKeeps,
     GoOnKeeps DEF Command
<1>4. CASE Signal
  BY <1>4, SignalKeeps
<1>5. CASE UNCHANGED vars
  BY <1>5, StutterKeeps
<1>6. QED
  BY <1>1, <1>2, <1>3, <1>4, <1>5 DEF Next

\* The inductive invariant of the calls of a command.
LEMMA Invariance == Spec => []IInv
<1>1. QED
  BY InitHolds, Inductive, PTL DEF Spec
-----------------------------------------------------------------------------
(* What the calls promise.                                                 *)

\* No Codex process runs on a home that is being copied: only the inventory
\* copies it, under _staging_lock, and turns are dispatched when it is whole.
THEOREM HomeIsWhole == Spec => []SessionsSeeWholeHome
<1>1. IInv => SessionsSeeWholeHome
  BY DEF IInv, HomeInv, SessionsSeeWholeHome
<1>2. QED
  BY <1>1, Invariance, PTL

\* A batch of readers, of any size, or a writer that comes back has one result per
\* item, the turn's own, and a cancelled one only beside a failed one.
THEOREM ItemsAreAnswered == Spec => []EveryItemIsAnswered
<1>1. ASSUME IInv, phase = "returned", use # "planner"
      PROVE  /\ DOMAIN results = members
             /\ \A i \in members : results[i] = outcome[i]
             /\ (\E i \in members : results[i] = "cancelled") =>
                  \E i \in members : results[i] = "failed"
  <2>1. members \in SUBSET Item /\ use \in {"planner", "writer", "batch"}
    BY <1>1 DEF IInv, TypeInv
  <2>2. \A i \in Item : at[i] = "ended" <=> i \in members
    <3>1. \A i \in Item : ~Active(i)
      BY <1>1, CallAssumption DEF IInv, PhaseInv, Call
    <3>2. QED
      BY <1>1, <3>1 DEF IInv, PhaseInv, Active
  <2>3. /\ DOMAIN results =
             {i \in Item : at[i] = "ended" /\ (use = "batch" \/ outcome[i] # "cancelled")}
        /\ \A i \in DOMAIN results : results[i] = outcome[i]
    BY <1>1 DEF IInv, AnswerInv
  <2>4. /\ use = "writer" => \A i \in members : outcome[i] # "cancelled"
        /\ (\E i \in members : outcome[i] = "cancelled") =>
             \E i \in members : outcome[i] = "failed"
    BY <1>1, <2>1 DEF IInv, AnswerInv, Ended
  <2>5. DOMAIN results = members
    BY <1>1, <2>1, <2>2, <2>3, <2>4
  <2>6. QED
    BY <2>3, <2>4, <2>5
<1>2. IInv => EveryItemIsAnswered
  BY <1>1 DEF EveryItemIsAnswered
<1>3. QED
  BY <1>2, Invariance, PTL

\* When its calls are over the command has no task left, and no session but one whose
\* __aexit__ failed or that was hit by a cancellation in its __aenter__ or __aexit__.
THEOREM CallsEnd == Spec => []NothingIsLeftRunning
<1>1. ASSUME IInv, phase \in Over \cup {"returned"}, NEW c \in Call
      PROVE  ~Active(c) /\ session[c] # "open"
  <2>1. ~Active(c)
    BY <1>1 DEF IInv, PhaseInv, Over
  <2>2. QED
    BY <1>1, <2>1 DEF IInv, CallInv, Active
<1>2. IInv => NothingIsLeftRunning
  BY <1>1 DEF NothingIsLeftRunning
<1>3. QED
  BY <1>2, Invariance, PTL

(***************************************************************************)
(* Neither the timeout of a call nor the group of a batch swallows the     *)
(* cancellation of a signal.  Only an exception of entering or leaving the *)
(* session in a writer's call does, which _run_one turns into a failed     *)
(* result of that writer.                                                  *)
(***************************************************************************)
THEOREM SignalsStop == Spec => []SignalStopsCommand
<1>1. IInv => SignalStopsCommand
  BY DEF IInv, SignalInv, Swallowed, SignalStopsCommand
<1>2. QED
  BY <1>1, Invariance, PTL
=============================================================================
