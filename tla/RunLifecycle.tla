---------------------------- MODULE RunLifecycle ----------------------------
(***************************************************************************)
(* What GoalRouter promises about each run, whoever works on it and how    *)
(* often: a run is planned once; an item gets one outcome, ever, and only  *)
(* when its dependencies allow it; an objective is reviewed after, and     *)
(* only after, all of its base work succeeded.                             *)
(***************************************************************************)
EXTENDS RunModel

CONSTANTS Run, None

VARIABLE run   \* each run's plan, review flag and outcomes; None before it exists

Recorded == [plan: Plan, reviewed: BOOLEAN, results: [Item -> Outcome \cup {"none"}]]

LifecycleTypeOK == run \in [Run -> Recorded \cup {None}]

Init == run = [r \in Run |-> None]

Create(r) ==
  \E plan \in Plans :
    /\ run[r] = None
    /\ run' = [run EXCEPT ![r] = [plan |-> plan, reviewed |-> FALSE,
                                  results |-> [i \in Item |-> "none"]]]

Decide(r, i, outcome) ==
  /\ run[r].results[i] = "none"
  /\ run' = [run EXCEPT ![r].results[i] = outcome]

Finish(r) ==
  /\ run[r] # None
  /\ \E i \in WorkItems(run[r]), outcome \in {"succeeded", "failed"} :
       /\ \A d \in Dependencies(run[r], i) : Succeeded(run[r], d)
       /\ Decide(r, i, outcome)

Block(r) ==
  /\ run[r] # None
  /\ \E i \in WorkItems(run[r]) :
       /\ \E d \in Dependencies(run[r], i) : run[r].results[d] \in {"failed", "blocked"}
       /\ Decide(r, i, "blocked")

AppendReview(r) ==
  /\ run[r] # None
  /\ ~run[r].plan.explicit
  /\ ~run[r].reviewed
  /\ \A i \in run[r].plan.items : Succeeded(run[r], i)
  /\ run' = [run EXCEPT ![r].reviewed = TRUE]

Next == \E r \in Run : Create(r) \/ Finish(r) \/ Block(r) \/ AppendReview(r)

Spec == Init /\ [][Next]_run
=============================================================================
