---------------------------- MODULE MCGoalRouter ----------------------------
(* Small instances of GoalRouter for TLC.                                  *)
EXTENDS GoalRouterProps, TLC

CONSTANTS c1, c2

Objective(items, writers, deps) ==
  [explicit |-> FALSE, items |-> items, writers |-> writers,
   deps |-> [i \in Base |-> IF i \in DOMAIN deps THEN deps[i] ELSE {}]]

Task(item, writers) ==
  [explicit |-> TRUE, items |-> {item}, writers |-> writers,
   deps |-> [i \in Base |-> {}]]

TaskPlans == {Task(1, {1})}

\* A reader and the writer that needs it, and a task that writes.
WriterPlans == {Objective({1, 2}, {2}, 2 :> {1}), Task(1, {1})}

\* Reader, writer, reader in a chain.
ChainPlans == {Objective({1, 2, 3}, {2}, 2 :> {1} @@ 3 :> {2})}

\* More readers than a batch takes, a chain, and a task that only reads.
BatchPlans == ChainPlans \cup {Objective({1, 2, 3}, {}, <<>>), Task(1, {})}

\* c1 requires approval of item 2, which writes, c2 of the review.
TwoPolicies  == c1 :> {2} @@ c2 :> {0}
ReviewPolicy == [c \in Config |-> {0}]
NoApprovals  == [c \in Config |-> {}]

\* Items whose routed sandbox can write.
FirstWrites  == [c \in Config |-> {1}]
SecondWrites == [c \in Config |-> {2}]

Symmetry == Permutations(Proc)
=============================================================================
