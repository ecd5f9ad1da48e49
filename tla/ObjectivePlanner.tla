--------------------------- MODULE ObjectivePlanner ---------------------------
(***************************************************************************)
(* StructuredPlanner.plan: one Codex turn proposes a list of work items,   *)
(* one correction is allowed when the response is structurally invalid,    *)
(* and a list is accepted item by item and then by a depth-first search    *)
(* for dependency cycles.  The search is modelled step by step, each call  *)
(* of visit as a frame of a stack, against a definition of what a plan is. *)
(***************************************************************************)
EXTENDS RoutingPolicy, FiniteSets

VARIABLES
  known,      \* config.tasks
  pc,
  corrected,  \* is this the turn that corrects the first?
  items,      \* the list under examination
  at,         \* index of the item under examination
  seen,       \* identifiers of the items accepted so far
  visiting, visited,
  stack       \* frames of visit: an item and the dependencies still to visit

search == <<at, seen, visiting, visited, stack>>
vars == <<known, pc, corrected, items, search>>

Pc == {"turn", "items", "cycles", "accepted", "rejected", "unanswered"}

Init ==
  /\ known \subseteq Task
  /\ pc = "turn"
  /\ corrected = FALSE
  /\ items = <<>>
  /\ at = 1
  /\ seen = {}
  /\ visiting = {}
  /\ visited = {}
  /\ stack = <<>>

-----------------------------------------------------------------------------
(* The turns.                                                              *)

\* run_new_thread or resume_thread answers with a list, a refused list included.
Answer ==
  /\ pc = "turn"
  /\ items' \in Lists
  /\ pc' = "items"
  /\ UNCHANGED <<known, corrected, search>>

\* No response, no JSON or a schema violation: corrected once, in the same thread.
AnswerIsMalformed ==
  /\ pc = "turn"
  /\ \/ ~corrected /\ corrected' = TRUE /\ UNCHANGED pc
     \/ pc' = "unanswered" /\ UNCHANGED corrected
  /\ UNCHANGED <<known, items, search>>

-----------------------------------------------------------------------------
(* _parse_semantic_work_items                                              *)

ReadItem ==
  /\ pc = "items"
  /\ at <= Len(items)
  /\ IF items[at].flawed \/ items[at].id \in seen \/ items[at].task \notin known
       THEN pc' = "rejected" /\ UNCHANGED <<at, seen>>
       ELSE /\ seen' = seen \cup {items[at].id}
            /\ at' = at + 1
            /\ UNCHANGED pc
  /\ UNCHANGED <<known, corrected, items, visiting, visited, stack>>

CheckDependencies ==
  /\ pc = "items"
  /\ at > Len(items)
  /\ pc' = IF \A k \in DOMAIN items : items[k].dependencies \subseteq seen
             THEN "cycles" ELSE "rejected"
  /\ at' = 1
  /\ UNCHANGED <<known, corrected, items, seen, visiting, visited, stack>>

DependenciesOf(id) == UNION {items[k].dependencies : k \in {j \in DOMAIN items : items[j].id = id}}

\* Mutant of Visit: an item counts as visited as soon as it is entered.
VisitMarkedEarly(id, frames) ==
  IF id \in visited
    THEN stack' = frames /\ UNCHANGED <<pc, visiting, visited>>
    ELSE /\ visited' = visited \cup {id}
         /\ stack' = Append(frames, [item |-> id, rest |-> DependenciesOf(id)])
         /\ UNCHANGED <<pc, visiting>>

\* A call of visit, with the frames of its callers.
Visit(id, frames) ==
  CASE id \in visiting ->
         pc' = "rejected" /\ stack' = frames /\ UNCHANGED <<visiting, visited>>
    [] id \in visited \ visiting ->
         stack' = frames /\ UNCHANGED <<pc, visiting, visited>>
    [] OTHER ->
         /\ visiting' = visiting \cup {id}
         /\ stack' = Append(frames, [item |-> id, rest |-> DependenciesOf(id)])
         /\ UNCHANGED <<pc, visited>>

VisitNextItem ==
  /\ pc = "cycles"
  /\ stack = <<>>
  /\ at <= Len(items)
  /\ Visit(items[at].id, <<>>)
  /\ at' = at + 1
  /\ UNCHANGED <<known, corrected, items, seen>>

Top == stack[Len(stack)]
Callers == SubSeq(stack, 1, Len(stack) - 1)

VisitDependency ==
  /\ pc = "cycles"
  /\ stack # <<>>
  /\ \E d \in Top.rest : Visit(d, Append(Callers, [Top EXCEPT !.rest = @ \ {d}]))
  /\ UNCHANGED <<known, corrected, items, at, seen>>

\* visit returns.
Leave ==
  /\ pc = "cycles"
  /\ stack # <<>> /\ Top.rest = {}
  /\ visiting' = visiting \ {Top.item}
  /\ visited' = visited \cup {Top.item}
  /\ stack' = Callers
  /\ UNCHANGED <<known, pc, corrected, items, at, seen>>

Accept ==
  /\ pc = "cycles"
  /\ stack = <<>>
  /\ at > Len(items)
  /\ pc' = "accepted"
  /\ UNCHANGED <<known, corrected, items, search>>

Next ==
  \/ Answer \/ AnswerIsMalformed
  \/ ReadItem \/ CheckDependencies
  \/ VisitNextItem \/ VisitDependency \/ Leave \/ Accept

Spec == Init /\ [][Next]_vars

-----------------------------------------------------------------------------
(* Properties.                                                             *)

\* Every set of items has one that depends on none of the set.
Acyclic ==
  \A S \in SUBSET {items[k].id : k \in DOMAIN items} :
    S # {} => \E id \in S : DependenciesOf(id) \cap S = {}

\* What the scheduler relies on: distinct sound items, known dependencies, no cycle.
IsPlan ==
  /\ \A k \in DOMAIN items :
       /\ ~items[k].flawed
       /\ items[k].task \in known
       /\ items[k].dependencies \subseteq {items[j].id : j \in DOMAIN items}
       /\ \A j \in DOMAIN items : items[j].id = items[k].id => j = k
  /\ Acyclic

\* The search finds every cycle, wherever it starts and whatever it visited before.
AcceptedIsPlan == pc = "accepted" => IsPlan

\* It takes nothing else for a cycle, shared dependencies included.
RejectedIsNoPlan == pc = "rejected" => ~IsPlan
=============================================================================
