------------------------------ MODULE MCRoutedRun ------------------------------
(* Small instances of RoutedRun for TLC.                                   *)
EXTENDS RoutedRun, TLC
CONSTANTS low, mid, high, m1, m2, m3, t1, t2, security

Flags == {security, "destructive", "external-write"}

Ranked(l, m, h) == low :> [rank |-> l, model |-> m1] @@ mid :> [rank |-> m, model |-> m2]
                     @@ high :> [rank |-> h, model |-> m3]
WithoutHigh == low :> [rank |-> 1, model |-> m1] @@ mid :> [rank |-> 2, model |-> m2]

AnyPolicy(alias, sandbox, mode, destructive) ==
  [alias |-> alias, sandbox |-> sandbox, approval |-> mode, destructive |-> destructive,
   external |-> FALSE, escalation |-> None]
Reads == t1 :> AnyPolicy(low, "read-only", "automatic", FALSE)
Both  == Reads @@ t2 :> AnyPolicy(low, "workspace-write", "automatic", TRUE)
Tame  == Reads @@ t2 :> AnyPolicy(mid, "read-only", "required", FALSE)

Rule(flag, minimum, mode) == [flag |-> flag, minimum |-> minimum, approval |-> mode]
TwoFloors == <<Rule("destructive", high, None), Rule("destructive", mid, "required")>>
Secure    == <<Rule(security, mid, "automatic"), Rule("external-write", None, "required")>>

File(aliases, tasks, risks, completion) ==
  [default |-> t1, planner |-> t1, completion |-> completion, aliases |-> aliases,
   tasks |-> tasks, matching |-> {}, risks |-> risks]

\* Four sound configurations and four that have to be refused.
Files ==
  {File(Ranked(1, 2, 3), Both, TwoFloors, t1), File(Ranked(3, 2, 1), Both, TwoFloors, t2),
   File(Ranked(1, 2, 3), Tame, Secure, t2),    File(WithoutHigh, Reads, Secure, t1),
   File(Ranked(1, 2, 2), Both, TwoFloors, t1), File(Ranked(0, 2, 3), Both, Secure, t1),
   File(WithoutHigh, Both, TwoFloors, t1),     File(Ranked(1, 2, 3), Reads, Secure, t2)}

Sound(id, dependencies) ==
  [id |-> id, dependencies |-> dependencies, task |-> t1, flags |-> {}, access |-> "read-only",
   flawed |-> FALSE]

\* Every graph of at most three distinct items; lists that repeat an item or name an
\* unknown dependency; single items of every kind.
AnyLists ==
  {<<Sound(f[1], d[1]), Sound(f[2], d[2]), Sound(f[3], d[3])>> :
      f \in {g \in [1 .. 3 -> Id] : Cardinality({g[k] : k \in 1 .. 3}) = 3},
      d \in [1 .. 3 -> SUBSET Id]}
  \cup {<<Sound(i, d), Sound(j, e)>> : i, j \in Id, d, e \in SUBSET Id}
  \cup {<<[Sound(i, {}) EXCEPT !.task = t, !.flags = g, !.access = a, !.flawed = w]>> :
          i \in Id, t \in Task, g \in {{}, {security}, {"external-write", "destructive"}},
          a \in Access, w \in BOOLEAN}

AnyInventories == {{m1, m2, m3}, {m1, m2}, {m2, m3}}

Symmetry == Permutations(Id)
=============================================================================
