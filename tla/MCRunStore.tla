------------------------------ MODULE MCRunStore ------------------------------
(* Small instances of RunStore for TLC.                                    *)
EXTENDS RunStore, TLC

CONSTANTS i1, i2

\* The second item needs the first; a run at its start and after the first item.
PairStates ==
  LET deps == i1 :> {} @@ i2 :> {i1} IN
  {[deps |-> deps, done |-> {}], [deps |-> deps, done |-> {i1}]}

Symmetry == Permutations(Writer)
=============================================================================
