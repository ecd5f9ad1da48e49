-------------------------- MODULE MCProductLifecycle --------------------------
(* Small instances of ProductLifecycle for TLC.                            *)
EXTENDS ProductLifecycle, TLC

Symmetry == Permutations(Release)
=============================================================================
