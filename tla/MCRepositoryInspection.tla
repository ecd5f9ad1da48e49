----------------------- MODULE MCRepositoryInspection -----------------------
(* Small instances of RepositoryInspection for TLC.                        *)
EXTENDS RepositoryInspection, TLC

\* The contents of files, and the paths that are neither nested nor skippable.
Symmetry ==
  Permutations(File) \cup Permutations(Path \ (Nested \cup Skippable))
=============================================================================
