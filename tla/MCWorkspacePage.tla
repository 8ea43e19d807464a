-------------------------- MODULE MCWorkspacePage --------------------------
(* Values for model checking WorkspacePage. *)
EXTENDS WorkspacePage, TLC

Symmetry == Permutations(Producers) \cup Permutations(Sessions)
=============================================================================
