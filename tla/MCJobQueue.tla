----------------------------- MODULE MCJobQueue -----------------------------
(* JobQueue for TLC: worker ids are interchangeable. *)
EXTENDS JobQueue, TLC

Symmetry == Permutations(Workers)
=============================================================================
