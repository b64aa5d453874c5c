----------------------------- MODULE MCYarnQueue -----------------------------
(* Finite instances of YarnQueue: the jobs are interchangeable.            *)
EXTENDS YarnQueue, TLC

Symmetry == Permutations(Jobs)
=============================================================================
