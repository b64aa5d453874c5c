---------------------------- MODULE MCExecutions ----------------------------
(* Instances of Executions, and with it of ProcessManager, for TLC.        *)
EXTENDS Executions, TLC

Symmetry == Permutations(Procs) \cup Permutations(Requests)
              \cup Permutations(Hashes)
=============================================================================
