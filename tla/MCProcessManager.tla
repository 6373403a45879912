-------------------------- MODULE MCProcessManager --------------------------
(* Instances of ProcessManager for TLC. *)
EXTENDS ProcessManager, TLC

\* Children, descriptors and calling threads are interchangeable.
Symmetry == Permutations(Pids) \cup Permutations(FDs) \cup Permutations(Users)
=============================================================================
