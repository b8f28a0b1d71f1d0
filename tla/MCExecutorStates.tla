-------------------------- MODULE MCExecutorStates --------------------------
(* ExecutorStates with symmetric states for TLC. *)
EXTENDS ExecutorStates, TLC

\* The addresses of the states other than the first, and the seeds, are
\* interchangeable.
Symmetry == Permutations(Normal \ {InitialState}) \cup Permutations(Seed)
=============================================================================
