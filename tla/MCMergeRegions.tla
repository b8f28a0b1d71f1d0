--------------------------- MODULE MCMergeRegions ---------------------------
(* MergeRegions with symmetric states, handlers and close points for TLC. *)
EXTENDS MergeRegions, TLC

Symmetry == Permutations(State \ {InitialState}) \cup Permutations(Handler)
              \cup Permutations(ClosePoint)
=============================================================================
