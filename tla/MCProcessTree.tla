--------------------------- MODULE MCProcessTree ---------------------------
(* Instances of ProcessTree for TLC. *)
EXTENDS ProcessTree, TLC

CONSTANTS n1, n2, n3, n4, n5, s1, s2, s3, rp1, rp2

Nodes5 == {n1, n2, n3, n4, n5}
States3 == {s1, s2, s3}
Searchers2 == {rp1, rp2}

(* s1 is the initial state; the other states, the nodes and the searchers  *)
(* are interchangeable.                                                    *)
Symmetry == Permutations(Nodes5) \cup Permutations({s2, s3})
              \cup Permutations(Searchers2)
=============================================================================
