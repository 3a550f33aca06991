--------------------------- MODULE MCMemoryStore ---------------------------
(* Model values and symmetry for the runs of MemoryStore. *)
EXTENDS MemoryStore
CONSTANTS c1, c2, q1, q2, m1, m2, m3
Symmetry == Permutations({c1, c2}) \cup Permutations({q1, q2}) \cup Permutations({m2, m3})
=============================================================================
