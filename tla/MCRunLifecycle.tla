--------------------------- MODULE MCRunLifecycle ---------------------------
(* Instances of RunLifecycle for TLC. *)
EXTENDS RunLifecycle, TLC

CONSTANTS p1, p2, p3, d1, d2

\* Drivers are interchangeable, and so are the plans without a boundary.
Symmetry == Permutations({d1, d2}) \cup Permutations({p1, p2})

\* fixed_fanout plans have no boundary, an agent_loop plan has its own.
NoBoundary == (p1 :> "none") @@ (p2 :> "none")
TwoBoundaries == (p1 :> "none") @@ (p3 :> "seeds")
MixedBoundary == NoBoundary @@ (p3 :> "seeds")
=============================================================================
