--------------------------- MODULE MCTaskRuntime ---------------------------
(* Instances of TaskRuntime for TLC. *)
EXTENDS TaskRuntime, TLC

CONSTANTS r1, r2, t1, t2, t3

\* The drivers are interchangeable.
Drivers == Permutations(Driver)

\* t2 and t3 depend on t1 (a Join's branches after a common root).  Next to
\* their run is one that is still being planned: it has no tasks yet.
OneRunOf == (t1 :> r1) @@ (t2 :> r1) @@ (t3 :> r1)
ForkDependsOn == (t1 :> {}) @@ (t2 :> {t1}) @@ (t3 :> {t1})
ForkDepth == (t1 :> 1) @@ (t2 :> 2) @@ (t3 :> 2)
=============================================================================
