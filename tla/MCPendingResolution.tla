---- MODULE MCPendingResolution ----
EXTENDS PendingResolution

\* m0 was deferred earlier; m1 agrees with it, m2 is about another event.
MCFrame == [m \in Message |->
    [d \in Dimension |->
        CASE m = "m0" /\ d = "object" -> "beijing"
          [] m = "m1" /\ d = "object" -> "beijing"
          [] m = "m1" /\ d = "predicate" -> "travel"
          [] m = "m2" /\ d = "predicate" -> "meet"
          [] OTHER -> Unknown]]
Writers == Permutations(Process)
MCDeferred == [i \in Waiting |-> "m0"]
MCConflicts == [i \in Waiting |-> IF i = "i" THEN Stored ELSE {"a"}]
====
