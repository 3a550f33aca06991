---------------------------- MODULE MCAgentLoop ----------------------------
(* Instances of AgentLoop for TLC. *)
EXTENDS AgentLoop, TLC

CONSTANTS s1, s2, s3, web

\* One capability, which only the first seed is required to cover.
FirstRequired == [s \in Seed |-> IF s = s1 THEN Capability ELSE {}]
\* The seeds in the order of their ids.
ByName == [s \in Seed |-> IF s = s1 THEN 1 ELSE IF s = s2 THEN 2 ELSE 3]
Drivers == Permutations(Driver)
=============================================================================
