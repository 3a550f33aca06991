---------------------------- MODULE TaskOutcomes ----------------------------
(***************************************************************************)
(* What the task runtime promises about the tasks of accepted Plans, with  *)
(* no attempts, leases, drivers or time: every task is decided at most     *)
(* once and for good, a success names the one attempt it was taken from,   *)
(* and nothing is decided before its dependencies have succeeded.          *)
(***************************************************************************)
EXTENDS Naturals

CONSTANTS Task, DependsOn

VARIABLES
    verdict,    \* [Task -> {"open", "succeeded", "failed"}]
    winner      \* [Task -> Nat]: the attempt a success was taken from, or 0

vars == <<verdict, winner>>

Init ==
    /\ verdict = [t \in Task |-> "open"]
    /\ winner = [t \in Task |-> 0]

Decidable(t) ==
    /\ verdict[t] = "open"
    /\ \A u \in DependsOn[t] : verdict[u] = "succeeded"

\* A batch of tasks is decided at once.
Decide(success, failure) ==
    /\ success \cap failure = {}
    /\ \A t \in success \cup failure : Decidable(t)
    /\ verdict' = [t \in Task |->
         IF t \in success THEN "succeeded"
         ELSE IF t \in failure THEN "failed" ELSE verdict[t]]
    /\ \A t \in Task : IF t \in success THEN winner'[t] \in Nat \ {0}
                                        ELSE winner'[t] = winner[t]
    /\ DOMAIN winner' = Task

Next == \E success, failure \in SUBSET Task : Decide(success, failure)

Spec == Init /\ [][Next]_vars
=============================================================================
