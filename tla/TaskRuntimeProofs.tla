------------------------- MODULE TaskRuntimeProofs -------------------------
(***************************************************************************)
(* Proofs about TaskRuntime, for every set of runs, tasks and drivers, any *)
(* dependency graph and any limits.                                        *)
(*                                                                         *)
(* The inductive invariant IInv says, besides the types, what the rows of  *)
(* one task have to do with each other (RowsOK) and with the attempts that *)
(* drivers hold in memory (HeldOK).  RowsOK is stated of values, so that   *)
(* the recovery, the opening of an attempt and the acceptance of a result  *)
(* are each one lemma about values, used by every action they occur in.    *)
(***************************************************************************)
EXTENDS TaskRuntime, SequenceTheorems, TLAPS

TaskRow == [state : TaskState, tries : Nat, accepted : Nat]

(***************************************************************************)
(* row is a task's row, att its attempts and lea its leases by epoch.      *)
(***************************************************************************)
RowsOK(row, att, lea) ==
    /\ Len(att) = Len(lea)
    /\ \A e \in 1..Len(att) :
         e < Len(att) => att[e] # "dispatched" /\ lea[e] # "claimed"
    /\ Len(att) > 0 /\ lea[Len(att)] = "claimed" => att[Len(att)] = "dispatched"
    /\ Len(att) > 0 /\ att[Len(att)] = "dispatched" => row.state = "dispatched"
    /\ \A e \in 1..Len(att) : att[e] = "succeeded" <=>
         row.state = "succeeded" /\ row.accepted = e /\ e = Len(att)
    /\ row.state \in {"awaiting_retry", "ready"} =>
         row.tries < MaxAttempts /\ Len(att) > 0 /\ att[Len(att)] = "failed"

(***************************************************************************)
(* What a driver holds is an attempt nobody has decided, and no two hold   *)
(* the same one.                                                           *)
(***************************************************************************)
HeldOK ==
    \A d \in Driver, t \in Task : driver[d].held[t] > 0 =>
        /\ driver[d].held[t] <= Len(attempts[t])
        /\ attempts[t][driver[d].held[t]] \in {"dispatched", "expired"}
        /\ \A c \in Driver : driver[c].held[t] = driver[d].held[t] => c = d

IInv ==
    /\ TypeOK
    /\ \A t \in Task : RowsOK(task[t], attempts[t], leases[t])
    /\ HeldOK
    /\ DependenciesFirst

-----------------------------------------------------------------------------
(* A function on 1..n is a sequence of length n. *)
LEMMA FunctionIsSeq ==
    ASSUME NEW S, NEW n \in Nat, NEW f \in [1..n -> S]
    PROVE  f \in Seq(S) /\ Len(f) = n
  OBVIOUS

(* Appending, value by value. *)
LEMMA AppendValues ==
    ASSUME NEW S, NEW s \in Seq(S), NEW x \in S
    PROVE  /\ Append(s, x) \in Seq(S)
           /\ Len(Append(s, x)) = Len(s) + 1
           /\ \A i \in 1..Len(s) : Append(s, x)[i] = s[i]
           /\ Append(s, x)[Len(s) + 1] = x
  OBVIOUS

(* What the recovery leaves of one task's rows, value by value. *)
LEMMA RecoveryValues ==
    ASSUME TypeOK, NEW r \in Run, NEW t \in Task
    PROVE  /\ SweptLeases[t] \in Seq(LeaseState)
           /\ Len(SweptLeases[t]) = Len(leases[t])
           /\ \A e \in 1..Len(leases[t]) :
                SweptLeases[t][e] = IF t \in Swept /\ e = Len(leases[t])
                                    THEN "expired" ELSE leases[t][e]
           /\ RecoveredAttempts(r)[t] \in Seq(AttemptState)
           /\ Len(RecoveredAttempts(r)[t]) = Len(attempts[t])
           /\ \A e \in 1..Len(attempts[t]) :
                RecoveredAttempts(r)[t][e] =
                    IF t \in Requeued(r) /\ IsActiveAttempt(t, e)
                    THEN "expired" ELSE attempts[t][e]
<1>1. leases[t] \in Seq(LeaseState) /\ attempts[t] \in Seq(AttemptState)
  BY DEF TypeOK
<1>2. /\ SweptLeases[t] \in Seq(LeaseState)
      /\ Len(SweptLeases[t]) = Len(leases[t])
      /\ \A e \in 1..Len(leases[t]) :
           SweptLeases[t][e] = IF t \in Swept /\ e = Len(leases[t])
                               THEN "expired" ELSE leases[t][e]
  <2>1. CASE t \in Swept
    <3>1. Len(leases[t]) \in 1..Len(leases[t])
      BY <1>1, <2>1 DEF Swept, LeaseActive, Epoch
    <3>2. "expired" \in LeaseState
      BY DEF LeaseState
    <3>3. SweptLeases[t] = [leases[t] EXCEPT ![Len(leases[t])] = "expired"]
      BY <2>1 DEF SweptLeases, Epoch
    <3>. QED BY <1>1, <2>1, <3>1, <3>2, <3>3, ExceptSeq
  <2>2. CASE t \notin Swept
    BY <1>1, <2>2 DEF SweptLeases
  <2>. QED BY <2>1, <2>2
<1>3. DEFINE f == [e \in 1..Len(attempts[t]) |->
                     IF t \in Requeued(r) /\ IsActiveAttempt(t, e)
                     THEN "expired" ELSE attempts[t][e]]
<1>4. RecoveredAttempts(r)[t] = f
  BY DEF RecoveredAttempts
<1>5. f \in [1..Len(attempts[t]) -> AttemptState]
  BY <1>1 DEF AttemptState
<1>6. Len(attempts[t]) \in Nat
  BY <1>1
<1>7. f \in Seq(AttemptState) /\ Len(f) = Len(attempts[t])
  BY <1>5, <1>6, FunctionIsSeq
<1>. QED BY <1>2, <1>4, <1>7

(* The recovery keeps RowsOK, and leaves nothing open in a requeued task. *)
LEMMA RecoveredRows ==
    ASSUME TypeOK, NEW r \in Run, NEW t \in Task,
           RowsOK(task[t], attempts[t], leases[t])
    PROVE  /\ RecoveredTasks(r)[t] \in TaskRow
           /\ ReadmittedTasks(r)[t] \in TaskRow
           /\ RowsOK(RecoveredTasks(r)[t], RecoveredAttempts(r)[t], SweptLeases[t])
           /\ RowsOK(ReadmittedTasks(r)[t], RecoveredAttempts(r)[t], SweptLeases[t])
<1>1. /\ task[t] \in TaskRow
      /\ leases[t] \in Seq(LeaseState) /\ attempts[t] \in Seq(AttemptState)
  BY DEF TypeOK, TaskRow
<1>2. /\ RecoveredTasks(r)[t] = IF t \in Requeued(r)
                                THEN [task[t] EXCEPT !.state = "pending"] ELSE task[t]
      /\ ReadmittedTasks(r)[t] = IF t \in Readmitted(r)
                                 THEN [task[t] EXCEPT !.state = "ready"]
                                 ELSE RecoveredTasks(r)[t]
  BY DEF RecoveredTasks, ReadmittedTasks
<1>3. RecoveredTasks(r)[t] \in TaskRow /\ ReadmittedTasks(r)[t] \in TaskRow
  BY <1>1, <1>2 DEF TaskRow, TaskState
<1>4. t \in Swept => /\ Len(attempts[t]) > 0
                     /\ leases[t][Len(attempts[t])] = "claimed"
                     /\ attempts[t][Len(attempts[t])] = "dispatched"
                     /\ task[t].state = "dispatched"
                     /\ IsActiveAttempt(t, Len(attempts[t]))
  BY <1>1 DEF Swept, LeaseActive, Epoch, RowsOK, IsActiveAttempt, Open
<1>5. t \in Requeued(r) => t \in Swept
  BY DEF Requeued
<1>6. t \in Readmitted(r) => t \notin Requeued(r) /\ task[t].state = "awaiting_retry"
  BY DEF Requeued, Readmitted
<1>7. RowsOK(RecoveredTasks(r)[t], RecoveredAttempts(r)[t], SweptLeases[t])
  BY <1>1, <1>2, <1>4, <1>5, RecoveryValues DEF RowsOK, TaskRow
<1>8. RowsOK(ReadmittedTasks(r)[t], RecoveredAttempts(r)[t], SweptLeases[t])
  BY <1>1, <1>2, <1>6, <1>7 DEF RowsOK, TaskRow
<1>. QED BY <1>3, <1>7, <1>8

(* Opening an attempt of a task that has none open keeps RowsOK. *)
LEMMA OpenedRows ==
    ASSUME NEW row \in TaskRow, NEW new \in TaskRow,
           NEW att \in Seq(AttemptState), NEW lea \in Seq(LeaseState),
           RowsOK(row, att, lea), row.state \in {"pending", "ready"},
           new.state = "dispatched"
    PROVE  RowsOK(new, Append(att, "dispatched"), Append(lea, "claimed"))
  BY AppendValues DEF RowsOK, AttemptState, LeaseState, TaskRow

(* Replacing one entry, value by value. *)
LEMMA ReplacedValues ==
    ASSUME NEW S, NEW s \in Seq(S), NEW e \in 1..Len(s), NEW x \in S
    PROVE  /\ [s EXCEPT ![e] = x] \in Seq(S)
           /\ Len([s EXCEPT ![e] = x]) = Len(s)
           /\ \A i \in 1..Len(s) : [s EXCEPT ![e] = x][i] = IF i = e THEN x ELSE s[i]
  BY ExceptSeq

(* Deciding the newest attempt of a task and releasing its lease. *)
LEMMA DecidedRows ==
    ASSUME NEW row \in TaskRow, NEW new \in TaskRow,
           NEW att \in Seq(AttemptState), NEW att2 \in Seq(AttemptState),
           NEW lea \in Seq(LeaseState), NEW lea2 \in Seq(LeaseState),
           NEW a \in {"succeeded", "failed"},
           RowsOK(row, att, lea), Len(att) > 0,
           IF a = "succeeded"
           THEN new.state = "succeeded" /\ new.accepted = Len(att)
           ELSE /\ new.state \in {"awaiting_retry", "failed"}
                /\ new.state = "awaiting_retry" => new.tries < MaxAttempts,
           row.state = "dispatched",
           Len(att2) = Len(att),
           \A i \in 1..Len(att) : att2[i] = IF i = Len(att) THEN a ELSE att[i],
           Len(lea2) = Len(lea),
           \A i \in 1..Len(lea) :
               lea2[i] = IF i = Len(att) THEN "released" ELSE lea[i]
    PROVE  RowsOK(new, att2, lea2)
  BY DEF RowsOK

(* Rejecting a late result marks its attempt alone. *)
LEMMA RejectedRows ==
    ASSUME NEW row \in TaskRow,
           NEW att \in Seq(AttemptState), NEW lea \in Seq(LeaseState),
           NEW e \in 1..Len(att),
           RowsOK(row, att, lea), att[e] \in {"dispatched", "expired"},
           ~(e = Len(att) /\ lea[e] = "claimed")
    PROVE  RowsOK(row, [att EXCEPT ![e] = "rejected"], lea)
<1>1. "rejected" \in AttemptState
  BY DEF AttemptState
<1>2. DEFINE att2 == [att EXCEPT ![e] = "rejected"]
<1>3. /\ Len(att2) = Len(att)
      /\ \A i \in 1..Len(att) : att2[i] = IF i = e THEN "rejected" ELSE att[i]
  BY <1>1, ReplacedValues
<1>. HIDE DEF att2
<1>4. Len(att) \in Nat
  OBVIOUS
<1>5. RowsOK(row, att2, lea)
  BY <1>3, <1>4 DEF RowsOK
<1>. QED BY <1>5 DEF att2

-----------------------------------------------------------------------------
(* A workspace in which no run has started satisfies the inductive invariant. *)
THEOREM InitInvariant == Init => IInv
<1>. SUFFICES ASSUME Init PROVE IInv
  OBVIOUS
<1>1. TypeOK
  BY TaskGraphAssumption
     DEF Init, TypeOK, TaskState, AttemptState, LeaseState, RunState, Idle
<1>2. \A t \in Task : RowsOK(task[t], attempts[t], leases[t])
  BY DEF Init, RowsOK
<1>3. HeldOK
  BY DEF Init, HeldOK, Idle
<1>4. DependenciesFirst
  BY DEF Init, DependenciesFirst
<1>. QED BY <1>1, <1>2, <1>3, <1>4 DEF IInv

(* Recovery changes no attempt of a task but an open one to expired. *)
LEMMA RecoveredHeld ==
    ASSUME TypeOK, HeldOK, NEW r \in Run, NEW d \in Driver, NEW t \in Task,
           driver[d].held[t] > 0
    PROVE  /\ driver[d].held[t] \in 1..Len(attempts[t])
           /\ RecoveredAttempts(r)[t][driver[d].held[t]] \in {"dispatched", "expired"}
<1>1. attempts[t] \in Seq(AttemptState) /\ driver[d].held[t] \in Nat
  BY DEF TypeOK
<1>2. driver[d].held[t] \in 1..Len(attempts[t])
  BY <1>1 DEF HeldOK
<1>. QED BY <1>1, <1>2, RecoveryValues DEF HeldOK

(* No recovery takes a success back. *)
LEMMA RecoveryKeepsSuccess ==
    ASSUME TypeOK, NEW r \in Run, NEW t \in Task, task[t].state = "succeeded"
    PROVE  ReadmittedTasks(r)[t] = task[t] /\ RecoveredTasks(r)[t] = task[t]
  BY DEF ReadmittedTasks, RecoveredTasks, Requeued, Readmitted

(* A dispatched task row is a task row: only its state and its count of tries move. *)
LEMMA DispatchedRow ==
    ASSUME NEW row \in TaskRow
    PROVE  /\ [row EXCEPT !.state = "dispatched", !.tries = @ + 1] \in TaskRow
           /\ [row EXCEPT !.state = "dispatched", !.tries = @ + 1].state = "dispatched"
<1>1. row.tries + 1 \in Nat
  BY DEF TaskRow
<1>2. \A n \in Nat : [row EXCEPT !.state = "dispatched", !.tries = n] \in TaskRow
  BY DEF TaskRow, TaskState
<1>3. [row EXCEPT !.state = "dispatched", !.tries = row.tries + 1] \in TaskRow
  BY <1>1, <1>2
<1>4. [row EXCEPT !.state = "dispatched", !.tries = @ + 1].state = "dispatched"
  BY DEF TaskRow
<1>. QED BY <1>3, <1>4

(* Dispatch, with the recovery and the readmission that open the tick. *)
LEMMA DispatchStep ==
    ASSUME TypeOK, \A t \in Task : RowsOK(task[t], attempts[t], leases[t]),
           HeldOK, DependenciesFirst,
           NEW d \in Driver, NEW r \in Run, Dispatch(d, r)
    PROVE  IInv'
<1>1. PICK S \in Batches(r) :
        /\ task' = [t \in Task |->
             IF t \in S
             THEN [ReadmittedTasks(r)[t] EXCEPT !.state = "dispatched",
                                                !.tries = @ + 1]
             ELSE ReadmittedTasks(r)[t]]
        /\ attempts' = [t \in Task |->
             IF t \in S THEN Append(RecoveredAttempts(r)[t], "dispatched")
                        ELSE RecoveredAttempts(r)[t]]
        /\ leases' = [t \in Task |->
             IF t \in S THEN Append(SweptLeases[t], "claimed")
                        ELSE SweptLeases[t]]
        /\ driver' = [driver EXCEPT ![d] =
             [run |-> r,
              held |-> [t \in Task |-> IF t \in S THEN Epoch(t) + 1 ELSE 0]]]
  BY DEF Dispatch
<1>2. S \subseteq Task /\ S \subseteq ReadyWork(r)
  BY DEF Batches, ReadyWork
<1>3. \A t \in S : /\ ReadmittedTasks(r)[t].state \in {"ready", "pending"}
                   /\ \A u \in DependsOn[t] : task[u].state = "succeeded"
  <2>. SUFFICES ASSUME NEW t \in S
                PROVE  /\ ReadmittedTasks(r)[t].state \in {"ready", "pending"}
                       /\ \A u \in DependsOn[t] : task[u].state = "succeeded"
    OBVIOUS
  <2>1. CASE ReadmittedTasks(r)[t].state = "ready"
    <3>1. RowsOK(ReadmittedTasks(r)[t], RecoveredAttempts(r)[t], SweptLeases[t])
      BY <1>2, RecoveredRows
    <3>2. Len(attempts[t]) > 0
      BY <1>2, <2>1, <3>1, RecoveryValues DEF RowsOK
    <3>. QED BY <1>2, <2>1, <3>2 DEF DependenciesFirst
  <2>2. CASE ReadmittedTasks(r)[t].state # "ready"
    BY <1>2, <2>2 DEF ReadyWork, Unblocked
  <2>. QED BY <2>1, <2>2
<1>4. \A t \in Task :
        /\ task'[t] \in TaskRow
        /\ attempts'[t] \in Seq(AttemptState)
        /\ leases'[t] \in Seq(LeaseState)
        /\ RowsOK(task'[t], attempts'[t], leases'[t])
  <2>. SUFFICES ASSUME NEW t \in Task
                PROVE  /\ task'[t] \in TaskRow
                       /\ attempts'[t] \in Seq(AttemptState)
                       /\ leases'[t] \in Seq(LeaseState)
                       /\ RowsOK(task'[t], attempts'[t], leases'[t])
    OBVIOUS
  <2>1. /\ ReadmittedTasks(r)[t] \in TaskRow
        /\ RowsOK(ReadmittedTasks(r)[t], RecoveredAttempts(r)[t], SweptLeases[t])
        /\ RecoveredAttempts(r)[t] \in Seq(AttemptState)
        /\ SweptLeases[t] \in Seq(LeaseState)
    BY RecoveredRows, RecoveryValues
  <2>2. CASE t \in S
    <3>1. /\ task'[t] = [ReadmittedTasks(r)[t] EXCEPT !.state = "dispatched",
                                                      !.tries = @ + 1]
          /\ attempts'[t] = Append(RecoveredAttempts(r)[t], "dispatched")
          /\ leases'[t] = Append(SweptLeases[t], "claimed")
      BY <1>1, <2>2
    <3>2. task'[t] \in TaskRow /\ task'[t].state = "dispatched"
      BY <2>1, <3>1, DispatchedRow
    <3>3. RowsOK(task'[t], Append(RecoveredAttempts(r)[t], "dispatched"),
                           Append(SweptLeases[t], "claimed"))
      <4>. DEFINE row == ReadmittedTasks(r)[t]
                  new == task'[t]
                  att == RecoveredAttempts(r)[t]
                  lea == SweptLeases[t]
      <4>1. /\ row \in TaskRow /\ new \in TaskRow
            /\ att \in Seq(AttemptState) /\ lea \in Seq(LeaseState)
            /\ RowsOK(row, att, lea)
            /\ row.state \in {"pending", "ready"} /\ new.state = "dispatched"
        BY <1>3, <2>1, <2>2, <3>2
      <4>. HIDE DEF row, new, att, lea
      <4>2. RowsOK(new, Append(att, "dispatched"), Append(lea, "claimed"))
        BY <4>1, OpenedRows
      <4>. QED BY <4>2 DEF row, new, att, lea
    <3>4. RowsOK(task'[t], attempts'[t], leases'[t])
      BY <3>1, <3>3, Zenon
    <3>5. "dispatched" \in AttemptState /\ "claimed" \in LeaseState
      BY DEF AttemptState, LeaseState
    <3>6. attempts'[t] \in Seq(AttemptState) /\ leases'[t] \in Seq(LeaseState)
      BY <2>1, <3>1, <3>5, AppendValues
    <3>. QED BY <3>2, <3>4, <3>6
  <2>3. CASE t \notin S
    BY <1>1, <2>1, <2>3
  <2>. QED BY <2>2, <2>3
<1>5. \A t \in Task : Epoch(t) = Len(attempts[t]) /\ Len(attempts[t]) \in Nat
  BY DEF Epoch, RowsOK, TypeOK
<1>. DEFINE H == [t \in Task |-> IF t \in S THEN Len(attempts[t]) + 1 ELSE 0]
<1>6. /\ H \in [Task -> Nat]
      /\ \A t \in Task : H[t] = IF t \in S THEN Len(attempts[t]) + 1 ELSE 0
  BY <1>5
<1>7. driver' = [driver EXCEPT ![d] = [run |-> r, held |-> H]]
  <2>1. H = [t \in Task |-> IF t \in S THEN Epoch(t) + 1 ELSE 0]
    BY <1>5
  <2>. HIDE DEF H
  <2>. QED BY <1>1, <2>1
<1>. HIDE DEF H
<1>8. TypeOK'
  <2>1. task' \in [Task -> TaskRow]
    BY <1>1, <1>4
  <2>2. attempts' \in [Task -> Seq(AttemptState)] /\ leases' \in [Task -> Seq(LeaseState)]
    BY <1>1, <1>4
  <2>3. driver' \in [Driver -> [run : Run \cup {NoRun}, held : [Task -> Nat]]]
    BY <1>6, <1>7 DEF TypeOK
  <2>4. /\ runState' \in [Run -> RunState]
        /\ pausedFrom' \in [Run -> RunState]
        /\ spent' \subseteq Run
        /\ overdue' \subseteq Run
        /\ lapsed' \subseteq Task
        /\ backedOff' \subseteq Task
        /\ crashes' \in Nat
        /\ slow' \in Nat
    BY DEF Dispatch, TypeOK
  <2>. QED BY <2>1, <2>2, <2>3, <2>4 DEF TypeOK, TaskRow
<1>9. HeldOK'
  <2>1. ASSUME NEW t \in Task, t \in S
        PROVE  /\ Len(attempts'[t]) = Len(attempts[t]) + 1
               /\ attempts'[t][Len(attempts[t]) + 1] = "dispatched"
               /\ \A e \in 1..Len(attempts[t]) :
                    attempts'[t][e] = RecoveredAttempts(r)[t][e]
    <3>1. attempts'[t] = Append(RecoveredAttempts(r)[t], "dispatched")
      BY <1>1, <2>1
    <3>2. /\ RecoveredAttempts(r)[t] \in Seq(AttemptState)
          /\ Len(RecoveredAttempts(r)[t]) = Len(attempts[t])
      BY RecoveryValues
    <3>3. "dispatched" \in AttemptState
      BY DEF AttemptState
    <3>. QED BY <3>1, <3>2, <3>3, AppendValues
  <2>2. ASSUME NEW t \in Task, t \notin S
        PROVE  /\ Len(attempts'[t]) = Len(attempts[t])
               /\ attempts'[t] = RecoveredAttempts(r)[t]
    BY <1>1, <2>2, RecoveryValues
  <2>3. ASSUME NEW c \in Driver, NEW t \in Task, driver[c].held[t] > 0
        PROVE  /\ driver[c].held[t] \in 1..Len(attempts[t])
               /\ driver[c].held[t] <= Len(attempts'[t])
               /\ attempts'[t][driver[c].held[t]] \in {"dispatched", "expired"}
    <3>1. /\ driver[c].held[t] \in 1..Len(attempts[t])
          /\ RecoveredAttempts(r)[t][driver[c].held[t]] \in {"dispatched", "expired"}
      BY <2>3, RecoveredHeld
    <3>. QED BY <1>5, <2>1, <2>2, <3>1
  <2>4. /\ driver'[d].held = H
        /\ \A c \in Driver : c # d => driver'[c] = driver[c]
    BY <1>7 DEF TypeOK
  <2>5. ASSUME NEW c \in Driver, NEW t \in Task, driver'[c].held[t] > 0
        PROVE  /\ driver'[c].held[t] <= Len(attempts'[t])
               /\ attempts'[t][driver'[c].held[t]] \in {"dispatched", "expired"}
    <3>1. CASE c = d
      BY <1>5, <1>6, <2>1, <2>4, <2>5, <3>1
    <3>2. CASE c # d
      BY <2>3, <2>4, <2>5, <3>2
    <3>. QED BY <3>1, <3>2
  <2>6. ASSUME NEW c \in Driver, NEW b \in Driver, NEW t \in Task,
               driver'[c].held[t] > 0, driver'[b].held[t] = driver'[c].held[t]
        PROVE  b = c
    <3>1. CASE c = d /\ b # d
      BY <1>5, <1>6, <2>3, <2>4, <2>6, <3>1
    <3>2. CASE c # d /\ b = d
      BY <1>5, <1>6, <2>3, <2>4, <2>6, <3>2
    <3>3. CASE c # d /\ b # d
      BY <2>4, <2>6, <3>3 DEF HeldOK
    <3>. QED BY <3>1, <3>2, <3>3
  <2>. QED BY <2>5, <2>6 DEF HeldOK
<1>10. DependenciesFirst'
  <2>. SUFFICES ASSUME NEW t \in Task, Len(attempts'[t]) > 0, NEW u \in DependsOn[t]
                PROVE  task'[u].state = "succeeded"
    BY DEF DependenciesFirst
  <2>1. t \in S \/ Len(attempts[t]) > 0
    BY <1>1, RecoveryValues
  <2>2. task[u].state = "succeeded" /\ u \in Task
    BY <1>3, <2>1, TaskGraphAssumption DEF DependenciesFirst
  <2>3. ReadmittedTasks(r)[u] = task[u]
    BY <2>2, RecoveryKeepsSuccess
  <2>4. u \notin S
    BY <1>3, <2>2, <2>3
  <2>. QED BY <1>1, <2>2, <2>3, <2>4
<1>. QED BY <1>4, <1>8, <1>9, <1>10 DEF IInv

(* Terminate commits the recovery alone. *)
LEMMA TerminateStep ==
    ASSUME TypeOK, \A t \in Task : RowsOK(task[t], attempts[t], leases[t]),
           HeldOK, DependenciesFirst,
           NEW d \in Driver, NEW r \in Run, Terminate(d, r)
    PROVE  IInv'
<1>1. /\ task' = RecoveredTasks(r)
      /\ attempts' = RecoveredAttempts(r)
      /\ leases' = SweptLeases
      /\ driver' = driver
  BY DEF Terminate
<1>2. \A t \in Task :
        /\ task'[t] \in TaskRow
        /\ attempts'[t] \in Seq(AttemptState)
        /\ leases'[t] \in Seq(LeaseState)
        /\ Len(attempts'[t]) = Len(attempts[t])
        /\ RowsOK(task'[t], attempts'[t], leases'[t])
  BY <1>1, RecoveredRows, RecoveryValues
<1>3. TypeOK'
  <2>1. /\ task' \in [Task -> TaskRow]
        /\ attempts' \in [Task -> Seq(AttemptState)]
        /\ leases' \in [Task -> Seq(LeaseState)]
    BY <1>1, <1>2 DEF RecoveredTasks, RecoveredAttempts, SweptLeases
  <2>2. /\ runState' \in [Run -> RunState]
        /\ pausedFrom' \in [Run -> RunState]
        /\ spent' \subseteq Run
        /\ overdue' \subseteq Run
        /\ driver' \in [Driver -> [run : Run \cup {NoRun}, held : [Task -> Nat]]]
        /\ lapsed' \subseteq Task
        /\ backedOff' \subseteq Task
        /\ crashes' \in Nat
        /\ slow' \in Nat
    BY DEF Terminate, TypeOK, RunState, Terminal
  <2>. QED BY <2>1, <2>2 DEF TypeOK, TaskRow
<1>4. HeldOK'
  BY <1>1, <1>2, RecoveredHeld DEF HeldOK
<1>5. DependenciesFirst'
  BY <1>1, <1>2, RecoveryKeepsSuccess, TaskGraphAssumption DEF DependenciesFirst
<1>. QED BY <1>2, <1>3, <1>4, <1>5 DEF IInv

(***************************************************************************)
(* Accept.  What a driver holds is either the newest attempt, open and     *)
(* under an active lease, and is decided; or it is marked rejected without *)
(* touching the rows that matter.                                          *)
(***************************************************************************)
LEMMA AcceptStep ==
    ASSUME TypeOK, \A t \in Task : RowsOK(task[t], attempts[t], leases[t]),
           HeldOK, DependenciesFirst,
           NEW d \in Driver, Accept(d)
    PROVE  IInv'
<1>1. PICK result \in [Valid(d) -> Outcome] :
        /\ task' = [t \in Task |->
             IF t \in Valid(d)
             THEN [task[t] EXCEPT
                     !.state = StateAfter(t, result[t]),
                     !.accepted = IF result[t] = "success"
                                  THEN driver[d].held[t] ELSE @]
             ELSE task[t]]
        /\ attempts' = [t \in Task |->
             IF t \in Held(d)
             THEN [attempts[t] EXCEPT ![driver[d].held[t]] =
                     IF t \in Valid(d) THEN AttemptAfter(result[t])
                                       ELSE "rejected"]
             ELSE attempts[t]]
        /\ leases' = [t \in Task |->
             IF t \in Valid(d) THEN ReleasedLease(t) ELSE leases[t]]
        /\ ConsumeUsage(driver[d].run, \E t \in Valid(d) : result[t] = "success")
  BY DEF Accept
<1>2. \A t \in Task : /\ task[t] \in TaskRow
                      /\ attempts[t] \in Seq(AttemptState)
                      /\ leases[t] \in Seq(LeaseState)
                      /\ Len(attempts[t]) = Len(leases[t])
  BY DEF TypeOK, TaskRow, RowsOK
<1>3. \A t \in Held(d) : /\ t \in Task
                         /\ driver[d].held[t] \in 1..Len(attempts[t])
                         /\ attempts[t][driver[d].held[t]] \in {"dispatched", "expired"}
  BY <1>2 DEF Held, HeldOK, TypeOK
<1>4. \A t \in Valid(d) : /\ t \in Held(d)
                          /\ driver[d].held[t] = Len(attempts[t])
                          /\ task[t].state = "dispatched"
  BY <1>2, <1>3 DEF Valid, Accepted, Epoch
<1>5. \A t \in Held(d) \ Valid(d) :
        ~(driver[d].held[t] = Len(attempts[t]) /\ leases[t][driver[d].held[t]] = "claimed")
  BY <1>2, <1>3 DEF Valid, Accepted, IsActiveAttempt, Open, Epoch, LeaseActive, RowsOK
<1>6. \A t \in Task :
        /\ task'[t] \in TaskRow
        /\ attempts'[t] \in Seq(AttemptState)
        /\ leases'[t] \in Seq(LeaseState)
        /\ Len(attempts'[t]) = Len(attempts[t])
        /\ \A e \in 1..Len(attempts[t]) :
             attempts'[t][e] # attempts[t][e] => t \in Held(d) /\ e = driver[d].held[t]
        /\ RowsOK(task'[t], attempts'[t], leases'[t])
  <2>. SUFFICES ASSUME NEW t \in Task
                PROVE  /\ task'[t] \in TaskRow
                       /\ attempts'[t] \in Seq(AttemptState)
                       /\ leases'[t] \in Seq(LeaseState)
                       /\ Len(attempts'[t]) = Len(attempts[t])
                       /\ \A e \in 1..Len(attempts[t]) :
                            attempts'[t][e] # attempts[t][e] =>
                                t \in Held(d) /\ e = driver[d].held[t]
                       /\ RowsOK(task'[t], attempts'[t], leases'[t])
    OBVIOUS
  <2>1. CASE t \in Valid(d)
    <3>. DEFINE a == AttemptAfter(result[t])
                n == Len(attempts[t])
                new == task'[t]
    <3>1. /\ n \in 1..Len(attempts[t]) /\ n \in 1..Len(leases[t]) /\ n \in Nat
          /\ driver[d].held[t] = n /\ t \in Held(d)
          /\ result[t] \in Outcome /\ task[t].state = "dispatched"
      BY <1>2, <1>3, <1>4, <2>1
    <3>2. /\ a \in {"succeeded", "failed"}
          /\ a = "succeeded" <=> result[t] = "success"
          /\ a \in AttemptState /\ "released" \in LeaseState
      BY DEF AttemptAfter, AttemptState, LeaseState
    <3>3. /\ attempts'[t] = [attempts[t] EXCEPT ![n] = a]
          /\ leases'[t] = [leases[t] EXCEPT ![n] = "released"]
      BY <1>1, <1>2, <2>1, <3>1 DEF ReleasedLease, Epoch
    <3>4. /\ new \in TaskRow
          /\ new.state = StateAfter(t, result[t])
          /\ new.tries = task[t].tries
          /\ result[t] = "success" => new.accepted = n
      <4>. DEFINE st == StateAfter(t, result[t])
                  acc == IF result[t] = "success"
                         THEN driver[d].held[t] ELSE task[t].accepted
      <4>1. new = [task[t] EXCEPT !.state = st, !.accepted = acc]
        BY <1>1, <2>1
      <4>2. st \in TaskState
        BY <3>1 DEF StateAfter, TaskState, Outcome
      <4>3. acc \in Nat /\ (result[t] = "success" => acc = n)
        BY <1>2, <3>1 DEF TaskRow
      <4>. HIDE DEF st, acc, n, new
      <4>4. /\ new \in TaskRow /\ new.state = st
            /\ new.tries = task[t].tries /\ new.accepted = acc
        <5>1. task[t] \in TaskRow
          BY <1>2
        <5>2. /\ [task[t] EXCEPT !.state = st, !.accepted = acc] \in TaskRow
              /\ [task[t] EXCEPT !.state = st, !.accepted = acc].state = st
              /\ [task[t] EXCEPT !.state = st, !.accepted = acc].tries = task[t].tries
              /\ [task[t] EXCEPT !.state = st, !.accepted = acc].accepted = acc
          BY <4>2, <4>3, <5>1 DEF TaskRow
        <5>. QED BY <4>1, <5>2, Zenon
      <4>. QED BY <4>3, <4>4 DEF st
    <3>. HIDE DEF a, n, new
    <3>5. IF a = "succeeded"
          THEN new.state = "succeeded" /\ new.accepted = n
          ELSE /\ new.state \in {"awaiting_retry", "failed"}
               /\ new.state = "awaiting_retry" => new.tries < MaxAttempts
      <4>1. /\ result[t] = "success" => StateAfter(t, result[t]) = "succeeded"
            /\ result[t] # "success" =>
                 /\ StateAfter(t, result[t]) \in {"awaiting_retry", "failed"}
                 /\ StateAfter(t, result[t]) = "awaiting_retry" =>
                      task[t].tries < MaxAttempts
        BY <3>1 DEF StateAfter, Outcome
      <4>2. CASE result[t] = "success"
        BY <3>2, <3>4, <4>1, <4>2
      <4>3. CASE result[t] # "success"
        <5>1. a # "succeeded"
          BY <3>2, <4>3
        <5>2. /\ new.state \in {"awaiting_retry", "failed"}
              /\ new.state = "awaiting_retry" => new.tries < MaxAttempts
          BY <3>4, <4>1, <4>3
        <5>. QED BY <5>1, <5>2
      <4>. QED BY <4>2, <4>3
    <3>6. /\ attempts'[t] \in Seq(AttemptState)
          /\ Len(attempts'[t]) = Len(attempts[t])
          /\ \A i \in 1..Len(attempts[t]) :
               attempts'[t][i] = IF i = n THEN a ELSE attempts[t][i]
          /\ leases'[t] \in Seq(LeaseState)
          /\ Len(leases'[t]) = Len(leases[t])
          /\ \A i \in 1..Len(leases[t]) :
               leases'[t][i] = IF i = n THEN "released" ELSE leases[t][i]
      BY <1>2, <3>1, <3>2, <3>3, ReplacedValues
    <3>7. RowsOK(new, attempts'[t], leases'[t])
      <4>. DEFINE att == attempts[t]
                  lea == leases[t]
                  att2 == attempts'[t]
                  lea2 == leases'[t]
                  row == task[t]
      <4>1. /\ row \in TaskRow /\ new \in TaskRow
            /\ att \in Seq(AttemptState) /\ att2 \in Seq(AttemptState)
            /\ lea \in Seq(LeaseState) /\ lea2 \in Seq(LeaseState)
            /\ a \in {"succeeded", "failed"}
            /\ RowsOK(row, att, lea) /\ Len(att) > 0 /\ row.state = "dispatched"
        BY <1>2, <3>1, <3>2, <3>4, <3>6
      <4>2. IF a = "succeeded"
            THEN new.state = "succeeded" /\ new.accepted = Len(att)
            ELSE /\ new.state \in {"awaiting_retry", "failed"}
                 /\ new.state = "awaiting_retry" => new.tries < MaxAttempts
        BY <3>5 DEF n
      <4>3. /\ Len(att2) = Len(att)
            /\ \A i \in 1..Len(att) : att2[i] = IF i = Len(att) THEN a ELSE att[i]
            /\ Len(lea2) = Len(lea)
            /\ \A i \in 1..Len(lea) :
                 lea2[i] = IF i = Len(att) THEN "released" ELSE lea[i]
        BY <3>6 DEF n
      <4>. HIDE DEF att, lea, att2, lea2, row
      <4>4. RowsOK(new, att2, lea2)
        BY <4>1, <4>2, <4>3, DecidedRows
      <4>. QED BY <4>4 DEF att2, lea2
    <3>. QED BY <3>1, <3>4, <3>6, <3>7 DEF new
  <2>2. CASE t \in Held(d) \ Valid(d)
    <3>. DEFINE e == driver[d].held[t]
    <3>1. /\ task'[t] = task[t] /\ leases'[t] = leases[t]
          /\ attempts'[t] = [attempts[t] EXCEPT ![e] = "rejected"]
      BY <1>1, <2>2
    <3>2. /\ e \in 1..Len(attempts[t])
          /\ attempts[t][e] \in {"dispatched", "expired"}
          /\ ~(e = Len(attempts[t]) /\ leases[t][e] = "claimed")
      BY <1>3, <1>5, <2>2
    <3>. HIDE DEF e
    <3>3. RowsOK(task[t], [attempts[t] EXCEPT ![e] = "rejected"], leases[t])
      BY <1>2, <3>2, RejectedRows
    <3>4. "rejected" \in AttemptState
      BY DEF AttemptState
    <3>5. /\ [attempts[t] EXCEPT ![e] = "rejected"] \in Seq(AttemptState)
          /\ Len([attempts[t] EXCEPT ![e] = "rejected"]) = Len(attempts[t])
          /\ \A f \in 1..Len(attempts[t]) :
               f # e => [attempts[t] EXCEPT ![e] = "rejected"][f] = attempts[t][f]
      BY <1>2, <3>2, <3>4, ReplacedValues
    <3>. QED BY <1>2, <2>2, <3>1, <3>3, <3>5 DEF e
  <2>3. CASE t \notin Held(d)
    BY <1>1, <1>2, <1>4, <2>3
  <2>. QED BY <2>1, <2>2, <2>3
<1>7. driver' = [driver EXCEPT ![d] = Idle]
  BY DEF Accept
<1>8. TypeOK'
  <2>1. /\ task' \in [Task -> TaskRow]
        /\ attempts' \in [Task -> Seq(AttemptState)]
        /\ leases' \in [Task -> Seq(LeaseState)]
    BY <1>1, <1>6
  <2>2. driver' \in [Driver -> [run : Run \cup {NoRun}, held : [Task -> Nat]]]
    <3>1. Idle \in [run : Run \cup {NoRun}, held : [Task -> Nat]]
      BY DEF Idle
    <3>. QED BY <1>7, <3>1 DEF TypeOK
  <2>3. /\ runState' \in [Run -> RunState]
        /\ spent' \subseteq Run
    <3>. DEFINE r == driver[d].run
    <3>1. \/ UNCHANGED <<spent, runState>>
          \/ r \in Limited /\ spent' = spent \cup {r} /\ UNCHANGED runState
          \/ /\ r \in Limited /\ runState' = [runState EXCEPT ![r] = "failed"]
             /\ spent' \in {spent, spent \cup {r}}
      BY <1>1 DEF ConsumeUsage
    <3>. HIDE DEF r
    <3>. QED BY <3>1, TaskGraphAssumption DEF TypeOK, RunState, Terminal
  <2>4. /\ pausedFrom' \in [Run -> RunState]
        /\ overdue' \subseteq Run
        /\ lapsed' \subseteq Task
        /\ backedOff' \subseteq Task
        /\ crashes' \in Nat
        /\ slow' \in Nat
    BY DEF Accept, TypeOK
  <2>. QED BY <2>1, <2>2, <2>3, <2>4 DEF TypeOK, TaskRow
<1>9. HeldOK'
  <2>1. \A c \in Driver, t \in Task : driver'[c].held[t] > 0 =>
          c # d /\ driver'[c] = driver[c]
    BY <1>7 DEF Idle, TypeOK
  <2>2. ASSUME NEW c \in Driver, NEW t \in Task, driver'[c].held[t] > 0
        PROVE  /\ driver'[c].held[t] <= Len(attempts'[t])
               /\ attempts'[t][driver'[c].held[t]] \in {"dispatched", "expired"}
    <3>1. c # d /\ driver'[c] = driver[c] /\ driver[c].held[t] \in Nat
      BY <2>1, <2>2 DEF TypeOK
    <3>2. driver[d].held[t] # driver[c].held[t]
      BY <2>2, <3>1 DEF HeldOK
    <3>. QED BY <1>2, <1>6, <2>2, <3>1, <3>2 DEF HeldOK
  <2>3. ASSUME NEW c \in Driver, NEW b \in Driver, NEW t \in Task,
               driver'[c].held[t] > 0, driver'[b].held[t] = driver'[c].held[t]
        PROVE  b = c
    BY <2>1, <2>3 DEF HeldOK
  <2>. QED BY <2>2, <2>3 DEF HeldOK
<1>10. DependenciesFirst'
  <2>. SUFFICES ASSUME NEW t \in Task, Len(attempts'[t]) > 0, NEW u \in DependsOn[t]
                PROVE  task'[u].state = "succeeded"
    BY DEF DependenciesFirst
  <2>1. u \in Task /\ task[u].state = "succeeded"
    BY <1>6, TaskGraphAssumption DEF DependenciesFirst
  <2>2. u \notin Valid(d)
    BY <1>4, <2>1
  <2>. QED BY <1>1, <2>1, <2>2
<1>. QED BY <1>6, <1>8, <1>9, <1>10 DEF IInv

(* The actions that change no task, attempt, lease or batch. *)
LEMMA OtherSteps ==
    ASSUME IInv,
           \/ \E r \in Run : Pause(r) \/ Resume(r) \/ Cancel(r) \/ DeadlinePasses(r)
           \/ \E t \in Task : LeaseLapses(t) \/ BackoffElapses(t)
           \/ UNCHANGED vars
    PROVE  IInv'
<1>1. UNCHANGED <<task, attempts, leases, driver>>
  BY DEF Pause, Resume, Cancel, DeadlinePasses, LeaseLapses, BackoffElapses,
         vars, durable
<1>2. TypeOK'
  <2>1. /\ runState' \in [Run -> RunState]
        /\ pausedFrom' \in [Run -> RunState]
    BY DEF IInv, TypeOK, RunState, Terminal, Pause, Resume, Cancel,
           DeadlinePasses, LeaseLapses, BackoffElapses, vars, durable
  <2>2. /\ spent' \subseteq Run
        /\ overdue' \subseteq Run
        /\ lapsed' \subseteq Task
        /\ backedOff' \subseteq Task
        /\ crashes' \in Nat
        /\ slow' \in Nat
    BY DEF IInv, TypeOK, Pause, Resume, Cancel, DeadlinePasses, LeaseLapses,
           BackoffElapses, vars, durable, clock
  <2>. QED BY <1>1, <2>1, <2>2 DEF IInv, TypeOK
<1>. QED BY <1>1, <1>2 DEF IInv, HeldOK, DependenciesFirst

(* A crash only drops what its driver held. *)
LEMMA CrashStep ==
    ASSUME IInv, NEW d \in Driver, Crash(d)
    PROVE  IInv'
<1>1. /\ UNCHANGED <<task, attempts, leases, runState, pausedFrom, spent,
                     overdue, lapsed, backedOff, slow>>
      /\ driver' = [driver EXCEPT ![d] = Idle]
      /\ crashes' = crashes + 1
  BY DEF Crash, durable, clock
<1>2. TypeOK'
  <2>1. Idle \in [run : Run \cup {NoRun}, held : [Task -> Nat]]
    BY DEF Idle
  <2>2. driver' \in [Driver -> [run : Run \cup {NoRun}, held : [Task -> Nat]]]
    BY <1>1, <2>1 DEF IInv, TypeOK
  <2>3. crashes' \in Nat
    BY <1>1 DEF IInv, TypeOK
  <2>. QED BY <1>1, <2>2, <2>3 DEF IInv, TypeOK
<1>3. \A c \in Driver, t \in Task : driver'[c].held[t] > 0 =>
        c # d /\ driver'[c] = driver[c]
  BY <1>1 DEF IInv, TypeOK, Idle
<1>4. HeldOK'
  BY <1>1, <1>3 DEF IInv, HeldOK
<1>. QED BY <1>1, <1>2, <1>4 DEF IInv, DependenciesFirst

(* IInv is inductive. *)
THEOREM Invariance == Spec => []IInv
<1>1. IInv /\ [Next]_vars => IInv'
  <2>. SUFFICES ASSUME IInv, [Next]_vars PROVE IInv'
    OBVIOUS
  <2>0. /\ TypeOK
        /\ \A t \in Task : RowsOK(task[t], attempts[t], leases[t])
        /\ HeldOK
        /\ DependenciesFirst
    BY DEF IInv
  <2>1. ASSUME NEW d \in Driver, NEW r \in Run, Dispatch(d, r) PROVE IInv'
    BY <2>0, <2>1, DispatchStep
  <2>2. ASSUME NEW d \in Driver, NEW r \in Run, Terminate(d, r) PROVE IInv'
    BY <2>0, <2>2, TerminateStep
  <2>3. ASSUME NEW d \in Driver, Accept(d) PROVE IInv'
    BY <2>0, <2>3, AcceptStep
  <2>4. ASSUME NEW d \in Driver, Crash(d) PROVE IInv'
    BY <2>4, CrashStep
  <2>5. CASE \/ \E r \in Run : Pause(r) \/ Resume(r) \/ Cancel(r) \/ DeadlinePasses(r)
             \/ \E t \in Task : LeaseLapses(t) \/ BackoffElapses(t)
             \/ UNCHANGED vars
    BY <2>5, OtherSteps
  <2>. QED BY <2>1, <2>2, <2>3, <2>4, <2>5 DEF Next
<1>. QED BY InitInvariant, <1>1, PTL DEF Spec

-----------------------------------------------------------------------------
(* The stored rows, a driver's memory and the clock's flags keep their types. *)
THEOREM TypeCorrect == Spec => []TypeOK
<1>1. IInv => TypeOK
  BY DEF IInv
<1>. QED BY <1>1, Invariance, PTL

(* Only the newest attempt of a task succeeds, and it is the accepted one. *)
THEOREM SingleAcceptance == Spec => []AcceptedOnce
<1>1. IInv => AcceptedOnce
  BY DEF IInv, AcceptedOnce, RowsOK
<1>. QED BY <1>1, Invariance, PTL

(***************************************************************************)
(* An active lease is the newest of its task, and guards its one open      *)
(* attempt: whatever epoch an older holder still has, it is fenced.        *)
(***************************************************************************)
THEOREM LeaseFencing == Spec => []OneHolder
<1>1. IInv => OneHolder
  <2>. SUFFICES ASSUME IInv, NEW t \in Task
                PROVE  /\ Len(attempts[t]) = Len(leases[t])
                       /\ \A e \in 1..Epoch(t) : leases[t][e] = "claimed" =>
                            /\ e = Epoch(t)
                            /\ Open(t) = {e}
                            /\ task[t].state = "dispatched"
    BY DEF OneHolder
  <2>1. /\ attempts[t] \in Seq(AttemptState) /\ leases[t] \in Seq(LeaseState)
        /\ RowsOK(task[t], attempts[t], leases[t])
    BY DEF IInv, TypeOK
  <2>. QED BY <2>1 DEF RowsOK, Epoch, Open
<1>. QED BY <1>1, Invariance, PTL

(* No attempt is opened before the dependencies of its task succeeded. *)
THEOREM DependencyOrder == Spec => []DependenciesFirst
<1>1. IInv => DependenciesFirst
  BY DEF IInv
<1>. QED BY <1>1, Invariance, PTL

(* A task in retry has attempts left and gave up its lease. *)
THEOREM EarnedRetry == Spec => []RetryIsEarned
<1>1. IInv => RetryIsEarned
  BY DEF IInv, RetryIsEarned, RowsOK, LeaseActive, Epoch, TypeOK
<1>. QED BY <1>1, Invariance, PTL

-----------------------------------------------------------------------------
(***************************************************************************)
(* A task that its own run's recovery leaves dispatched was dispatched and *)
(* not swept.                                                              *)
(***************************************************************************)
LEMMA OwnRecovery ==
    ASSUME IInv, NEW t \in Task
    PROVE  /\ RecoveredTasks(RunOf[t])[t].state = "dispatched" =>
                t \notin Swept /\ task[t].state = "dispatched"
           /\ ReadmittedTasks(RunOf[t])[t].state = "dispatched" =>
                t \notin Swept /\ task[t].state = "dispatched"
<1>1. task[t] \in TaskRow
  BY DEF IInv, TypeOK, TaskRow
<1>2. t \in Swept => task[t].state = "dispatched"
  BY DEF IInv, RowsOK, Swept, LeaseActive, Epoch, TypeOK
<1>3. t \in Swept => t \in Requeued(RunOf[t])
  BY <1>2 DEF Requeued
<1>4. RecoveredTasks(RunOf[t])[t] = IF t \in Requeued(RunOf[t])
                                    THEN [task[t] EXCEPT !.state = "pending"] ELSE task[t]
  BY DEF RecoveredTasks
<1>5. RecoveredTasks(RunOf[t])[t].state = "dispatched" =>
        t \notin Swept /\ task[t].state = "dispatched"
  BY <1>1, <1>3, <1>4 DEF TaskRow
<1>6. ReadmittedTasks(RunOf[t])[t] = IF t \in Readmitted(RunOf[t])
                                     THEN [task[t] EXCEPT !.state = "ready"]
                                     ELSE RecoveredTasks(RunOf[t])[t]
  BY DEF ReadmittedTasks
<1>. QED BY <1>1, <1>5, <1>6 DEF TaskRow

(* An unswept lease stays as it is. *)
LEMMA UnsweptLease ==
    ASSUME NEW t \in Task, t \notin Swept
    PROVE  SweptLeases[t] = leases[t]
  BY DEF SweptLeases

(***************************************************************************)
(* For any set of runs: only another run's tick strands a task.            *)
(***************************************************************************)
THEOREM OnlyOthersStrand == Spec => StrandedByOthersOnly
<1>1. ASSUME IInv, NEW t \in Task, ~Stranded(t), NEW d \in Driver, Dispatch(d, RunOf[t])
      PROVE  ~Stranded(t)'
  <2>. SUFFICES ASSUME task'[t].state = "dispatched"
                PROVE  Len(leases'[t]) > 0 /\ leases'[t][Len(leases'[t])] = "claimed"
    BY DEF Stranded, LeaseActive, Epoch
  <2>. DEFINE r == RunOf[t]
  <2>1. PICK S \in Batches(r) :
          /\ task' = [u \in Task |->
               IF u \in S
               THEN [ReadmittedTasks(r)[u] EXCEPT !.state = "dispatched",
                                                  !.tries = @ + 1]
               ELSE ReadmittedTasks(r)[u]]
          /\ leases' = [u \in Task |->
               IF u \in S THEN Append(SweptLeases[u], "claimed")
                          ELSE SweptLeases[u]]
    BY <1>1 DEF Dispatch
  <2>2. CASE t \in S
    <3>1. leases'[t] = Append(SweptLeases[t], "claimed")
      BY <2>1, <2>2
    <3>2. SweptLeases[t] \in Seq(LeaseState) /\ "claimed" \in LeaseState
      BY <1>1, RecoveryValues, TaskGraphAssumption DEF IInv, LeaseState
    <3>. QED BY <3>1, <3>2, AppendValues
  <2>3. CASE t \notin S
    <3>1. ReadmittedTasks(r)[t].state = "dispatched" /\ leases'[t] = SweptLeases[t]
      BY <2>1, <2>3
    <3>2. t \notin Swept /\ task[t].state = "dispatched"
      BY <1>1, <3>1, OwnRecovery
    <3>. QED BY <1>1, <3>1, <3>2, UnsweptLease DEF Stranded, LeaseActive, Epoch
  <2>. QED BY <2>2, <2>3
<1>2. ASSUME IInv, NEW t \in Task, ~Stranded(t), NEW d \in Driver, Terminate(d, RunOf[t])
      PROVE  ~Stranded(t)'
  <2>. SUFFICES ASSUME task'[t].state = "dispatched"
                PROVE  Len(leases'[t]) > 0 /\ leases'[t][Len(leases'[t])] = "claimed"
    BY DEF Stranded, LeaseActive, Epoch
  <2>1. task'[t] = RecoveredTasks(RunOf[t])[t] /\ leases'[t] = SweptLeases[t]
    BY <1>2 DEF Terminate
  <2>2. t \notin Swept /\ task[t].state = "dispatched"
    BY <1>2, <2>1, OwnRecovery
  <2>. QED BY <1>2, <2>1, <2>2, UnsweptLease DEF Stranded, LeaseActive, Epoch
<1>3. ASSUME IInv, NEW t \in Task, ~Stranded(t), NEW d \in Driver, Accept(d)
      PROVE  ~Stranded(t)'
  <2>. SUFFICES ASSUME task'[t].state = "dispatched"
                PROVE  LeaseActive(t)'
    BY DEF Stranded
  <2>1. PICK result \in [Valid(d) -> Outcome] :
          /\ task' = [u \in Task |->
               IF u \in Valid(d)
               THEN [task[u] EXCEPT
                       !.state = StateAfter(u, result[u]),
                       !.accepted = IF result[u] = "success"
                                    THEN driver[d].held[u] ELSE @]
               ELSE task[u]]
          /\ leases' = [u \in Task |->
               IF u \in Valid(d) THEN ReleasedLease(u) ELSE leases[u]]
    BY <1>3 DEF Accept
  <2>2. t \notin Valid(d)
    <3>1. SUFFICES ASSUME t \in Valid(d) PROVE FALSE
      OBVIOUS
    <3>2. task[t] \in TaskRow /\ result[t] \in Outcome
      BY <1>3, <3>1 DEF IInv, TypeOK, TaskRow
    <3>3. task'[t].state = StateAfter(t, result[t])
      BY <2>1, <3>1, <3>2 DEF TaskRow
    <3>. QED BY <3>2, <3>3 DEF StateAfter, Outcome
  <2>3. task[t].state = "dispatched" /\ leases'[t] = leases[t]
    BY <2>1, <2>2
  <2>. QED BY <1>3, <2>3 DEF Stranded, LeaseActive, Epoch
<1>4. ASSUME NEW t \in Task, ~Stranded(t), UNCHANGED <<task, leases>>
      PROVE  ~Stranded(t)'
  BY <1>4 DEF Stranded, LeaseActive, Epoch
<1>5. ASSUME IInv, [Next]_vars, NEW t \in Task, Stranded(t)', ~Stranded(t)
      PROVE  \E d \in Driver, r \in Run \ {RunOf[t]} : Dispatch(d, r) \/ Terminate(d, r)
  <2>1. CASE \/ \E r \in Run : Pause(r) \/ Resume(r) \/ Cancel(r) \/ DeadlinePasses(r)
             \/ \E u \in Task : LeaseLapses(u) \/ BackoffElapses(u)
             \/ \E d \in Driver : Crash(d)
             \/ UNCHANGED vars
    <3>1. UNCHANGED <<task, leases>>
      BY <2>1 DEF Pause, Resume, Cancel, DeadlinePasses, LeaseLapses,
                  BackoffElapses, Crash, vars, durable
    <3>. QED BY <1>4, <1>5, <3>1
  <2>2. CASE \E d \in Driver : Accept(d)
    BY <1>3, <1>5, <2>2
  <2>3. CASE \E d \in Driver, r \in Run : Dispatch(d, r) \/ Terminate(d, r)
    BY <1>1, <1>2, <1>5, <2>3
  <2>. QED BY <1>5, <2>1, <2>2, <2>3 DEF Next
<1>6. IInv /\ [Next]_vars =>
        [\A t \in Task : Stranded(t)' /\ ~Stranded(t) =>
           \E d \in Driver, r \in Run \ {RunOf[t]} : Dispatch(d, r) \/ Terminate(d, r)]_vars
  BY <1>5
<1>. QED BY <1>6, Invariance, PTL DEF Spec, StrandedByOthersOnly

(***************************************************************************)
(* So in a store with one run no dispatched task is ever without its lease.*)
(***************************************************************************)
COROLLARY OneRunStrandsNone ==
    ASSUME NEW r0, Run = {r0}
    PROVE  Spec => []NoneStranded
<1>1. Init => NoneStranded
  BY DEF Init, NoneStranded, Stranded
<1>2. NoneStranded /\ [\A t \in Task : Stranded(t)' /\ ~Stranded(t) =>
                          \E d \in Driver, r \in Run \ {RunOf[t]} :
                              Dispatch(d, r) \/ Terminate(d, r)]_vars
      => NoneStranded'
  <2>1. \A t \in Task : Run \ {RunOf[t]} = {}
    BY TaskGraphAssumption
  <2>2. NoneStranded /\ UNCHANGED vars => NoneStranded'
    BY DEF NoneStranded, Stranded, LeaseActive, Epoch, vars, durable
  <2>. QED BY <2>1, <2>2 DEF NoneStranded
<1>. QED BY <1>1, <1>2, OnlyOthersStrand, PTL DEF Spec, StrandedByOthersOnly

-----------------------------------------------------------------------------
(***************************************************************************)
(* The refinement of TaskOutcomes: only Accept decides tasks.              *)
(***************************************************************************)
Verdict == [t \in Task |-> IF Settled(t) THEN task[t].state ELSE "open"]
Winner == [t \in Task |-> task[t].accepted]

(* Recovery and readmission neither settle nor unsettle a task. *)
LEMMA RecoveryOutcome ==
    ASSUME TypeOK, NEW r \in Run, NEW t \in Task
    PROVE  /\ RecoveredTasks(r)[t].accepted = task[t].accepted
           /\ ReadmittedTasks(r)[t].accepted = task[t].accepted
           /\ \A s \in {"succeeded", "failed"} :
                /\ RecoveredTasks(r)[t].state = s <=> task[t].state = s
                /\ ReadmittedTasks(r)[t].state = s <=> task[t].state = s
<1>1. task[t] \in TaskRow
  BY DEF TypeOK, TaskRow
<1>2. /\ RecoveredTasks(r)[t] = IF t \in Requeued(r)
                                THEN [task[t] EXCEPT !.state = "pending"] ELSE task[t]
      /\ ReadmittedTasks(r)[t] = IF t \in Readmitted(r)
                                 THEN [task[t] EXCEPT !.state = "ready"]
                                 ELSE RecoveredTasks(r)[t]
  BY DEF RecoveredTasks, ReadmittedTasks
<1>3. t \in Requeued(r) => task[t].state = "dispatched"
  BY DEF Requeued
<1>4. t \in Readmitted(r) => task[t].state = "awaiting_retry"
  BY DEF Readmitted
<1>. QED BY <1>1, <1>2, <1>3, <1>4 DEF TaskRow

(* A step that settles no task and takes no settlement back is a stutter of the abstract outcomes. *)
LEMMA SameOutcomes ==
    ASSUME \A t \in Task : /\ task'[t].accepted = task[t].accepted
                           /\ \A s \in {"succeeded", "failed"} :
                                task'[t].state = s <=> task[t].state = s
    PROVE  Verdict' = Verdict /\ Winner' = Winner
<1>1. ASSUME NEW t \in Task
      PROVE  /\ Settled(t)' <=> Settled(t)
             /\ Settled(t) => task'[t].state = task[t].state
  BY DEF Settled
<1>2. Verdict' = Verdict
  BY <1>1 DEF Verdict
<1>. QED BY <1>2 DEF Winner

(* Deciding a set of tasks at once is a step of the abstract outcomes. *)
LEMMA OneDecision ==
    ASSUME NEW success \in SUBSET Task, NEW failure \in SUBSET Task,
           Outcomes!Decide(success, failure)
    PROVE  Outcomes!Next
  BY DEF Outcomes!Next

(* The accepted results of a batch are one decision. *)
LEMMA AcceptDecides ==
    ASSUME IInv, NEW d \in Driver, Accept(d)
    PROVE  Outcomes!Next
<1>1. PICK result \in [Valid(d) -> Outcome] :
        task' = [t \in Task |->
             IF t \in Valid(d)
             THEN [task[t] EXCEPT
                     !.state = StateAfter(t, result[t]),
                     !.accepted = IF result[t] = "success"
                                  THEN driver[d].held[t] ELSE @]
             ELSE task[t]]
  BY DEF Accept
<1>2. \A t \in Valid(d) :
        /\ t \in Task
        /\ result[t] \in Outcome
        /\ task[t].state = "dispatched"
        /\ driver[d].held[t] \in Nat \ {0}
        /\ \A u \in DependsOn[t] : u \in Task /\ task[u].state = "succeeded"
  <2>. SUFFICES ASSUME NEW t \in Valid(d)
                PROVE  /\ t \in Task
                       /\ result[t] \in Outcome
                       /\ task[t].state = "dispatched"
                       /\ driver[d].held[t] \in Nat \ {0}
                       /\ \A u \in DependsOn[t] : u \in Task /\ task[u].state = "succeeded"
    OBVIOUS
  <2>1. t \in Held(d) /\ t \in Task /\ task[t].state = "dispatched"
    BY DEF Valid, Held, Accepted
  <2>2. driver[d].held[t] \in Nat \ {0}
    BY <2>1 DEF Held, IInv, TypeOK
  <2>3. Len(attempts[t]) > 0
    <3>1. driver[d].held[t] <= Len(attempts[t])
      BY <2>1, <2>2 DEF IInv, HeldOK
    <3>2. Len(attempts[t]) \in Nat
      BY <2>1 DEF IInv, TypeOK
    <3>. QED BY <2>2, <3>1, <3>2
  <2>4. \A u \in DependsOn[t] : u \in Task /\ task[u].state = "succeeded"
    BY <2>1, <2>3, TaskGraphAssumption DEF IInv, DependenciesFirst
  <2>. QED BY <2>1, <2>2, <2>4
<1>3. \A t \in Task :
        /\ t \in Valid(d) => /\ task'[t].state = StateAfter(t, result[t])
                             /\ task'[t].accepted = IF result[t] = "success"
                                                    THEN driver[d].held[t]
                                                    ELSE task[t].accepted
        /\ t \notin Valid(d) => task'[t] = task[t]
  BY <1>1 DEF IInv, TypeOK
<1>4. Valid(d) \subseteq Task
  BY <1>2
<1>5. PICK win \in SUBSET Task : win = {t \in Valid(d) : result[t] = "success"}
  BY <1>4
<1>6. PICK lose \in SUBSET Task :
        lose = {t \in Valid(d) : /\ result[t] # "success"
                                 /\ StateAfter(t, result[t]) = "failed"}
  BY <1>4
<1>7. win \cap lose = {}
  BY <1>5, <1>6
<1>8. \A t \in win \cup lose : Outcomes!Decidable(t)
  BY <1>2, <1>5, <1>6 DEF Outcomes!Decidable, Settled
<1>9. ASSUME NEW t \in Task
      PROVE  Verdict'[t] = IF t \in win THEN "succeeded"
                           ELSE IF t \in lose THEN "failed" ELSE Verdict[t]
  <2>1. Verdict'[t] = IF task'[t].state \in {"succeeded", "failed"}
                      THEN task'[t].state ELSE "open"
    BY DEF Verdict, Settled
  <2>2. Verdict[t] = IF task[t].state \in {"succeeded", "failed"}
                     THEN task[t].state ELSE "open"
    BY DEF Verdict, Settled
  <2>. QED BY <1>2, <1>3, <1>5, <1>6, <2>1, <2>2 DEF StateAfter, Outcome
<1>10. Verdict' = [t \in Task |-> IF t \in win THEN "succeeded"
                                 ELSE IF t \in lose THEN "failed" ELSE Verdict[t]]
  BY <1>9 DEF Verdict
<1>11. /\ \A t \in Task : IF t \in win THEN Winner'[t] \in Nat \ {0}
                                      ELSE Winner'[t] = Winner[t]
      /\ DOMAIN Winner' = Task
  BY <1>2, <1>3, <1>5 DEF Winner
<1>12. Outcomes!Decide(win, lose)
  <2>1. [t \in Task |-> IF Settled(t) THEN task[t].state ELSE "open"]'
          = [t \in Task |-> IF t \in win THEN "succeeded"
                            ELSE IF t \in lose THEN "failed" ELSE Verdict[t]]
    BY <1>10 DEF Verdict
  <2>2. /\ \A t \in Task :
             IF t \in win THEN [u \in Task |-> task[u].accepted]'[t] \in Nat \ {0}
             ELSE [u \in Task |-> task[u].accepted]'[t]
                    = [u \in Task |-> task[u].accepted][t]
        /\ DOMAIN [u \in Task |-> task[u].accepted]' = Task
    BY <1>11 DEF Winner
  <2>. QED BY <1>7, <1>8, <2>1, <2>2, Zenon DEF Outcomes!Decide, Verdict
<1>. QED BY <1>12, OneDecision

(***************************************************************************)
(* Every execution of the task runtime is one of TaskOutcomes: a task is   *)
(* decided at most once and for good, on one attempt, dependencies first.  *)
(***************************************************************************)
THEOREM Refinement == Spec => ImplementsOutcomes
<1>1. Init => Outcomes!Init
  BY DEF Init, Outcomes!Init, Settled
<1>2. ASSUME IInv, [Next]_vars PROVE [Outcomes!Next]_(Outcomes!vars)
  <2>0. TypeOK
    BY <1>2 DEF IInv
  <2>1. ASSUME Verdict' = Verdict /\ Winner' = Winner
        PROVE  [Outcomes!Next]_(Outcomes!vars)
    BY <2>1 DEF Outcomes!vars, Verdict, Winner
  <2>2. ASSUME NEW d \in Driver, NEW r \in Run, Dispatch(d, r)
        PROVE  [Outcomes!Next]_(Outcomes!vars)
    <3>1. PICK S \in Batches(r) :
            task' = [t \in Task |->
                 IF t \in S
                 THEN [ReadmittedTasks(r)[t] EXCEPT !.state = "dispatched",
                                                    !.tries = @ + 1]
                 ELSE ReadmittedTasks(r)[t]]
      BY <2>2 DEF Dispatch
    <3>2. \A t \in S : ReadmittedTasks(r)[t].state \in {"ready", "pending"}
      BY DEF Batches, ReadyWork
    <3>3. ASSUME NEW t \in Task
          PROVE  /\ task'[t].accepted = task[t].accepted
                 /\ \A s \in {"succeeded", "failed"} :
                      task'[t].state = s <=> task[t].state = s
      <4>1. ReadmittedTasks(r)[t] \in TaskRow
        BY <1>2, RecoveredRows DEF IInv
      <4>2. CASE t \in S
        <5>1. task'[t] = [ReadmittedTasks(r)[t] EXCEPT !.state = "dispatched",
                                                       !.tries = @ + 1]
          BY <3>1, <4>2
        <5>2. /\ task'[t].accepted = ReadmittedTasks(r)[t].accepted
              /\ task'[t].state = "dispatched"
          BY <4>1, <5>1 DEF TaskRow
        <5>. QED BY <2>0, <3>2, <4>2, <5>2, RecoveryOutcome
      <4>3. CASE t \notin S
        BY <2>0, <3>1, <4>3, RecoveryOutcome
      <4>. QED BY <4>2, <4>3
    <3>. QED BY <2>1, <3>3, SameOutcomes
  <2>3. ASSUME NEW d \in Driver, NEW r \in Run, Terminate(d, r)
        PROVE  [Outcomes!Next]_(Outcomes!vars)
    <3>1. task' = RecoveredTasks(r)
      BY <2>3 DEF Terminate
    <3>. QED BY <2>0, <2>1, <3>1, RecoveryOutcome, SameOutcomes
  <2>4. ASSUME NEW d \in Driver, Accept(d)
        PROVE  [Outcomes!Next]_(Outcomes!vars)
    BY <1>2, <2>4, AcceptDecides
  <2>5. CASE \/ \E r \in Run : Pause(r) \/ Resume(r) \/ Cancel(r) \/ DeadlinePasses(r)
             \/ \E t \in Task : LeaseLapses(t) \/ BackoffElapses(t)
             \/ \E d \in Driver : Crash(d)
             \/ UNCHANGED vars
    <3>1. UNCHANGED task
      BY <2>5 DEF Pause, Resume, Cancel, DeadlinePasses, LeaseLapses,
                  BackoffElapses, Crash, vars, durable
    <3>2. Verdict' = Verdict /\ Winner' = Winner
      BY <3>1 DEF Verdict, Winner, Settled
    <3>. QED BY <2>1, <3>2
  <2>. QED BY <1>2, <2>2, <2>3, <2>4, <2>5 DEF Next
<1>. QED BY <1>1, <1>2, Invariance, PTL DEF Spec, ImplementsOutcomes, Outcomes!Spec
=============================================================================
