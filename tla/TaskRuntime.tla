---------------------------- MODULE TaskRuntime ----------------------------
(***************************************************************************)
(* The durable task runtime of agents_orchestration for fixed-fanout Plans *)
(* (runtime/tick.py with lease.py, recovery.py, attempt.py and core.py).   *)
(*                                                                         *)
(* Runs, tasks, attempts and leases live in one SQLite store; a tick of a  *)
(* run is two transactions with the execution of the dispatched batch      *)
(* between them.  A driver is a process that ticks (`runtime watch`,       *)
(* `runtime tick`, `run start`): what it holds between the transactions is *)
(* process memory and is lost when it crashes.                             *)
(*                                                                         *)
(* Every claim of a task opens one lease epoch and one attempt, so attempt *)
(* e of task t is the pair <<t, e>>.  Wall-clock time is reduced to what   *)
(* the code compares it for: whether a lease is past its expires_at        *)
(* (lapsed), a retry past its backoff (backedOff), a run past its deadline.*)
(***************************************************************************)
EXTENDS Naturals, Sequences, FiniteSets

CONSTANTS
    Run,            \* the runs in the store
    Task,           \* the tasks of their accepted Plans
    Driver,         \* the processes that tick
    Limited,        \* the runs whose Budget has a token or cost cap
    Dated,          \* the runs whose Budget has a deadline_at
    RunOf,          \* [Task -> Run]
    DependsOn,      \* [Task -> SUBSET Task], acyclic
    Depth,          \* [Task -> Nat], longer chains of dependencies deeper
    MaxConcurrency, \* RunPolicy.max_concurrency
    MaxAttempts,    \* RunPolicy.max_attempts_per_task
    MaxCrashes,     \* bound: crashes of busy drivers
    MaxSlow,        \* bound: leases that lapse while their holder still runs
    NoRun           \* the run of an idle driver

ASSUME TaskGraphAssumption ==
    /\ RunOf \in [Task -> Run]
    /\ DependsOn \in [Task -> SUBSET Task]
    /\ Depth \in [Task -> Nat]
    /\ NoRun \notin Run
    /\ Limited \subseteq Run
    /\ Dated \subseteq Run

ASSUME PolicyAssumption ==
    /\ MaxConcurrency \in Nat \ {0}
    /\ MaxAttempts \in Nat \ {0}
    /\ MaxCrashes \in Nat
    /\ MaxSlow \in Nat

VARIABLES
    task,       \* [Task -> [state, tries, accepted]]: the tasks table
    attempts,   \* [Task -> Seq(AttemptState)]: the attempts table, by epoch
    leases,     \* [Task -> Seq(LeaseState)]: the leases table, by epoch
    runState,   \* [Run -> RunState]
    pausedFrom, \* [Run -> RunState]: paused_from_state
    spent,      \* runs whose token or cost budget is used up
    overdue,    \* runs past deadline_at
    driver,     \* [Driver -> [run, held]]: process memory of a tick
    lapsed,     \* tasks whose active lease is past expires_at
    backedOff,  \* tasks in AWAITING_RETRY whose backoff has elapsed
    crashes,    \* crashes so far
    slow        \* leases lapsed under a running holder so far

durable == <<task, attempts, leases, runState, pausedFrom, spent>>
clock == <<overdue, lapsed, backedOff>>
vars == <<durable, driver, clock, crashes, slow>>

TaskState == {"pending", "ready", "dispatched", "awaiting_retry",
              "succeeded", "failed"}
AttemptState == {"dispatched", "succeeded", "failed", "expired", "rejected"}
LeaseState == {"claimed", "released", "expired"}
Terminal == {"canceled", "failed"}
\* "researching" stands for every state in which a tick goes on; in the others
\* of them the run dispatches nothing, like a run without tasks.
RunState == {"researching", "paused"} \cup Terminal
Outcome == {"success", "retryable", "fatal"}

Idle == [run |-> NoRun, held |-> [t \in Task |-> 0]]

-----------------------------------------------------------------------------
(* Reads of the store. *)

Epoch(t) == Len(leases[t])

LeaseActive(t) == Epoch(t) > 0 /\ leases[t][Epoch(t)] = "claimed"

Open(t) == {e \in 1..Len(attempts[t]) : attempts[t][e] = "dispatched"}

\* AttemptRepository.active_for_task: the newest dispatched attempt.
IsActiveAttempt(t, e) == e \in Open(t) /\ \A f \in Open(t) : f <= e

Busy(d) == driver[d].run # NoRun

Held(d) == {t \in Task : driver[d].held[t] > 0}

-----------------------------------------------------------------------------
(* RecoveryManager.recover and the retry readmission, which open every tick.*)

\* LeaseManager.expire_stale sweeps the active leases of ALL runs ...
Swept == {t \in lapsed : LeaseActive(t)}

\* ... and recover requeues those of the ticked run only.
RequeuedNone(r) == {}    \* a faulty recover: expires without requeueing
Requeued(r) ==
    {t \in Swept : RunOf[t] = r /\ task[t].state = "dispatched"}

Readmitted(r) ==
    {t \in backedOff : RunOf[t] = r /\ task[t].state = "awaiting_retry"}

SweptLeases ==
    [t \in Task |->
        IF t \in Swept THEN [leases[t] EXCEPT ![Epoch(t)] = "expired"]
                       ELSE leases[t]]

RecoveredAttempts(r) ==
    [t \in Task |->
        [e \in 1..Len(attempts[t]) |->
            IF t \in Requeued(r) /\ IsActiveAttempt(t, e)
            THEN "expired" ELSE attempts[t][e]]]

RecoveredTasks(r) ==
    [t \in Task |->
        IF t \in Requeued(r) THEN [task[t] EXCEPT !.state = "pending"]
                             ELSE task[t]]

ReadmittedTasks(r) ==
    [t \in Task |->
        IF t \in Readmitted(r) THEN [task[t] EXCEPT !.state = "ready"]
                               ELSE RecoveredTasks(r)[t]]

-----------------------------------------------------------------------------
(* The scheduler. *)

Unblocked(t) == \A u \in DependsOn[t] : task[u].state = "succeeded"

\* Faulty: a failed dependency counts as done.
ReadyWorkAfterFailure(r) ==
    {t \in Task :
        /\ RunOf[t] = r
        /\ ReadmittedTasks(r)[t].state \in {"ready", "pending"}
        /\ \A u \in DependsOn[t] : task[u].state \in {"succeeded", "failed"}}

ReadyWork(r) ==
    {t \in Task :
        /\ RunOf[t] = r
        /\ \/ ReadmittedTasks(r)[t].state = "ready"
           \/ /\ ReadmittedTasks(r)[t].state = "pending"
              /\ Unblocked(t)}

\* The first max_concurrency ready tasks by depth; the order of task ids
\* within a depth is left open.
Batches(r) ==
    {S \in SUBSET ReadyWork(r) :
        /\ S # {}
        /\ Cardinality(S) <= MaxConcurrency
        /\ S # ReadyWork(r) => Cardinality(S) = MaxConcurrency
        /\ \A t \in S, u \in ReadyWork(r) \ S : Depth[t] <= Depth[u]}

\* BudgetGuard.check_run
Denied(r) == r \in overdue \/ r \in spent

-----------------------------------------------------------------------------
Init ==
    /\ task = [t \in Task |-> [state |-> "pending", tries |-> 0, accepted |-> 0]]
    /\ attempts = [t \in Task |-> <<>>]
    /\ leases = [t \in Task |-> <<>>]
    /\ runState = [r \in Run |-> "researching"]
    /\ pausedFrom = [r \in Run |-> "researching"]
    /\ spent = {}
    /\ overdue = {}
    /\ driver = [d \in Driver |-> Idle]
    /\ lapsed = {}
    /\ backedOff = {}
    /\ crashes = 0
    /\ slow = 0

(***************************************************************************)
(* The dispatch transaction of tick(): recover, readmit elapsed retries,   *)
(* claim a lease and open an attempt for each task of the batch.  A tick   *)
(* that finds nothing ready leaves without commit, so its recovery is      *)
(* rolled back: it is no step.                                             *)
(***************************************************************************)
Dispatch(d, r) ==
    /\ ~Busy(d)
    /\ runState[r] = "researching"
    /\ ~Denied(r)
    /\ \E S \in Batches(r) :
        /\ task' = [t \in Task |->
             IF t \in S
             THEN [ReadmittedTasks(r)[t] EXCEPT !.state = "dispatched",
                                                !.tries = @ + 1]
             ELSE ReadmittedTasks(r)[t]]
        /\ attempts' = [t \in Task |->
             IF t \in S THEN Append(RecoveredAttempts(r)[t], "dispatched")
                        ELSE RecoveredAttempts(r)[t]]
        /\ leases' = [t \in Task |->
             IF t \in S THEN Append(SweptLeases[t], "claimed")
                        ELSE SweptLeases[t]]
        /\ driver' = [driver EXCEPT ![d] =
             [run |-> r,
              held |-> [t \in Task |-> IF t \in S THEN Epoch(t) + 1 ELSE 0]]]
    /\ lapsed' = lapsed \ Swept
    /\ backedOff' = backedOff \ Readmitted(r)
    /\ UNCHANGED <<runState, pausedFrom, spent, overdue, crashes, slow>>

(***************************************************************************)
(* A tick of a run over its deadline or budget commits the recovery and    *)
(* terminates the run.                                                     *)
(***************************************************************************)
Terminate(d, r) ==
    /\ ~Busy(d)
    /\ runState[r] = "researching"
    /\ Denied(r)
    /\ runState' = [runState EXCEPT ![r] = "failed"]
    /\ task' = RecoveredTasks(r)
    /\ attempts' = RecoveredAttempts(r)
    /\ leases' = SweptLeases
    /\ lapsed' = lapsed \ Swept
    /\ UNCHANGED <<pausedFrom, spent, overdue, driver, backedOff, crashes, slow>>

-----------------------------------------------------------------------------
(* The accept transaction. *)

\* AttemptValidator.validate: the plan version never changes in this module.
AcceptedByState(t, e) == task[t].state = "dispatched"    \* faulty: no fence
AcceptedAlways(t, e) == TRUE                             \* faulty: no check
Accepted(t, e) ==
    /\ IsActiveAttempt(t, e)
    /\ Epoch(t) = e
    /\ LeaseActive(t)
    /\ task[t].state = "dispatched"

Valid(d) == {t \in Held(d) : Accepted(t, driver[d].held[t])}

\* Faulty: one attempt too many.
StateAfterOffByOne(t, outcome) ==
    CASE outcome = "success" -> "succeeded"
      [] outcome = "retryable" /\ task[t].tries <= MaxAttempts -> "awaiting_retry"
      [] OTHER -> "failed"

\* RetryClassifier.classify
StateAfter(t, outcome) ==
    CASE outcome = "success" -> "succeeded"
      [] outcome = "retryable" /\ task[t].tries < MaxAttempts -> "awaiting_retry"
      [] OTHER -> "failed"

AttemptAfterAsAcceptance(outcome) == "accepted"    \* faulty: the wrong enum
AttemptAfter(outcome) == IF outcome = "success" THEN "succeeded" ELSE "failed"

KeptLease(t) == leases[t]    \* faulty: accepted without releasing the lease
ReleasedLease(t) == [leases[t] EXCEPT ![Epoch(t)] = "released"]

\* consume_budget_safe over the accepted outcomes, of which only successes
\* carry usage: they may stay within the budget, use it up, or overrun it; an
\* overrun fails the run whatever its state.
ConsumeUsage(r, used) ==
    \/ UNCHANGED <<spent, runState>>
    \/ /\ used /\ r \in Limited
       /\ \/ spent' = spent \cup {r} /\ UNCHANGED runState
          \/ /\ runState' = [runState EXCEPT ![r] = "failed"]
             /\ spent' \in {spent, spent \cup {r}}

(***************************************************************************)
(* All outcomes of the batch in one transaction.  A rejected result leaves *)
(* task and lease alone and only marks its own attempt.                    *)
(***************************************************************************)
Accept(d) ==
    /\ Busy(d)
    /\ \E result \in [Valid(d) -> Outcome] :
        /\ task' = [t \in Task |->
             IF t \in Valid(d)
             THEN [task[t] EXCEPT
                     !.state = StateAfter(t, result[t]),
                     !.accepted = IF result[t] = "success"
                                  THEN driver[d].held[t] ELSE @]
             ELSE task[t]]
        /\ attempts' = [t \in Task |->
             IF t \in Held(d)
             THEN [attempts[t] EXCEPT ![driver[d].held[t]] =
                     IF t \in Valid(d) THEN AttemptAfter(result[t])
                                       ELSE "rejected"]
             ELSE attempts[t]]
        /\ leases' = [t \in Task |->
             IF t \in Valid(d) THEN ReleasedLease(t) ELSE leases[t]]
        /\ ConsumeUsage(driver[d].run, \E t \in Valid(d) : result[t] = "success")
    /\ driver' = [driver EXCEPT ![d] = Idle]
    /\ lapsed' = lapsed \ Valid(d)
    /\ UNCHANGED <<pausedFrom, overdue, backedOff, crashes, slow>>

-----------------------------------------------------------------------------
(* Operator commands, from other processes: none checks the state it       *)
(* leaves, only resume asks for PAUSED.                                    *)

Pause(r) ==
    /\ runState' = [runState EXCEPT ![r] = "paused"]
    /\ pausedFrom' = [pausedFrom EXCEPT ![r] = runState[r]]
    /\ UNCHANGED <<task, attempts, leases, spent, driver, clock, crashes, slow>>

Resume(r) ==
    /\ runState[r] = "paused"
    /\ runState' = [runState EXCEPT ![r] = pausedFrom[r]]
    /\ UNCHANGED <<task, attempts, leases, pausedFrom, spent, driver, clock,
                   crashes, slow>>

Cancel(r) ==
    /\ runState' = [runState EXCEPT ![r] = "canceled"]
    /\ UNCHANGED <<task, attempts, leases, pausedFrom, spent, driver, clock,
                   crashes, slow>>

-----------------------------------------------------------------------------
(* The environment. *)

\* The process dies, or an exception leaves the tick: its batch is lost.
Crash(d) ==
    /\ Busy(d)
    /\ crashes < MaxCrashes
    /\ crashes' = crashes + 1
    /\ driver' = [driver EXCEPT ![d] = Idle]
    /\ UNCHANGED <<durable, clock, slow>>

Alive(t) == \E d \in Driver : driver[d].held[t] > 0 /\ driver[d].held[t] = Epoch(t)

LeaseLapses(t) ==
    /\ LeaseActive(t)
    /\ t \notin lapsed
    /\ IF Alive(t) THEN slow < MaxSlow /\ slow' = slow + 1 ELSE UNCHANGED slow
    /\ lapsed' = lapsed \cup {t}
    /\ UNCHANGED <<durable, driver, overdue, backedOff, crashes>>

BackoffElapses(t) ==
    /\ task[t].state = "awaiting_retry"
    /\ t \notin backedOff
    /\ backedOff' = backedOff \cup {t}
    /\ UNCHANGED <<durable, driver, overdue, lapsed, crashes, slow>>

DeadlinePasses(r) ==
    /\ r \in Dated \ overdue
    /\ overdue' = overdue \cup {r}
    /\ UNCHANGED <<durable, driver, lapsed, backedOff, crashes, slow>>

-----------------------------------------------------------------------------
Next ==
    \/ \E d \in Driver, r \in Run : Dispatch(d, r)
    \/ \E d \in Driver, r \in Run : Terminate(d, r)
    \/ \E d \in Driver : Accept(d)
    \/ \E r \in Run : Pause(r)
    \/ \E r \in Run : Resume(r)
    \/ \E r \in Run : Cancel(r)
    \/ \E d \in Driver : Crash(d)
    \/ \E t \in Task : LeaseLapses(t)
    \/ \E t \in Task : BackoffElapses(t)
    \/ \E r \in Run : DeadlinePasses(r)

Spec == Init /\ [][Next]_vars
-----------------------------------------------------------------------------
(* Properties. *)

Settled(t) == task[t].state \in {"succeeded", "failed"}

\* Types of the store, of process memory and of the clock's flags.
TypeOK ==
    /\ task \in [Task -> [state : TaskState, tries : Nat, accepted : Nat]]
    /\ attempts \in [Task -> Seq(AttemptState)]
    /\ leases \in [Task -> Seq(LeaseState)]
    /\ runState \in [Run -> RunState]
    /\ pausedFrom \in [Run -> RunState]
    /\ spent \subseteq Run
    /\ overdue \subseteq Run
    /\ driver \in [Driver -> [run : Run \cup {NoRun}, held : [Task -> Nat]]]
    /\ lapsed \subseteq Task
    /\ backedOff \subseteq Task
    /\ crashes \in Nat
    /\ slow \in Nat

(***************************************************************************)
(* At most one attempt of a task ever succeeds, it is the one the task     *)
(* accepted, and no attempt of a later epoch was opened after it: however  *)
(* many drivers executed the task, across crashes and lapsed leases.       *)
(***************************************************************************)
AcceptedOnce ==
    \A t \in Task : \A e \in 1..Len(attempts[t]) :
        attempts[t][e] = "succeeded" <=>
            /\ task[t].state = "succeeded"
            /\ task[t].accepted = e
            /\ e = Len(attempts[t])

(***************************************************************************)
(* Lease fencing: only the newest epoch of a task can be active, it then   *)
(* protects the task's one open attempt, and the task is dispatched.  So a *)
(* holder of an older epoch can never pass AttemptValidator.               *)
(***************************************************************************)
OneHolder ==
    \A t \in Task :
        /\ Len(attempts[t]) = Len(leases[t])
        /\ \A e \in 1..Epoch(t) : leases[t][e] = "claimed" =>
             /\ e = Epoch(t)
             /\ Open(t) = {e}
             /\ task[t].state = "dispatched"

(***************************************************************************)
(* An attempt that was opened, in whatever state it is now, was opened     *)
(* after every dependency of its task had succeeded, and those successes   *)
(* were never taken back.                                                  *)
(***************************************************************************)
DependenciesFirst ==
    \A t \in Task :
        Len(attempts[t]) > 0 => \A u \in DependsOn[t] : task[u].state = "succeeded"

(***************************************************************************)
(* A task waits for a retry only with attempts left, and only after its    *)
(* newest attempt failed and gave up its lease.                            *)
(***************************************************************************)
RetryIsEarned ==
    \A t \in Task : task[t].state \in {"awaiting_retry", "ready"} =>
        /\ task[t].tries < MaxAttempts
        /\ Len(attempts[t]) > 0
        /\ attempts[t][Len(attempts[t])] = "failed"
        /\ ~LeaseActive(t)

(***************************************************************************)
(* A stranded task is dispatched with no active lease: no result for it    *)
(* passes AttemptValidator and no sweep finds it, so nothing ever moves it.*)
(***************************************************************************)
Stranded(t) == task[t].state = "dispatched" /\ ~LeaseActive(t)

(***************************************************************************)
(* No dispatched task loses its lease without being requeued.  So it is in *)
(* a store with one run; with a second run, not so in the code.            *)
(***************************************************************************)
NoneStranded == \A t \in Task : ~Stranded(t)

(***************************************************************************)
(* Whatever crashes, lapses, is paused, canceled or answered late, the one *)
(* step that strands a task is the sweep of another run's tick: a tick of  *)
(* its own run requeues what it sweeps, and a result decides the task in   *)
(* the transaction that releases its lease.                                *)
(***************************************************************************)
StrandedByOthersOnly ==
    [][\A t \in Task : Stranded(t)' /\ ~Stranded(t) =>
         \E d \in Driver, r \in Run \ {RunOf[t]} : Dispatch(d, r) \/ Terminate(d, r)]_vars

\* Not so in the code, whose recovery does not count attempts: no task is
\* attempted more often than max_attempts_per_task.
AttemptLimit == \A t \in Task : task[t].tries <= MaxAttempts

Outcomes == INSTANCE TaskOutcomes WITH
    verdict <- [t \in Task |-> IF Settled(t) THEN task[t].state ELSE "open"],
    winner <- [t \in Task |-> task[t].accepted]

\* The tasks table decides each task at most once and for good, a success
\* from one attempt, dependencies first: the promise of TaskOutcomes.
ImplementsOutcomes == Outcomes!Spec
=============================================================================
