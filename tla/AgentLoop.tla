----------------------------- MODULE AgentLoop -----------------------------
(***************************************************************************)
(* The agent-loop research of agents_orchestration: every seed task of an  *)
(* agent_loop Plan is explored step by step by a model, under the lease of *)
(* the task's attempt (the agent branch of runtime/tick.py, with           *)
(* orchestration/research_agent_loop.py, its repositories, the join of     *)
(* orchestration/phases.py and the focused replan).                        *)
(*                                                                         *)
(* A step takes three transactions: the dispatch that claims the seed and  *)
(* stores the step as DECIDING, the one that stores the decided action as  *)
(* PREPARED and charges its reasoning, and the acceptance of the whole     *)
(* batch.  Between them the model and the capability are called.  Only the *)
(* newest attempt of a seed can still matter, so epoch, claimed and open   *)
(* describe that one; an older holder is one whose epoch is smaller.       *)
(* Reasoning costs tokens and a capability costs money: two resources,     *)
(* neither of which the other call touches.                                *)
(***************************************************************************)
EXTENDS Naturals, Sequences, FiniteSets, FiniteSetsExt, SequencesExt

CONSTANTS
    Driver,        \* the processes that tick
    Seed,          \* the seed tasks the Plans can have
    Initial,       \* the seeds of Plan version 1
    Capability,    \* the capabilities the boundary allows
    Required,      \* [Seed -> SUBSET Capability]: required_coverage
    Focus,         \* the focus hashes of the directions a model can propose
    SeedFocus,     \* the focus of a loop's own seed direction
    Tokens,        \* what one decision can cost
    Costs,         \* what one capability call can cost
    Estimate,      \* the cost_usd of a capability's descriptor
    Reservation,   \* reasoning_reservation_tokens
    MaxSteps, MaxDirections, LoopTokens, LoopCost,    \* a seed's boundary
    RunTokens, RunCost,                               \* the run's Budget
    Dated,         \* whether that Budget has a deadline_at
    MaxConcurrency,    \* policy.max_concurrency: what one tick dispatches
    Rank,          \* [Seed -> Nat]: the seeds by depth and task_id
    MaxAttempts,   \* policy.max_attempts_per_task, counted per step
    MaxReplans,    \* policy.max_replans
    MaxFaults,     \* bound: crashes with a batch in hand, leases that lapse
                   \* and renewals that fail under a holder
    Nothing        \* no action yet

ASSUME BoundaryAssumption ==
    /\ IsFiniteSet(Seed)
    /\ Initial \subseteq Seed /\ Initial # {}
    /\ Required \in [Seed -> SUBSET Capability]
    /\ SeedFocus \in Focus
    /\ Dated \in BOOLEAN
    /\ Rank \in [Seed -> Nat]
    /\ \A s, u \in Seed : Rank[s] = Rank[u] => s = u
    /\ Tokens \subseteq Nat /\ Costs \subseteq Nat
    /\ {Estimate, Reservation, MaxDirections, MaxReplans} \subseteq Nat
    /\ MaxFaults \in Nat
    /\ {MaxSteps, LoopTokens, LoopCost, RunTokens, RunCost, MaxAttempts, MaxConcurrency}
           \subseteq Nat \ {0}

VARIABLES
    run,       \* [state, tokens, cost, replans]
    plan,      \* [version, seeds]: the accepted Plan
    task,      \* [Seed -> [state, accepted]]
    lease,     \* [Seed -> [epoch, claimed, open]]: newest lease and attempt
    loop,      \* [Seed -> the research_loops row]
    steps,     \* [Seed -> Seq(the research_steps row)], by step_index
    driver,    \* [Driver -> [Seed -> what a tick holds in memory]]
    lapsed,    \* seeds whose active lease is past expires_at
    backedOff, \* seeds in AWAITING_RETRY whose backoff has elapsed
    overdue,   \* the run is past deadline_at
    faults     \* faults so far

store == <<run, plan, task, lease, loop, steps>>
clock == <<lapsed, backedOff, overdue, faults>>
vars == <<store, driver, clock>>

Query(c) == [kind |-> "query", arg |-> c]
AddDirection(f) == [kind |-> "add_direction", arg |-> f]
\* A stop names supporting evidence: some of the loop's own, or another's.
Stop(support) == [kind |-> "stop", arg |-> support]
Action == {Query(c) : c \in Capability} \cup {AddDirection(f) : f \in Focus}
              \cup {Stop(support) : support \in {"owned", "foreign"}}

ASSUME NothingAssumption == Nothing \notin Action

NoLoop == [version |-> 0, status |-> "none", count |-> 0, next |-> 0,
           foci |-> {}, directions |-> 0, coverage |-> {}, evidence |-> FALSE,
           tokens |-> 0, cost |-> 0]
Free == [epoch |-> 0, stage |-> "idle", cost |-> 0, found |-> FALSE]

Init ==
    /\ run = [state |-> "researching", tokens |-> 0, cost |-> 0, replans |-> 0]
    /\ plan = [version |-> 1, seeds |-> Initial]
    /\ task = [s \in Seed |-> [state |-> "pending", accepted |-> FALSE]]
    /\ lease = [s \in Seed |-> [epoch |-> 0, claimed |-> FALSE, open |-> FALSE]]
    /\ loop = [s \in Seed |-> NoLoop]
    /\ steps = [s \in Seed |-> <<>>]
    /\ driver = [d \in Driver |-> [s \in Seed |-> Free]]
    /\ lapsed = {} /\ backedOff = {} /\ overdue = FALSE /\ faults = 0

-----------------------------------------------------------------------------
(* Reads. *)

Held(d) == {s \in Seed : driver[d][s].stage # "idle"}
Busy(d) == Held(d) # {}
Holds(d, s, stage) == driver[d][s].stage = stage
Current(s) == Len(steps[s])            \* the position of the newest step
Closed(l) == l.status \in {"completed", "exhausted"}

\* AttemptValidator.validate: a seed's plan version moves with the Plan only
\* when it is settled, and then no lease of it is active.
HolderByTask(d, s) == task[s].state = "dispatched"    \* faulty: no lease check
Holder(d, s) ==
    /\ lease[s].epoch = driver[d][s].epoch
    /\ lease[s].claimed /\ lease[s].open
    /\ task[s].state = "dispatched"

\* BudgetGuard.check_run
Spent == overdue \/ run.tokens >= RunTokens \/ run.cost >= RunCost

\* consume_budget_safe: a use that overruns the budget is not recorded, it
\* fails the run whatever state the run is in.
Charged(r, tokens, cost) ==
    IF r.tokens + tokens > RunTokens \/ r.cost + cost > RunCost
    THEN [r EXCEPT !.state = "failed"]
    ELSE [r EXCEPT !.tokens = @ + tokens, !.cost = @ + cost]

-----------------------------------------------------------------------------
(* The dispatch transaction. *)

Expired == {s \in lapsed : lease[s].claimed}
Requeued == {s \in Expired : task[s].state = "dispatched"}
ReadmittedNone == {}    \* faulty: nothing takes a step out of its backoff
Readmitted == {s \in backedOff : task[s].state = "awaiting_retry"}
Runnable == {s \in plan.seeds :
                \/ s \in Requeued \cup Readmitted
                \/ task[s].state \in {"pending", "ready"}}

\* Scheduler.ready_work: a tick takes the first max_concurrency of them.
Ready == {s \in Runnable :
             Cardinality({u \in Runnable : Rank[u] < Rank[s]}) < MaxConcurrency}

\* _ensure_loop
Ensured(s) ==
    IF loop[s].status # "none" THEN loop[s]
    ELSE [NoLoop EXCEPT !.version = plan.version, !.status = "active",
                        !.foci = {SeedFocus}]

\* _exhausted_before_dispatch
ExhaustedBefore(l) ==
    \/ l.count >= MaxSteps
    \/ l.tokens + Reservation > LoopTokens
    \/ l.cost >= LoopCost

\* _prepare_deciding_step: the step a claim with epoch e works on, new or the
\* unaccepted one the loop is at.
Forgotten(s, e) ==    \* faulty: a decided action is decided again
    [status |-> "deciding", owner |-> e, action |-> Nothing, tokens |-> 0,
     cost |-> 0, retries |-> 0]
Resumed(s, e) ==
    IF Current(s) = Ensured(s).next
    THEN [status |-> "deciding", owner |-> e, action |-> Nothing,
          tokens |-> 0, cost |-> 0, retries |-> 0]
    ELSE [steps[s][Current(s)] EXCEPT
            !.owner = e,
            !.status = IF steps[s][Current(s)].action # Nothing
                       THEN "prepared" ELSE "deciding"]

WithStep(s, step) ==
    IF Current(s) = Ensured(s).next THEN Append(steps[s], step)
                                    ELSE [steps[s] EXCEPT ![Current(s)] = step]

(***************************************************************************)
(* The seeds whose loop cannot pay for one more decision are closed, all   *)
(* other ready seeds are claimed; a seed the tick recovers and has no room *)
(* for waits for the next one.  A tick with nothing ready commits nothing; *)
(* one past the deadline, whose budget is spent or is smaller than the     *)
(* reservations of the ready seeds, ends the run.                          *)
(***************************************************************************)
Denied == Spent \/ (Ready # {} /\ run.tokens + Reservation * Cardinality(Ready) > RunTokens)

TaskAfterDispatch(s, closed) ==
    IF s \in closed THEN [task[s] EXCEPT !.state = "succeeded"]
    ELSE IF s \in Ready THEN [task[s] EXCEPT !.state = "dispatched"]
    ELSE IF s \in Requeued THEN [task[s] EXCEPT !.state = "pending"]
    ELSE IF s \in Readmitted THEN [task[s] EXCEPT !.state = "ready"] ELSE task[s]

Dispatch(d) ==
    LET closed == {s \in Ready : ExhaustedBefore(Ensured(s))}
        claimed == Ready \ closed
    IN
    /\ ~Busy(d) /\ run.state = "researching" /\ Ready # {} /\ ~Denied
    /\ loop' = [s \in Seed |->
         IF s \in closed THEN [Ensured(s) EXCEPT !.status = "exhausted"]
         ELSE IF s \in claimed THEN Ensured(s) ELSE loop[s]]
    /\ task' = [s \in Seed |-> TaskAfterDispatch(s, closed)]
    /\ lease' = [s \in Seed |->
         IF s \in claimed
         THEN [epoch |-> lease[s].epoch + 1, claimed |-> TRUE, open |-> TRUE]
         ELSE IF s \in Expired
         THEN [lease[s] EXCEPT !.claimed = FALSE, !.open = FALSE] ELSE lease[s]]
    /\ steps' = [s \in Seed |->
         IF s \in claimed THEN WithStep(s, Resumed(s, lease[s].epoch + 1))
                          ELSE steps[s]]
    /\ driver' = [driver EXCEPT ![d] = [s \in Seed |->
         IF s \notin claimed THEN Free
         ELSE [Free EXCEPT !.epoch = lease[s].epoch + 1,
                 !.stage = IF Resumed(s, 1).status = "prepared"
                           THEN "execute" ELSE "decide"]]]
    /\ lapsed' = lapsed \ Expired
    /\ backedOff' = backedOff \ Readmitted
    /\ UNCHANGED <<run, plan, overdue, faults>>

\* _terminate, with the recovery that preceded it.
Terminate(d) ==
    /\ ~Busy(d) /\ run.state = "researching" /\ Denied
    /\ \E s \in plan.seeds : task[s].state # "succeeded"
    /\ run' = [run EXCEPT !.state = "failed"]
    /\ task' = [s \in Seed |->
         IF s \in Requeued THEN [task[s] EXCEPT !.state = "pending"]
         ELSE IF s \in Readmitted /\ ~Spent THEN [task[s] EXCEPT !.state = "ready"]
         ELSE task[s]]
    /\ lease' = [s \in Seed |-> IF s \in Expired
                 THEN [lease[s] EXCEPT !.claimed = FALSE, !.open = FALSE] ELSE lease[s]]
    /\ lapsed' = lapsed \ Expired
    /\ backedOff' = IF Spent THEN backedOff ELSE backedOff \ Readmitted
    /\ UNCHANGED <<plan, loop, steps, driver, overdue, faults>>

\* _guard_terminate: an advance looks at budget and deadline before the phase.
GuardTerminate(d) ==
    /\ ~Busy(d) /\ run.state # "failed" /\ Spent
    /\ run' = [run EXCEPT !.state = "failed"]
    /\ UNCHANGED <<plan, task, lease, loop, steps, driver, clock>>

-----------------------------------------------------------------------------
(* The execution of a dispatched step, outside any transaction but one.    *)

Reaches(d, s, stage) == driver' = [driver EXCEPT ![d][s].stage = stage]

\* Directions are unique per loop by their focus hash.
NewFocus(s, a) == a.kind = "add_direction" /\ a.arg \notin loop[s].foci

\* ActionValidator.validate, for what the boundary and not the wording of
\* the answer decides: a direction beyond max_directions, unless it is known.
BeyondBoundary(s, a) ==
    /\ NewFocus(s, a)
    /\ loop[s].directions >= MaxDirections

\* The loop's budget in _persist_prepared_action: only a query is held to it.
OverLoopBudget(s, a, tokens) ==
    /\ a.kind = "query"
    /\ \/ loop[s].tokens + tokens > LoopTokens
       \/ loop[s].cost + Estimate > LoopCost

RunAfterDecision(a, tokens) ==
    LET r == Charged(run, tokens, 0)
    IN IF a.kind = "query" /\ r.cost + Estimate > RunCost
       THEN [r EXCEPT !.state = "failed"] ELSE r

\* The step still is what this dispatch was given.
Undecided(d, s) ==
    /\ Holder(d, s)
    /\ steps[s][Current(s)].status = "deciding"
    /\ steps[s][Current(s)].owner = driver[d][s].epoch

(***************************************************************************)
(* decide() returns an action and _persist_prepared_action stores it with  *)
(* its price, even when the run or the loop cannot pay for its execution.  *)
(***************************************************************************)
Decide(d, s) ==
    /\ Holds(d, s, "decide")
    /\ Undecided(d, s)
    /\ \E a \in Action, tokens \in Tokens :
        /\ ~BeyondBoundary(s, a)
        /\ run' = RunAfterDecision(a, tokens)
        /\ steps' = [steps EXCEPT ![s][Current(s)] =
             [@ EXCEPT !.status = "prepared", !.action = a, !.tokens = tokens]]
        /\ Reaches(d, s, IF run'.state = "failed" \/ OverLoopBudget(s, a, tokens)
                         THEN "refused" ELSE "execute")
    /\ UNCHANGED <<plan, task, lease, loop, clock>>

\* The provider fails or answers out of shape (both are tried again), or the
\* answer is outside the boundary; nothing is stored and nothing is charged.
DecideFails(d, s) ==
    /\ Holds(d, s, "decide")
    /\ \/ Reaches(d, s, "transient")
       \/ Reaches(d, s, "refused")
    /\ UNCHANGED <<store, clock>>

\* The dispatch lost its lease while the model was thinking.
DecideTooLate(d, s) ==
    /\ Holds(d, s, "decide")
    /\ ~Undecided(d, s)
    /\ Reaches(d, s, "fenced")
    /\ UNCHANGED <<store, clock>>

\* execute_action: a query goes to the router, whose result can carry a cost
\* when it succeeds and when it fails; the other actions do nothing here.  A
\* holder that lost its step repeats what it was given: any result will do,
\* for none is accepted.
Execute(d, s) ==
    LET asks == steps[s][Current(s)].owner = driver[d][s].epoch
                    => steps[s][Current(s)].action.kind = "query"
    IN
    /\ Holds(d, s, "execute")
    /\ \/ /\ asks
          /\ \E stage \in {"success", "transient", "refused"}, c \in Costs, f \in BOOLEAN :
                /\ f => stage = "success"
                /\ driver' = [driver EXCEPT ![d][s] =
                     [@ EXCEPT !.stage = stage, !.cost = c, !.found = f]]
       \/ ~asks /\ Reaches(d, s, "success")
    /\ UNCHANGED <<store, clock>>

\* A renewal of the lease failed during the call: its result is not used.
Fence(d, s) ==
    /\ Holds(d, s, "decide") \/ Holds(d, s, "execute")
    /\ faults < MaxFaults
    /\ faults' = faults + 1
    /\ Reaches(d, s, "fenced")
    /\ UNCHANGED <<store, lapsed, backedOff, overdue>>

-----------------------------------------------------------------------------
(* The accept transaction. *)

Done(d) == \A s \in Held(d) :
    driver[d][s].stage \in {"success", "transient", "refused", "fenced"}
Valid(d) == {s \in Held(d) : Holder(d, s) /\ ~Holds(d, s, "fenced")}

\* LoopGuard.evaluate
OwnedOnly(s, support) == support = "owned"    \* faulty: coverage not asked for
GuardAccepts(s, support) ==
    /\ Required[s] \subseteq loop[s].coverage
    /\ support = "owned" /\ loop[s].evidence
    /\ \A i \in 1..Len(steps[s]) :
         i # Current(s) => steps[s][i].status \notin {"deciding", "prepared"}
    /\ loop[s].count = loop[s].next
    /\ loop[s].count = Cardinality({i \in 1..Len(steps[s]) : steps[s][i].status = "accepted"})
    /\ loop[s].directions = Cardinality(loop[s].foci \ {SeedFocus})

ExhaustedAfter(l) ==
    l.count >= MaxSteps \/ l.tokens >= LoopTokens \/ l.cost >= LoopCost

\* The loop after its current step was accepted with capability cost c.
Advanced(s, c, found) ==
    LET step == steps[s][Current(s)]
        a == step.action
        l == [loop[s] EXCEPT
               !.count = @ + 1, !.next = @ + 1,
               !.foci = IF NewFocus(s, a) THEN @ \cup {a.arg} ELSE @,
               !.directions = IF NewFocus(s, a) THEN @ + 1 ELSE @,
               !.coverage = IF a.kind = "query" THEN @ \cup {a.arg} ELSE @,
               !.evidence = @ \/ found,
               !.tokens = @ + step.tokens,
               !.cost = @ + step.cost + c]
    IN [l EXCEPT !.status =
          IF a.kind = "stop" /\ GuardAccepts(s, a.arg) THEN "completed"
          ELSE IF ExhaustedAfter(l) THEN "exhausted" ELSE "active"]

\* _accept_agent_failure: the step's own failures decide, not the task's.
Retries(s, stage) ==
    stage = "transient" /\ steps[s][Current(s)].retries + 1 < MaxAttempts

GivenUpAsFailed(s, c) == [loop[s] EXCEPT !.status = "failed"]    \* faulty: not a status a loop gets
Unbilled(s, c) == [loop[s] EXCEPT !.status = "exhausted"]    \* faulty: the failed step is free
GivenUp(s, c) ==
    LET step == steps[s][Current(s)]
    IN [loop[s] EXCEPT !.status = "exhausted",
                       !.tokens = @ + step.tokens,
                       !.cost = @ + step.cost + c]

LoopAfter(d, s) ==
    LET h == driver[d][s] IN
    IF h.stage = "success" THEN Advanced(s, h.cost, h.found)
    ELSE IF Retries(s, h.stage) THEN loop[s] ELSE GivenUp(s, h.cost)

StepAfter(d, s) ==
    LET h == driver[d][s] IN
    IF h.stage = "success"
    THEN [steps[s][Current(s)] EXCEPT !.status = "accepted", !.cost = @ + h.cost]
    ELSE [steps[s][Current(s)] EXCEPT !.status = "failed", !.cost = @ + h.cost,
                                      !.retries = @ + 1]

TaskAfter(d, s) ==
    IF Closed(LoopAfter(d, s)) THEN [state |-> "succeeded", accepted |-> TRUE]
    ELSE [task[s] EXCEPT !.state =
            IF Holds(d, s, "success") THEN "pending" ELSE "awaiting_retry"]

Accept(d) ==
    /\ Busy(d) /\ Done(d)
    /\ run' = FoldSeq(LAMBDA s, r : Charged(r, 0, driver[d][s].cost), run,
                      SetToSeq(Valid(d)))
    /\ loop' = [s \in Seed |-> IF s \in Valid(d) THEN LoopAfter(d, s) ELSE loop[s]]
    /\ steps' = [s \in Seed |-> IF s \in Valid(d)
         THEN [steps[s] EXCEPT ![Current(s)] = StepAfter(d, s)] ELSE steps[s]]
    /\ task' = [s \in Seed |-> IF s \in Valid(d) THEN TaskAfter(d, s) ELSE task[s]]
    /\ lease' = [s \in Seed |->
         IF s \in Valid(d) THEN [lease[s] EXCEPT !.claimed = FALSE, !.open = FALSE]
         ELSE IF s \in Held(d) /\ lease[s].epoch = driver[d][s].epoch
         THEN [lease[s] EXCEPT !.open = FALSE] ELSE lease[s]]
    /\ driver' = [driver EXCEPT ![d] = [s \in Seed |-> Free]]
    /\ lapsed' = lapsed \ Valid(d)
    /\ UNCHANGED <<plan, backedOff, overdue, faults>>

-----------------------------------------------------------------------------
(* The phase around the loops. *)

Settled == \A s \in plan.seeds : task[s].state = "succeeded"

\* ResearchPhaseHandler.execute: a seed without a loop of this Plan is an
\* inherited one, whose proof of work is its accepted attempt.
LoopsClosed ==
    plan.seeds = {s \in plan.seeds :
                    IF loop[s].version = plan.version THEN Closed(loop[s])
                    ELSE task[s].accepted}

Join ==
    /\ run.state = "researching" /\ ~Spent /\ Settled /\ LoopsClosed
    /\ run' = [run EXCEPT !.state = "analyzing"]
    /\ UNCHANGED <<plan, task, lease, loop, steps, driver, clock>>

\* replan_and_transition after a research gap: every settled seed is carried
\* over and one is added, with the boundary of the first.  PlanValidator
\* asks the ceilings of all of them from what the run has left.
Affordable(seeds) ==
    /\ Cardinality(seeds) * LoopTokens <= RunTokens - run.tokens
    /\ Cardinality(seeds) * LoopCost <= RunCost - run.cost

Replan(s) ==
    /\ run.state = "analyzing"
    /\ run.replans < MaxReplans
    /\ s \notin plan.seeds
    /\ Affordable(plan.seeds \cup {s})
    /\ plan' = [version |-> plan.version + 1, seeds |-> plan.seeds \cup {s}]
    /\ run' = [run EXCEPT !.state = "researching", !.replans = @ + 1]
    /\ UNCHANGED <<task, lease, loop, steps, driver, clock>>

-----------------------------------------------------------------------------
(* The environment. *)

\* The process dies: its batch is lost, also what was decided and not stored.
Crash(d) ==
    /\ Busy(d) /\ faults < MaxFaults
    /\ faults' = faults + 1
    /\ driver' = [driver EXCEPT ![d] = [s \in Seed |-> Free]]
    /\ UNCHANGED <<store, lapsed, backedOff, overdue>>

\* The heartbeat of a call renews its lease, but a seed whose call has
\* returned waits for the rest of its batch with none.
LeaseLapses(s) ==
    /\ lease[s].claimed /\ s \notin lapsed
    /\ IF \E d \in Driver : s \in Held(d) /\ driver[d][s].epoch = lease[s].epoch
       THEN faults < MaxFaults /\ faults' = faults + 1 ELSE UNCHANGED faults
    /\ lapsed' = lapsed \cup {s}
    /\ UNCHANGED <<store, driver, backedOff, overdue>>

BackoffElapses(s) ==
    /\ task[s].state = "awaiting_retry" /\ s \notin backedOff
    /\ backedOff' = backedOff \cup {s}
    /\ UNCHANGED <<store, driver, lapsed, overdue, faults>>

DeadlinePasses ==
    /\ Dated /\ ~overdue
    /\ overdue' = TRUE
    /\ UNCHANGED <<store, driver, lapsed, backedOff, faults>>

-----------------------------------------------------------------------------
Calls(d, s) == Decide(d, s) \/ DecideFails(d, s) \/ DecideTooLate(d, s) \/ Execute(d, s)

Next ==
    \/ \E d \in Driver : Dispatch(d)
    \/ \E d \in Driver : Terminate(d)
    \/ \E d \in Driver : GuardTerminate(d)
    \/ \E d \in Driver, s \in Seed : Decide(d, s)
    \/ \E d \in Driver, s \in Seed : DecideFails(d, s)
    \/ \E d \in Driver, s \in Seed : DecideTooLate(d, s)
    \/ \E d \in Driver, s \in Seed : Execute(d, s)
    \/ \E d \in Driver, s \in Seed : Fence(d, s)
    \/ \E d \in Driver : Accept(d)
    \/ Join
    \/ \E s \in Seed : Replan(s)
    \/ \E d \in Driver : Crash(d)
    \/ \E s \in Seed : LeaseLapses(s)
    \/ \E s \in Seed : BackoffElapses(s)
    \/ DeadlinePasses

(***************************************************************************)
(* The coordinator ticks a researching run until it stops, calls return or *)
(* time out, and time passes.                                              *)
(***************************************************************************)
Fairness ==
    /\ SF_vars(\E d \in Driver : Dispatch(d) \/ Terminate(d))
    /\ \A d \in Driver : WF_vars(Accept(d))
    /\ \A d \in Driver, s \in Seed : WF_vars(Calls(d, s))
    /\ \A s \in Seed : WF_vars(LeaseLapses(s)) /\ WF_vars(BackoffElapses(s))

Spec == Init /\ [][Next]_vars
FairSpec == Spec /\ Fairness
-----------------------------------------------------------------------------
(* Properties. *)

TypeOK ==
    /\ run \in [state : {"researching", "analyzing", "failed"}, tokens : Nat,
                cost : Nat, replans : Nat]
    /\ plan \in [version : Nat, seeds : SUBSET Seed]
    /\ task \in [Seed -> [state : {"pending", "ready", "dispatched",
                                   "awaiting_retry", "succeeded"},
                          accepted : BOOLEAN]]
    /\ lease \in [Seed -> [epoch : Nat, claimed : BOOLEAN, open : BOOLEAN]]
    /\ loop \in [Seed -> [version : Nat, count : Nat, next : Nat,
                          status : {"none", "active", "completed", "exhausted"},
                          foci : SUBSET Focus, directions : Nat,
                          coverage : SUBSET Capability, evidence : BOOLEAN,
                          tokens : Nat, cost : Nat]]
    /\ steps \in [Seed -> Seq([status : {"deciding", "prepared", "accepted", "failed"},
                               owner : Nat, action : Action \cup {Nothing},
                               tokens : Nat, cost : Nat, retries : Nat])]
    /\ driver \in [Driver -> [Seed -> [epoch : Nat, cost : Nat, found : BOOLEAN,
                       stage : {"idle", "decide", "execute", "success",
                                "transient", "refused", "fenced"}]]]
    /\ lapsed \subseteq Seed /\ backedOff \subseteq Seed
    /\ overdue \in BOOLEAN
    /\ faults \in Nat

TotalTokens(S) == MapThenSumSet(LAMBDA p : steps[p[1]][p[2]].tokens, S)
TotalCost(S) == MapThenSumSet(LAMBDA p : steps[p[1]][p[2]].cost, S)
Rows == UNION {{<<s, i>> : i \in 1..Len(steps[s])} : s \in Seed}
Billed(s) == {p \in Rows : p[1] = s /\ \/ steps[s][p[2]].status = "accepted"
                                       \/ Closed(loop[s])}

(***************************************************************************)
(* Usage is accepted exactly once: the run was charged the reasoning and   *)
(* the capability calls its steps record, no more and, unless it was ended *)
(* for an overrun, no less; a loop was charged its accepted steps and,     *)
(* when it was given up, the step it was given up on.  However often a     *)
(* step was replayed after a crash, a lost lease or a retry.               *)
(***************************************************************************)
UsageAccounted ==
    /\ run.tokens <= TotalTokens(Rows) /\ run.cost <= TotalCost(Rows)
    /\ run.state # "failed" =>
         run.tokens = TotalTokens(Rows) /\ run.cost = TotalCost(Rows)
    /\ \A s \in Seed :
         /\ loop[s].tokens = TotalTokens(Billed(s))
         /\ loop[s].cost = TotalCost(Billed(s))

(***************************************************************************)
(* The rows of a seed agree with one another: the accepted steps are the   *)
(* first of its steps, at most one step follows them, and the counters the *)
(* LoopGuard compares count them; a seed is done when its loop is; and the *)
(* result of whoever still holds the lease fits the stored step, without   *)
(* which _accept would raise and lose the whole batch.                     *)
(***************************************************************************)
StepsCoherent ==
    /\ \A s \in Seed :
         /\ loop[s].count = loop[s].next
         /\ \A i \in 1..Len(steps[s]) :
              (steps[s][i].status = "accepted") <=> (i <= loop[s].count)
         /\ loop[s].count <= Len(steps[s]) /\ Len(steps[s]) <= loop[s].count + 1
         /\ loop[s].directions = Cardinality(loop[s].foci \ {SeedFocus})
         /\ loop[s].directions <= MaxDirections
         /\ (task[s].state = "succeeded") <=> Closed(loop[s])
    /\ \A d \in Driver : \A s \in Held(d) : Holder(d, s) =>
         /\ Len(steps[s]) = loop[s].count + 1
         /\ steps[s][Current(s)].owner = driver[d][s].epoch
         /\ Holds(d, s, "execute") \/ Holds(d, s, "success") =>
              steps[s][Current(s)].status = "prepared"

(***************************************************************************)
(* A loop closes as COMPLETED only with an accepted query for every        *)
(* capability its seed requires and evidence among their results, and the  *)
(* run leaves research only with every loop of its Plan closed.            *)
(***************************************************************************)
CoverageEarned ==
    /\ \A s \in Seed : loop[s].status = "completed" =>
         /\ loop[s].evidence
         /\ \A c \in Required[s] : \E i \in 1..Len(steps[s]) :
              steps[s][i].status = "accepted" /\ steps[s][i].action = Query(c)
    /\ run.state = "analyzing" => \A s \in plan.seeds : Closed(loop[s])

(***************************************************************************)
(* What was decided stays decided: an action, once stored, is the one that *)
(* every later holder of the step replays, an accepted step never changes  *)
(* and a closed loop never moves again.                                    *)
(***************************************************************************)
DecisionKept ==
    [][\A s \in Seed :
         /\ \A i \in 1..Len(steps[s]) :
              /\ i <= Len(steps'[s])
              /\ steps[s][i].action # Nothing =>
                   /\ steps'[s][i].action = steps[s][i].action
                   /\ steps'[s][i].tokens = steps[s][i].tokens
              /\ steps[s][i].status = "accepted" => steps'[s][i] = steps[s][i]
         /\ Closed(loop[s]) => loop'[s] = loop[s]]_vars

\* Every seed of the Plan is done in the end, whatever the model answers and
\* however often the bounds let a step be lost, unless the run was ended.
SeedsSettle ==
    \A s \in Seed : s \in plan.seeds ~> (Closed(loop[s]) \/ run.state = "failed")

(***************************************************************************)
(* When all loops of the Plan have closed the research can be joined.      *)
(* False: a seed closed for want of budget before any claim in a Plan has  *)
(* no accepted attempt, and the next Plan inherits it without a loop.      *)
(***************************************************************************)
JoinReachable == run.state = "researching" /\ Settled => LoopsClosed
=============================================================================
