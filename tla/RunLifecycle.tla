---------------------------- MODULE RunLifecycle ----------------------------
(***************************************************************************)
(* The life of one Run of agents_orchestration: the coordinator that       *)
(* advances it phase by phase (orchestration/coordinator.py, phases.py,    *)
(* replan.py, planner.py), the human gates, and the run commands           *)
(* (application/service.py).                                               *)
(*                                                                         *)
(* A driver is a process that may be inside a drive (drive_run), a loop of *)
(* advance() calls.  One advance loads the Run, asks a provider outside    *)
(* any transaction, loads the Run again to see whether the answer is       *)
(* stale, and commits the answer in a transaction that compares and sets   *)
(* state_version.  Commands and gate answers are single transactions of    *)
(* other processes and fall between those steps.                           *)
(*                                                                         *)
(* What a provider answers is open; the research tasks are counted only    *)
(* (TaskRuntime has their leases, attempts and dependencies).              *)
(***************************************************************************)
EXTENDS Naturals, Sequences, FiniteSets

CONSTANTS
    Driver,           \* the processes that advance the run
    Proposal,         \* the plans the planner may propose
    BoundaryOf,       \* [Proposal -> exploration boundary and mode]
    ApprovalRequired, \* the drivers composed with approval_required
    Limited,          \* the run's Budget has a cap or a deadline
    PlanSize,         \* research tasks of a proposed plan
    MaxReplans,       \* RunPolicy.max_replans
    MaxRevisions,     \* RunPolicy.max_report_revisions
    MaxIdle,          \* RunPolicy.max_attempts_per_task, the idle budget
    MaxRetries,       \* bound: task attempts of a plan that are retried
    MaxCommands,      \* bound: pause, resume and cancel commands
    MaxAnswers,       \* bound: gate responses
    MaxCrashes        \* bound: crashes of drivers

ASSUME RunPolicyAssumption ==
    /\ DOMAIN BoundaryOf = Proposal
    /\ ApprovalRequired \subseteq Driver
    /\ Limited \in BOOLEAN
    /\ PlanSize \in Nat \ {0}
    /\ MaxIdle \in Nat \ {0}
    /\ {MaxReplans, MaxRevisions, MaxRetries} \subseteq Nat
    /\ {MaxCommands, MaxAnswers, MaxCrashes} \subseteq Nat

VARIABLES
    run,        \* the runs row
    plans,      \* the plan_versions table, by version
    work,       \* the research tasks of the current plan
    gates,      \* the gates table
    streak,     \* [Phase -> [version, count]]: trailing idle observations
    call,       \* [Driver -> call]: process memory of a drive
    exhausted,  \* the run's budget or deadline is used up
    commands, answers, crashes

store == <<run, plans, work, gates, streak>>
bounds == <<commands, answers, crashes>>
vars == <<store, call, exhausted, bounds>>

-----------------------------------------------------------------------------
(* Run states and phases. *)

\* A phase is named by the one state it is eligible in.
Phase == {"normalizing", "planning", "researching", "analyzing", "writing",
          "reviewing", "finalizing"}
Terminal == {"succeeded", "failed", "canceled"}
RunState == {"created", "paused"} \cup Phase \cup Terminal

Stopped == Terminal \cup {"paused"}

Moved(r, state) == [r EXCEPT !.state = state, !.version = @ + 1]

OpenGates == {i \in DOMAIN gates : gates[i].status = "open"}

(* What a call to a handler may come back with, and whether it asks for    *)
(* another advance at once (continue_immediately).                         *)

Nothing == [does |-> "observe", to |-> "none", about |-> "none",
            counted |-> FALSE, more |-> TRUE]

Idle == [Nothing EXCEPT !.counted = TRUE]
IdleOnce == [Idle EXCEPT !.more = FALSE]
Wait == [Nothing EXCEPT !.more = FALSE]
End(state) == [Nothing EXCEPT !.does = "terminate", !.to = state]
Move(state) == [Nothing EXCEPT !.does = "move", !.to = state]
Revise == [Nothing EXCEPT !.does = "revise", !.to = "writing"]
Replan == [Nothing EXCEPT !.does = "replan", !.to = "researching"]
Accept(p) == [Nothing EXCEPT !.does = "accept", !.about = p]
Ask(type) == [Nothing EXCEPT !.does = "ask", !.to = type]
AskApproval(p) == [Ask("approval") EXCEPT !.about = p]

NoRun == [state |-> "created", version |-> 0, plan |-> 0, replans |-> 0,
          revisions |-> 0, pausedFrom |-> "normalizing"]

\* A driver between two advances of a drive, and one outside any drive.
NoCall == [stage |-> "idle", phase |-> "normalizing", run |-> NoRun,
           held |-> 0, outcome |-> Nothing]
Out == [NoCall EXCEPT !.stage = "out"]

Driving(d) == call[d].stage # "out"

\* Driver d goes on inside advance(), holding the given tasks.
Goes(d, stage, held, outcome) ==
    call' = [call EXCEPT ![d] =
        [stage |-> stage, phase |-> @.phase, run |-> @.run, held |-> held,
         outcome |-> outcome]]

-----------------------------------------------------------------------------
(* Research tasks of the current plan: ready, waiting (for a backoff or a  *)
(* lease to run out) or held by a driver; a failed one stays failed.       *)

Held == {d \in Driver : call[d].held > 0}
InFlight == work.waiting > 0 \/ Held # {}
AllTerminal == work.ready = 0 /\ ~InFlight
AllSucceeded == AllTerminal /\ ~work.failed

\* Tasks of plan row v, stemming from proposal p.
FreshWork(p, v, n) ==
    [ready |-> n, waiting |-> 0, failed |-> FALSE, retries |-> 0,
     origin |-> <<p, v>>]

-----------------------------------------------------------------------------
Init ==
    /\ run = [NoRun EXCEPT !.version = 1]
    /\ plans = <<>>
    /\ work = [ready |-> 0, waiting |-> 0, failed |-> FALSE, retries |-> 0,
               origin |-> <<>>]
    /\ gates = <<>>
    /\ streak = [p \in Phase |-> [version |-> 0, count |-> 0]]
    /\ call = [d \in Driver |-> Out]
    /\ exhausted = FALSE
    /\ commands = 0
    /\ answers = 0
    /\ crashes = 0

(***************************************************************************)
(* advance(), of a new drive or of one that goes on: load the run.  CREATED*)
(* and an exhausted budget need no provider.  A terminal or paused run and *)
(* one with an open gate are reported and left alone: a drive spins on the *)
(* paused one and returns on the others.                                   *)
(***************************************************************************)
Begin(d) ==
    /\ call[d].stage \in {"out", "idle"}
    /\ run.state \notin Stopped
    /\ run.state # "created" => OpenGates = {}
    /\ LET loaded(stage, o) ==
             [stage |-> stage, run |-> run, held |-> 0, outcome |-> o,
              phase |-> IF run.state \in Phase THEN run.state ELSE NoCall.phase]
       IN call' = [call EXCEPT ![d] =
            IF run.state = "created" THEN loaded("answered", Move("normalizing"))
            ELSE IF exhausted THEN loaded("answered", End("failed"))
            ELSE loaded("asked", Nothing)]
    /\ UNCHANGED <<store, exhausted, bounds>>

\* The next advance() would report TERMINAL or BLOCKED: the drive returns.
Return(d) ==
    /\ call[d].stage = "idle"
    /\ \/ run.state \in Terminal
       \/ run.state \in Phase /\ OpenGates # {}
    /\ call' = [call EXCEPT ![d] = Out]
    /\ UNCHANGED <<store, exhausted, bounds>>

\* max_advances is used up, or one advance was all that was asked for.
GiveUp(d) ==
    /\ call[d].stage = "idle"
    /\ call' = [call EXCEPT ![d] = Out]
    /\ UNCHANGED <<store, exhausted, bounds>>

(* The handlers of the phases, as the outcomes they may return for run r.  *)

PlanAnswers(d) ==
    IF d \in ApprovalRequired THEN {AskApproval(p) : p \in Proposal}
                              ELSE {Accept(p) : p \in Proposal}

\* Faulty: the join takes any settled task for a succeeded one.
JoinWhenTerminal == IF AllTerminal THEN {Move("analyzing")} ELSE {Wait}

\* Faulty: a drive does not stop for work that is not due yet.
ResearchSpins ==
    CASE AllSucceeded -> {Move("analyzing")}
      [] AllTerminal /\ work.failed -> {Idle}
      [] OTHER -> {Nothing}

\* ResearchPhaseHandler.execute, but for a tick that dispatches.
ResearchAnswers ==
    CASE AllSucceeded -> {Move("analyzing")}
      [] AllTerminal /\ work.failed -> {Idle}
      [] OTHER -> {Wait}

\* Faulty: the replan that exceeds the budget is still allowed.
GapOffByOne(r) ==
    IF r.replans > MaxReplans THEN {End("failed")} ELSE {Replan}

\* AnalysisPhaseHandler._gap_outcome
GapAnswers(r) ==
    IF r.replans >= MaxReplans THEN {End("failed")} ELSE {Replan}

\* A call of a model that fails, or whose answer does not parse, is an
\* exception, and the handler idles; in the analysis it also ends the drive.
PortAnswers(useful) == {Idle} \cup useful
AnalystAnswers(useful) == {IdleOnce} \cup useful

\* GoalPhaseHandler.execute
GoalAnswers == {Move("planning"), Ask("goal")}

\* What the review of the evidence may say.
SufficiencyVerdict == {"sufficient", "conflict", "research_gap"}

\* AnalysisPhaseHandler.execute: a conflict in the evidence is written up, a
\* gap (or no evidence at all) is researched.
AnalysisAnswers(r) ==
    UNION {IF v = "research_gap" THEN GapAnswers(r) ELSE {Move("writing")} :
             v \in SufficiencyVerdict}

WritingAnswers == {Move("reviewing")}

\* What the review of the report may say.  An answer that names no verdict
\* escalates.
ReviewVerdict == {"pass", "revise", "research_gap", "conflict", "escalate"}

\* ReviewPhaseHandler._map_verdict
VerdictAnswer(v, r) ==
    CASE v = "pass" -> Move("finalizing")
      [] v = "revise" -> IF r.revisions >= MaxRevisions THEN Idle ELSE Revise
      [] v = "research_gap" -> IF r.replans >= MaxReplans THEN Idle ELSE Ask("gap")
      [] OTHER -> Ask("conflict")

ReviewAnswers(r) == {VerdictAnswer(v, r) : v \in ReviewVerdict}

CompletionState == {"satisfied", "unsatisfied", "unknown", "not_applicable"}

\* CompletionEvaluator.evaluate, of the states of the contract's criteria.
Completion(states) ==
    IF states = {} THEN "not_applicable"
    ELSE IF "unsatisfied" \in states THEN "unsatisfied"
    ELSE IF "unknown" \in states THEN "unknown"
    ELSE "satisfied"

\* Finalizer.finalize: only a contract that is satisfied ends in success.
Ending(completion) == IF completion = "satisfied" THEN "succeeded" ELSE "failed"

FinalAnswers ==
    {Move(Ending(Completion(states))) : states \in SUBSET CompletionState}

\* The execute of the handler of driver d for the phase the run was loaded in.
Answers(phase, r, d) ==
    CASE phase = "normalizing" -> PortAnswers(GoalAnswers)
      [] phase = "planning"    -> PortAnswers(PlanAnswers(d))
      [] phase = "researching" -> ResearchAnswers
      [] phase = "analyzing"   -> AnalystAnswers(AnalysisAnswers(r))
      [] phase = "writing"     -> PortAnswers(WritingAnswers)
      [] phase = "reviewing"   -> PortAnswers(ReviewAnswers(r))
      [] phase = "finalizing"  -> PortAnswers(FinalAnswers)

\* classify_phase_result
NeverStale(d) == FALSE   \* faulty: a late answer counts as a current one
Stale(d) == call[d].run.version # run.version

\* The tick inside the research phase reads the run and its tasks again.
MayTick == ~AllTerminal /\ run.state \notin Stopped
MayDispatch ==
    MayTick /\ run.state = "researching" /\ OpenGates = {} /\ work.ready > 0
TickActs == MayTick /\ (exhausted \/ MayDispatch)

(***************************************************************************)
(* The provider has answered: _accept loads the run again.  A stale answer *)
(* is kept as an observation that does not count, and goes on as it would. *)
(***************************************************************************)
Answer(d) ==
    /\ call[d].stage = "asked"
    /\ call[d].phase = "researching" => ~TickActs
    /\ \E o \in Answers(call[d].phase, call[d].run, d) :
         call' = [call EXCEPT ![d] =
             [stage |-> "answered", phase |-> @.phase, run |-> run, held |-> 0,
              outcome |-> IF Stale(d) THEN [Nothing EXCEPT !.more = o.more] ELSE o]]
    /\ UNCHANGED <<store, exhausted, bounds>>

(***************************************************************************)
(* RuntimeTick.tick inside the research phase.  It may dispatch for a run  *)
(* that has moved since advance() loaded it.                               *)
(***************************************************************************)
TickTerminate(d) ==
    /\ call[d].stage = "asked" /\ call[d].phase = "researching"
    /\ MayTick
    /\ exhausted
    /\ run' = Moved(run, "failed")
    /\ Goes(d, "answered", 0, Nothing)
    /\ UNCHANGED <<plans, work, gates, streak, exhausted, bounds>>

TickDispatch(d) ==
    /\ call[d].stage = "asked" /\ call[d].phase = "researching"
    /\ MayDispatch
    /\ ~exhausted
    /\ Goes(d, "executing", work.ready, Nothing)
    /\ work' = [work EXCEPT !.ready = 0]
    /\ UNCHANGED <<run, plans, gates, streak, exhausted, bounds>>

(***************************************************************************)
(* The accept transaction of the tick looks at no run state: every outcome *)
(* charges its usage and bumps state_version, and one that overruns the    *)
(* budget terminates whatever run it finds.  The version has then moved,   *)
(* so advance() can only keep the tick as an observation.                  *)
(***************************************************************************)
TickAccept(d) ==
    /\ call[d].stage = "executing"
    /\ \E succeeded, failed \in 0..call[d].held, overrun \in BOOLEAN :
        LET retried == call[d].held - (succeeded + failed) IN
        /\ succeeded + failed <= call[d].held
        /\ work.retries + retried <= MaxRetries
        /\ overrun => Limited
        /\ work' = [work EXCEPT !.failed = @ \/ failed > 0,
                                !.waiting = @ + retried,
                                !.retries = @ + retried]
        /\ run' = [run EXCEPT
             !.state = IF overrun THEN "failed" ELSE @,
             !.version = @ + call[d].held]
    /\ Goes(d, "answered", 0, Nothing)
    /\ UNCHANGED <<plans, gates, streak, exhausted, bounds>>

-----------------------------------------------------------------------------
(* Committing an outcome.  drive_run goes on after PROGRESSED, and after   *)
(* IDLE if the outcome says so; it returns on TERMINAL and BLOCKED, and an *)
(* exception leaves it.                                                    *)

\* The advance has ended: the drive goes on or returns.
AtRest(more) == IF more THEN NoCall ELSE Out
Done(d, more) == call' = [call EXCEPT ![d] = AtRest(more)]

\* runs.save: UPDATE ... WHERE state_version = expected.
Current(d) == call[d].run.version = run.version

NextVersion(r) == r.plan + 1

\* plans.save: the boundary of a stored version is immutable.
Storable(p, v) == v \in DOMAIN plans => BoundaryOf[plans[v].content] = BoundaryOf[p]

Stored(p, v, status) ==
    LET row == [content |-> p, status |-> status] IN
    IF v \in DOMAIN plans THEN [plans EXCEPT ![v] = row] ELSE Append(plans, row)

Reset(phase) == [streak EXCEPT ![phase] = [version |-> 0, count |-> 0]]

\* PlanAcceptor.accept: the plan row, its tasks and the run in one go.
AcceptPlan(r, p) ==
    /\ plans' = Stored(p, NextVersion(r), "accepted")
    /\ work' = FreshWork(p, NextVersion(r), PlanSize)
    /\ run' = [Moved(r, "researching") EXCEPT !.plan = NextVersion(r)]

\* ReplanService.replan_and_transition: one task is added to those promoted.
FocusedReplan(r) ==
    LET last == Len(plans) IN
    /\ plans' = Append([plans EXCEPT ![last].status = "superseded"],
                       [content |-> plans[last].content, status |-> "accepted"])
    /\ work' = [work EXCEPT !.ready = 1, !.retries = 0]
    /\ run' = [Moved(r, "researching") EXCEPT !.plan = last + 1, !.replans = @ + 1]

Ready(d, what) == call[d].stage = "answered" /\ call[d].outcome.does = what

\* ReviewPhaseHandler.accept counts a revision; the accept of the other
\* handlers and a termination only move the run.
Accepted(r, o) ==
    [Moved(r, o.to) EXCEPT !.revisions = IF o.does = "revise" THEN @ + 1 ELSE @]

\* A transition, a termination, or a revision of the report.
CommitMove(d) ==
    /\ \/ Ready(d, "move")
       \/ Ready(d, "revise")
       \/ Ready(d, "terminate")
    /\ Current(d)
    /\ run' = Accepted(call[d].run, call[d].outcome)
    /\ streak' = Reset(call[d].phase)
    /\ Done(d, call[d].outcome.does # "terminate")
    /\ UNCHANGED <<plans, work, gates, exhausted, bounds>>

CommitPlan(d) ==
    /\ Ready(d, "accept")
    /\ Current(d)
    /\ Storable(call[d].outcome.about, NextVersion(call[d].run))
    /\ AcceptPlan(call[d].run, call[d].outcome.about)
    /\ streak' = Reset("planning")
    /\ Done(d, TRUE)
    /\ UNCHANGED <<gates, exhausted, bounds>>

\* The graph of the replan passed its validation; RollBack has the other case.
CommitReplan(d) ==
    /\ Ready(d, "replan")
    /\ Current(d)
    /\ FocusedReplan(call[d].run)
    /\ streak' = Reset(call[d].phase)
    /\ Done(d, TRUE)
    /\ UNCHANGED <<gates, exhausted, bounds>>

(***************************************************************************)
(* _accept_blocked opens a gate bound to the version that was loaded.  It  *)
(* does not write the runs row, so nothing compares that version: the run  *)
(* may have moved meanwhile.                                               *)
(***************************************************************************)
CommitAsk(d) ==
    /\ Ready(d, "ask")
    /\ LET c == call[d]
           v == NextVersion(c.run)
           approval == c.outcome.to = "approval"
           p == c.outcome.about
       IN
        /\ approval => Storable(p, v)
        /\ plans' = IF approval THEN Stored(p, v, "proposed") ELSE plans
        /\ gates' = Append(gates,
             [type |-> c.outcome.to, status |-> "open", lapsed |-> FALSE,
              artifact |-> IF approval THEN <<p, v>> ELSE <<>>,
              version |-> c.run.version, answer |-> "none"])
        /\ streak' = Reset(c.phase)
    /\ Done(d, FALSE)
    /\ UNCHANGED <<run, work, exhausted, bounds>>

(***************************************************************************)
(* _accept_observation.  The idle budget counts the trailing observations  *)
(* of the same phase and version; the one that fills it makes advance()    *)
(* terminate the run in a second transaction.                              *)
(***************************************************************************)
NeverCounted(d) == 0     \* faulty: idle observations are not counted
Idled(d) ==
    LET s == streak[call[d].phase] IN
    IF ~call[d].outcome.counted THEN 0
    ELSE IF s.version = call[d].run.version THEN s.count + 1 ELSE 1

Observe(d) ==
    /\ Ready(d, "observe")
    /\ streak' = [streak EXCEPT ![call[d].phase] =
         [version |-> IF Idled(d) = 0 THEN 0 ELSE call[d].run.version,
          count |-> Idled(d)]]
    /\ IF Idled(d) >= MaxIdle
       THEN Goes(d, "answered", 0, End("failed"))
       ELSE Done(d, call[d].outcome.more)
    /\ UNCHANGED <<run, plans, work, gates, exhausted, bounds>>

\* StaleVersionError from runs.save, ConcurrencyError from plans.save, or the
\* ValueError of a replan whose graph the validator rejects: whether it does
\* is left open.
Refused(d) ==
    LET o == call[d].outcome IN
    \/ o.does \notin {"observe", "ask"} /\ ~Current(d)
    \/ o.about \in Proposal /\ ~Storable(o.about, NextVersion(call[d].run))
    \/ o.does = "replan"

\* The transaction raises: advance() and the drive end without a write, so no
\* streak counts the attempt and the next drive meets the same outcome again.
RollBack(d) ==
    /\ call[d].stage = "answered"
    /\ Refused(d)
    /\ Done(d, FALSE)
    /\ UNCHANGED <<store, exhausted, bounds>>

-----------------------------------------------------------------------------
(* Gate responses: respond_gate, one transaction each. *)

\* plans.current(run).graph, which the approval hash is taken of.
Candidate == IF plans = <<>> THEN <<>> ELSE <<plans[Len(plans)].content, Len(plans)>>

NoDrift(g) == FALSE      \* faulty: the hash of the candidate is not compared
Drifted(g) == g.type = "approval" /\ g.artifact # Candidate

AnyVersion(g) == TRUE    \* faulty: the binding to a version is not compared
Bound(g) == g.version = run.version

Respond(i) ==
    /\ answers < MaxAnswers
    /\ answers' = answers + 1
    /\ ~Drifted(gates[i])
    /\ gates[i].status = "open"
    /\ ~gates[i].lapsed

Consumed(i, answer) ==
    gates' = [gates EXCEPT ![i].status = "consumed", ![i].answer = answer]

\* A candidate that changed since cancels the gate, before its state is
\* looked at: an answered gate too.
RespondDrifted(i) ==
    /\ answers < MaxAnswers
    /\ answers' = answers + 1
    /\ Drifted(gates[i])
    /\ gates' = [gates EXCEPT ![i].status = "canceled"]
    /\ UNCHANGED <<run, plans, work, streak, call, exhausted, commands, crashes>>

RespondStale(i) ==
    /\ Respond(i)
    /\ ~Bound(gates[i])
    /\ gates' = [gates EXCEPT ![i].status = "canceled"]
    /\ UNCHANGED <<run, plans, work, streak, call, exhausted, commands, crashes>>

\* Faulty: a rejected plan sends the run to a state that no phase drives.
ContinuationWaits(type) ==
    CASE type = "goal"     -> {<<"clarified", "normalizing">>}
      [] type = "approval" -> {<<"rejected", "awaiting_plan_approval">>}
      [] OTHER             -> {<<"escalated", "failed">>}

\* Answers that only move the run, or keep its state in a new version.
Continuation(type) ==
    CASE type = "goal"     ->
             {<<"clarified", "normalizing">>, <<"cancelled", "canceled">>}
      [] type = "approval" -> {<<"rejected", "planning">>}
      [] type = "conflict" ->
             {<<"resolved", "researching">>, <<"escalated", "failed">>}
      [] type = "gap"      -> {<<"escalated", "failed">>}

RespondMove(i) ==
    /\ Respond(i)
    /\ Bound(gates[i])
    /\ \E c \in Continuation(gates[i].type) :
        /\ Consumed(i, c[1])
        /\ run' = Moved(run, c[2])
    /\ UNCHANGED <<plans, work, streak, call, exhausted, commands, crashes>>

\* The stored candidate becomes the plan: the response carries no plan.
RespondApproved(i) ==
    /\ Respond(i)
    /\ Bound(gates[i])
    /\ gates[i].type = "approval"
    /\ Consumed(i, "approved")
    /\ AcceptPlan(run, Candidate[1])
    /\ UNCHANGED <<streak, call, exhausted, commands, crashes>>

\* A review gap is resolved by the focused replan ANALYZE uses.  Its budget
\* is checked again here; a gate is only bound while some is left.  A replan
\* the validator rejects rolls the whole response back: it is no step.
RespondGap(i) ==
    /\ Respond(i)
    /\ Bound(gates[i])
    /\ gates[i].type = "gap"
    /\ run.replans < MaxReplans
    /\ Consumed(i, "resolved")
    /\ FocusedReplan(run)
    /\ UNCHANGED <<streak, call, exhausted, commands, crashes>>

\* The clock passes expires_at.  Nothing expires the gate: it stays open.
Lapse(i) ==
    /\ gates[i].status = "open" /\ ~gates[i].lapsed
    /\ gates' = [gates EXCEPT ![i].lapsed = TRUE]
    /\ UNCHANGED <<run, plans, work, streak, call, exhausted, bounds>>

-----------------------------------------------------------------------------
(* Run commands, each checked against the version the caller last saw. *)

Command ==
    /\ commands < MaxCommands
    /\ commands' = commands + 1
    /\ UNCHANGED <<plans, work, gates, streak, call, exhausted, answers, crashes>>

\* pause_run and cancel_run accept a run in any state.
Pause ==
    /\ Command
    /\ run' = [Moved(run, "paused") EXCEPT !.pausedFrom = run.state]

Cancel == Command /\ run' = Moved(run, "canceled")

Resume ==
    /\ Command
    /\ run.state = "paused"
    /\ run' = Moved(run, run.pausedFrom)

(* The environment. *)

\* A backoff or the lease of a dead holder runs out; the next tick takes the
\* task up again.
Elapse ==
    /\ work.waiting > 0
    /\ work' = [work EXCEPT !.waiting = @ - 1, !.ready = @ + 1]
    /\ UNCHANGED <<run, plans, gates, streak, call, exhausted, bounds>>

Exhaust ==
    /\ Limited /\ ~exhausted
    /\ exhausted' = TRUE
    /\ UNCHANGED <<store, call, bounds>>

Crash(d) ==
    /\ call[d].stage \notin {"out", "idle"}
    /\ crashes < MaxCrashes
    /\ crashes' = crashes + 1
    /\ work' = [work EXCEPT !.waiting = @ + call[d].held]
    /\ Done(d, FALSE)
    /\ UNCHANGED <<run, plans, gates, streak, exhausted, commands, answers>>

-----------------------------------------------------------------------------
Tick(d) == TickTerminate(d) \/ TickDispatch(d) \/ TickAccept(d)
Commit(d) ==
    \/ CommitMove(d) \/ CommitPlan(d) \/ CommitReplan(d)
    \/ CommitAsk(d) \/ Observe(d) \/ RollBack(d)

Drive(d) == Begin(d) \/ Return(d) \/ Tick(d) \/ Answer(d) \/ Commit(d)

Reply(i) ==
    \/ RespondMove(i) \/ RespondApproved(i) \/ RespondGap(i)
    \/ RespondStale(i) \/ RespondDrifted(i)

Next ==
    \/ \E d \in Driver : Drive(d) \/ GiveUp(d) \/ Crash(d)
    \/ \E i \in DOMAIN gates : Reply(i) \/ Lapse(i)
    \/ Pause \/ Resume \/ Cancel
    \/ Elapse \/ Exhaust

Spec == Init /\ [][Next]_vars

(***************************************************************************)
(* A process inside a drive takes its next step: the loop does not pause,  *)
(* a provider call and an execution return.  Nobody is obliged to start a  *)
(* drive, to answer or to command, and no clock to run.                    *)
(***************************************************************************)
FairSpec ==
    /\ Spec
    /\ \A d \in Driver : WF_vars(Driving(d) /\ Drive(d))

-----------------------------------------------------------------------------
(* Properties. *)

GateType == {"goal", "approval", "conflict", "gap"}
GateAnswer == {"none", "clarified", "cancelled", "approved", "rejected",
               "resolved", "escalated"}
Artifact == {<<>>} \cup (Proposal \X Nat)
OutcomeKind == {"observe", "move", "terminate", "revise", "replan", "accept", "ask"}

RunRow == [state : RunState, version : Nat, plan : Nat, replans : Nat,
           revisions : Nat, pausedFrom : RunState]
Outcome == [does : OutcomeKind, to : RunState \cup GateType \cup {"none"},
            about : Proposal \cup {"none"}, counted : BOOLEAN, more : BOOLEAN]

\* Type invariant.  An idle call holds no tasks and the plan in force is a
\* stored row: what the store and the process memory of advance() look like.
TypeOK ==
    /\ run \in RunRow
    /\ run.plan \in 0..Len(plans)
    /\ plans \in Seq([content : Proposal,
                      status : {"proposed", "accepted", "superseded"}])
    /\ work \in [ready : Nat, waiting : Nat, failed : BOOLEAN, retries : Nat,
                 origin : Artifact]
    /\ gates \in Seq([type : GateType, status : {"open", "consumed", "canceled"},
                      lapsed : BOOLEAN, artifact : Artifact, version : Nat,
                      answer : GateAnswer])
    /\ streak \in [Phase -> [version : Nat, count : Nat]]
    /\ call \in [Driver -> [stage : {"out", "idle", "asked", "executing", "answered"},
                           phase : Phase, run : RunRow, held : Nat,
                           outcome : Outcome]]
    /\ exhausted \in BOOLEAN
    /\ commands \in 0..MaxCommands
    /\ answers \in 0..MaxAnswers
    /\ crashes \in 0..MaxCrashes

\* Where every driver asks for approval, the tasks in the store stem from a
\* proposal a human approved, at the version they approved it for, however
\* many drivers proposed plans and gates meanwhile (respond_gate,
\* persist_for_approval).
OnlyApprovedWork ==
    ApprovalRequired = Driver /\ work.origin # <<>> =>
        \E i \in DOMAIN gates :
            gates[i].artifact = work.origin /\ gates[i].answer = "approved"

\* The replan budget is shared by the analysis, the gap gates of the review
\* and their answers, and the revision budget by every review of the run.
WithinBudgets == run.replans <= MaxReplans /\ run.revisions <= MaxRevisions

\* A report is only analysed, written, reviewed or finished on research that
\* succeeded as a whole, and stays so while the run is paused there.
ReportRestsOnResearch ==
    LET state == IF run.state = "paused" THEN run.pausedFrom ELSE run.state IN
    state \in {"analyzing", "writing", "reviewing", "finalizing", "succeeded"}
        => AllSucceeded

\* At most one human answer takes effect in each version of the run, also
\* when two drivers opened a gate each for the same version.
OneDecisionPerVersion ==
    \A i, j \in DOMAIN gates :
        /\ gates[i].answer # "none"
        /\ gates[j].answer # "none"
        /\ gates[i].version = gates[j].version
        => i = j

\* A run that is paused, canceled or finished is only moved by a command: no
\* provider call, tick or gate answer that was under way revives or ends it.
CommandsStand ==
    [][run.state \in Stopped /\ run'.state # run.state
         => commands' = commands + 1]_vars

(***************************************************************************)
(* Without its cap on advances, a drive of a run that nobody pauses still  *)
(* returns: with a finished run, a gate for a human, work it has to wait   *)
(* for, or an error.  So no handler is asked for ever, whatever it answers *)
(* and whatever other drivers do to the run meanwhile.                     *)
(***************************************************************************)
DriveReturns ==
    \A d \in Driver : Driving(d) ~> (~Driving(d) \/ run.state = "paused")
=============================================================================
