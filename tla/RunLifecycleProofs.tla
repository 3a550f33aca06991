------------------------- MODULE RunLifecycleProofs -------------------------
(***************************************************************************)
(* Proofs about RunLifecycle, for every set of drivers and proposals and   *)
(* every limit.                                                            *)
(*                                                                         *)
(* None of the properties is inductive.  IInv adds what a call in process  *)
(* memory (CallOK) and a gate (GateOK) have to do with the run: both are   *)
(* of a version the run has had, and as long as the run has that version   *)
(* it is the run they were made for.  The parts are stated of values, so   *)
(* that the one argument behind most actions, that the version grows and   *)
(* everything older loses its hold on the run, is one lemma (Aging).       *)
(***************************************************************************)
EXTENDS RunLifecycle, SequenceTheorems, TLAPS

PlanRow == [content : Proposal, status : {"proposed", "accepted", "superseded"}]
WorkRow == [ready : Nat, waiting : Nat, failed : BOOLEAN, retries : Nat,
            origin : Artifact]
GateRow == [type : GateType, status : {"open", "consumed", "canceled"},
            lapsed : BOOLEAN, artifact : Artifact, version : Nat,
            answer : GateAnswer]
CallRow == [stage : {"out", "idle", "asked", "executing", "answered"},
            phase : Phase, run : RunRow, held : Nat, outcome : Outcome]

\* States that rest on completed research, and those that need a plan.
Reporting == {"analyzing", "writing", "reviewing", "finalizing", "succeeded"}
Planned == Reporting \cup {"researching"}

\* done: the research tasks have all succeeded.
RunOK(r, done) ==
    /\ r.replans <= MaxReplans
    /\ r.revisions <= MaxRevisions
    /\ r.state \in Planned => r.plan > 0
    /\ r.pausedFrom \in Planned => r.plan > 0
    /\ r.state \in Reporting => done
    /\ r.state = "paused" /\ r.pausedFrom \in Reporting => done

\* Outcome o was given for run r.
AnswerOK(o, r) ==
    /\ r.state \notin Stopped
    /\ o.does \in {"move", "revise", "terminate"} => o.to \in RunState \ {"paused"}
    /\ o.does = "revise" => r.revisions < MaxRevisions
    /\ o.does = "replan" => r.replans < MaxReplans /\ r.plan > 0
    /\ o.does = "accept" => ApprovalRequired # Driver
    /\ o.does = "ask" => o.to \in GateType
    /\ o.does = "accept" \/ o.to = "approval" => o.about \in Proposal
    /\ o.to \in Planned \cup {"gap", "conflict"} => r.plan > 0

\* Call c of a driver, beside the run r.
CallOK(c, r, done) ==
    /\ c.held > 0 <=> c.stage = "executing"
    /\ c.stage \notin {"out", "idle"} =>
         /\ c.run.version <= r.version
         /\ c.run.version = r.version => c.run = r
         /\ c.stage = "asked" => c.run.state = c.phase
         /\ c.stage = "answered" /\ (c.outcome.does # "observe" \/ c.outcome.counted)
              => AnswerOK(c.outcome, c.run)
         /\ /\ c.stage = "answered"
            /\ c.outcome.to \in Reporting
            /\ c.run.version = r.version
            => done

\* Gate g, beside the run r.
GateOK(g, r) ==
    /\ g.version <= r.version
    /\ g.answer # "none" => g.status # "open" /\ g.version < r.version
    /\ g.type = "approval" => g.artifact # <<>>
    /\ g.version = r.version =>
         /\ r.state \notin Stopped
         /\ g.artifact # <<>> => g.artifact[2] = r.plan + 1
         /\ g.type \in {"gap", "conflict"} => r.plan > 0

Calls == \A d \in Driver : CallOK(call[d], run, AllSucceeded)
Gates == \A i \in DOMAIN gates : GateOK(gates[i], run)

IInv ==
    /\ TypeOK
    /\ RunOK(run, AllSucceeded)
    /\ Calls
    /\ Gates
    /\ OnlyApprovedWork
    /\ OneDecisionPerVersion

-----------------------------------------------------------------------------
(* Changing one value of a function. *)
LEMMA Updated ==
    ASSUME NEW D, NEW S, NEW f \in [D -> S], NEW d \in D, NEW v \in S,
           NEW g, g = [f EXCEPT ![d] = v]
    PROVE  /\ g \in [D -> S]
           /\ g[d] = v
           /\ \A e \in D : e # d => g[e] = f[e]
  OBVIOUS

(* The types, by the names of the rows. *)
LEMMA Types ==
    ASSUME TypeOK
    PROVE  /\ run \in RunRow /\ run.plan \in 0..Len(plans)
           /\ plans \in Seq(PlanRow) /\ work \in WorkRow
           /\ gates \in Seq(GateRow) /\ call \in [Driver -> CallRow]
  BY DEF TypeOK, PlanRow, WorkRow, GateRow, CallRow

(* The same of the next state, from the variables that may change. *)
LEMMA TypesNext ==
    ASSUME run' \in RunRow, run'.plan \in 0..Len(plans'),
           plans' \in Seq(PlanRow), work' \in WorkRow,
           gates' \in Seq(GateRow), call' \in [Driver -> CallRow],
           streak' \in [Phase -> [version : Nat, count : Nat]],
           exhausted' \in BOOLEAN, commands' \in 0..MaxCommands,
           answers' \in 0..MaxAnswers, crashes' \in 0..MaxCrashes
    PROVE  TypeOK'
  BY DEF TypeOK, PlanRow, WorkRow, GateRow, CallRow

(* No task is left and all have succeeded, in terms of the counts. *)
LEMMA DoneMeans ==
    ASSUME work \in WorkRow, call \in [Driver -> CallRow]
    PROVE  AllSucceeded <=>
               /\ work.ready = 0 /\ work.waiting = 0 /\ ~work.failed
               /\ \A d \in Driver : call[d].held = 0
<1>1. \A d \in Driver : call[d].held \in Nat
  BY DEF CallRow
<1>2. work.waiting \in Nat
  BY DEF WorkRow
<1>. QED BY <1>1, <1>2 DEF AllSucceeded, AllTerminal, InFlight, Held

(* The same of the next state. *)
LEMMA DoneMeansNext ==
    ASSUME work' \in WorkRow, call' \in [Driver -> CallRow]
    PROVE  AllSucceeded' <=>
               /\ work'.ready = 0 /\ work'.waiting = 0 /\ ~work'.failed
               /\ \A d \in Driver : call'[d].held = 0
<1>1. \A d \in Driver : call'[d].held \in Nat
  BY DEF CallRow
<1>2. work'.waiting \in Nat
  BY DEF WorkRow
<1>. QED BY <1>1, <1>2 DEF AllSucceeded, AllTerminal, InFlight, Held

(* A run that moves: its type and its fields. *)
LEMMA MovedRun ==
    ASSUME NEW r \in RunRow, NEW state \in RunState
    PROVE  /\ Moved(r, state) \in RunRow
           /\ Moved(r, state).state = state
           /\ Moved(r, state).version = r.version + 1
           /\ Moved(r, state).plan = r.plan
           /\ Moved(r, state).replans = r.replans
           /\ Moved(r, state).revisions = r.revisions
           /\ Moved(r, state).pausedFrom = r.pausedFrom
<1>1. Moved(r, state) = [r EXCEPT !.state = state, !.version = r.version + 1]
  BY DEF Moved
<1>2. r = [state |-> r.state, version |-> r.version, plan |-> r.plan,
           replans |-> r.replans, revisions |-> r.revisions,
           pausedFrom |-> r.pausedFrom]
  BY DEF RunRow
<1>3. Moved(r, state) = [state |-> state, version |-> r.version + 1,
                         plan |-> r.plan, replans |-> r.replans,
                         revisions |-> r.revisions, pausedFrom |-> r.pausedFrom]
  BY <1>1, <1>2
<1>4. r.version + 1 \in Nat
  BY DEF RunRow
<1>. QED BY <1>3, <1>4 DEF RunRow

(* The call of a driver that is between two advances, or in no drive. *)
LEMMA NoCallOK ==
    ASSUME NEW more
    PROVE  /\ AtRest(more) \in CallRow /\ AtRest(more).held = 0
           /\ \A r, done : CallOK(AtRest(more), r, done)
<1>1. NoRun \in RunRow
  BY DEF NoRun, RunRow, RunState, Phase
<1>2. Nothing \in Outcome
  BY DEF Nothing, Outcome, OutcomeKind
<1>3. NoCall \in CallRow /\ NoCall.stage = "idle" /\ NoCall.held = 0
  BY <1>1, <1>2 DEF NoCall, CallRow, Phase
<1>4. Out \in CallRow /\ Out.stage = "out" /\ Out.held = 0
  BY <1>3 DEF Out, CallRow
<1>5. AtRest(more) = NoCall \/ AtRest(more) = Out
  BY DEF AtRest
<1>6. /\ AtRest(more) \in CallRow /\ AtRest(more).held = 0
      /\ AtRest(more).stage \in {"out", "idle"}
  BY <1>3, <1>4, <1>5
<1>. QED BY <1>6 DEF CallOK

(* What holds of a call while research is done or not, holds when it is. *)
LEMMA CallMonotone ==
    ASSUME NEW c, NEW r, NEW done, NEW also, done => also, CallOK(c, r, done)
    PROVE  CallOK(c, r, also)
  BY DEF CallOK

(* A call, and a gate, made for an older version of the run: all that is   *)
(* left to say of it is that it is older.                                  *)
LEMMA AgedCall ==
    ASSUME NEW c \in CallRow, NEW r \in RunRow, NEW s \in RunRow,
           NEW done, NEW also, CallOK(c, r, done), r.version < s.version
    PROVE  CallOK(c, s, also)
<1>1. c.run.version \in Nat /\ r.version \in Nat /\ s.version \in Nat
  BY DEF CallRow, RunRow
<1>2. c.stage \notin {"out", "idle"} => c.run.version < s.version
  BY <1>1 DEF CallOK
<1>. QED BY <1>1, <1>2 DEF CallOK

(* The same of a gate. *)
LEMMA AgedGate ==
    ASSUME NEW g \in GateRow, NEW r \in RunRow, NEW s \in RunRow,
           GateOK(g, r), r.version < s.version
    PROVE  GateOK(g, s)
<1>1. g.version \in Nat /\ r.version \in Nat /\ s.version \in Nat
  BY DEF GateRow, RunRow
<1>. QED BY <1>1 DEF GateOK

-----------------------------------------------------------------------------
(* The outcomes: what they do, where they lead, what they are about.       *)
LEMMA Outcomes ==
    /\ \A o \in {Idle, IdleOnce, Wait, Nothing} :
         o \in Outcome /\ o.does = "observe" /\ o.to = "none"
    /\ \A more \in BOOLEAN : LET o == [Nothing EXCEPT !.more = more] IN
         o \in Outcome /\ o.does = "observe" /\ o.to = "none" /\ ~o.counted
    /\ ~Nothing.counted
    /\ \A state \in RunState :
         /\ Move(state) \in Outcome
         /\ Move(state).does = "move" /\ Move(state).to = state
         /\ End(state) \in Outcome
         /\ End(state).does = "terminate" /\ End(state).to = state
    /\ Revise \in Outcome /\ Revise.does = "revise" /\ Revise.to = "writing"
    /\ Replan \in Outcome /\ Replan.does = "replan" /\ Replan.to = "researching"
    /\ \A p \in Proposal :
         /\ Accept(p) \in Outcome
         /\ Accept(p).does = "accept" /\ Accept(p).to = "none" /\ Accept(p).about = p
         /\ AskApproval(p) \in Outcome
         /\ AskApproval(p).does = "ask" /\ AskApproval(p).to = "approval"
         /\ AskApproval(p).about = p
    /\ \A type \in GateType :
         /\ Ask(type) \in Outcome
         /\ Ask(type).does = "ask" /\ Ask(type).to = type
<1>1. Nothing = [does |-> "observe", to |-> "none", about |-> "none",
                 counted |-> FALSE, more |-> TRUE]
  BY DEF Nothing
<1>2. {"researching", "writing"} \subseteq RunState /\ "approval" \in GateType
  BY DEF RunState, Phase, GateType
<1>3. \A more \in BOOLEAN : LET o == [Nothing EXCEPT !.more = more] IN
         o \in Outcome /\ o.does = "observe" /\ o.to = "none" /\ ~o.counted
  BY <1>1 DEF Outcome, OutcomeKind
<1>4. \A o \in {Idle, IdleOnce, Wait, Nothing} :
         o \in Outcome /\ o.does = "observe" /\ o.to = "none"
  <2>1. Idle \in Outcome /\ Idle.does = "observe" /\ Idle.to = "none"
    BY <1>1 DEF Idle, Outcome, OutcomeKind
  <2>2. IdleOnce \in Outcome /\ IdleOnce.does = "observe" /\ IdleOnce.to = "none"
    BY <2>1 DEF IdleOnce, Outcome
  <2>3. Wait \in Outcome /\ Wait.does = "observe" /\ Wait.to = "none"
    BY <1>1 DEF Wait, Outcome, OutcomeKind
  <2>4. Nothing \in Outcome /\ Nothing.does = "observe" /\ Nothing.to = "none"
    BY <1>1 DEF Outcome, OutcomeKind
  <2>. QED BY <2>1, <2>2, <2>3, <2>4
<1>11. ~Nothing.counted
  BY <1>1
<1>12. ASSUME NEW state \in RunState
       PROVE  /\ End(state) \in Outcome
              /\ End(state).does = "terminate" /\ End(state).to = state
  BY <1>1 DEF End, Outcome, OutcomeKind
<1>5. ASSUME NEW state \in RunState
      PROVE  /\ Move(state) \in Outcome
             /\ Move(state).does = "move" /\ Move(state).to = state
  BY <1>1 DEF Move, Outcome, OutcomeKind
<1>6. Revise \in Outcome /\ Revise.does = "revise" /\ Revise.to = "writing"
  BY <1>1, <1>2 DEF Revise, Outcome, OutcomeKind
<1>7. Replan \in Outcome /\ Replan.does = "replan" /\ Replan.to = "researching"
  BY <1>1, <1>2 DEF Replan, Outcome, OutcomeKind
<1>8. ASSUME NEW p \in Proposal
      PROVE  /\ Accept(p) \in Outcome
             /\ Accept(p).does = "accept" /\ Accept(p).to = "none" /\ Accept(p).about = p
  BY <1>1 DEF Accept, Outcome, OutcomeKind
<1>9. ASSUME NEW type \in GateType
      PROVE  /\ Ask(type) \in Outcome
             /\ Ask(type).does = "ask" /\ Ask(type).to = type
  BY <1>1 DEF Ask, Outcome, OutcomeKind
<1>10. ASSUME NEW p \in Proposal
       PROVE  /\ AskApproval(p) \in Outcome
              /\ AskApproval(p).does = "ask" /\ AskApproval(p).to = "approval"
              /\ AskApproval(p).about = p
  <2>1. /\ Ask("approval") \in Outcome
        /\ Ask("approval").does = "ask" /\ Ask("approval").to = "approval"
    BY <1>2, <1>9
  <2>. QED BY <2>1 DEF AskApproval, Outcome, OutcomeKind
<1>. QED BY <1>3, <1>4, <1>5, <1>6, <1>7, <1>8, <1>9, <1>10, <1>11, <1>12

(* The state a completed contract ends in. *)
LEMMA Endings ==
    ASSUME NEW o \in FinalAnswers
    PROVE  o = Move("succeeded") \/ o = Move("failed")
  BY DEF FinalAnswers, Ending

(* Every answer is a well formed outcome, whatever run it is about. *)
LEMMA AnswersTyped ==
    ASSUME NEW phase \in Phase, NEW r \in RunRow, NEW d \in Driver,
           NEW o \in Answers(phase, r, d)
    PROVE  o \in Outcome
<1>. USE Outcomes
<1>1. /\ "goal" \in GateType /\ "gap" \in GateType /\ "conflict" \in GateType
      /\ Phase \subseteq RunState /\ {"succeeded", "failed"} \subseteq RunState
  BY DEF GateType, RunState, Terminal
<1>2. {"planning", "analyzing", "writing", "reviewing", "finalizing"} \subseteq RunState
  BY DEF RunState, Phase
<1>3. CASE phase \in {"normalizing", "planning", "researching"}
  BY <1>1, <1>2, <1>3 DEF Answers, PortAnswers, GoalAnswers, PlanAnswers, ResearchAnswers
<1>4. CASE phase \in {"analyzing", "writing"}
  BY <1>1, <1>2, <1>4
  DEF Answers, PortAnswers, AnalystAnswers, AnalysisAnswers, GapAnswers, WritingAnswers
<1>5. CASE phase = "reviewing"
  <2>1. o = Idle \/ \E v \in ReviewVerdict : o = VerdictAnswer(v, r)
    BY <1>5 DEF Answers, PortAnswers, ReviewAnswers
  <2>. QED BY <1>1, <1>2, <2>1 DEF ReviewVerdict, VerdictAnswer
<1>6. CASE phase = "finalizing"
  <2>1. o = Idle \/ o \in FinalAnswers
    BY <1>6 DEF Answers, PortAnswers
  <2>. QED BY <1>1, <2>1, Endings
<1>. QED BY <1>3, <1>4, <1>5, <1>6 DEF Phase

(* What a handler answers fits the run it is asked for. *)
LEMMA AnswersFit ==
    ASSUME run \in RunRow, RunOK(run, AllSucceeded), run.state \in Phase,
           NEW d \in Driver, NEW o \in Answers(run.state, run, d)
    PROVE  /\ o \in Outcome
           /\ AnswerOK(o, run)
           /\ o.to \in Reporting => AllSucceeded
<1>. USE Outcomes
<1>1. run.state \notin Stopped
  BY DEF Phase, Stopped, Terminal
<1>2. /\ {run.replans, run.revisions, run.plan} \subseteq Nat
      /\ {MaxReplans, MaxRevisions} \subseteq Nat
  BY RunPolicyAssumption DEF RunRow
<1>3. /\ "goal" \in GateType /\ "gap" \in GateType /\ "conflict" \in GateType
      /\ Phase \subseteq RunState /\ {"succeeded", "failed"} \subseteq RunState
  BY DEF GateType, RunState, Terminal
<1>4. ASSUME o = Idle \/ o = IdleOnce \/ o = Wait
      PROVE  AnswerOK(o, run) /\ o \in Outcome /\ o.to = "none"
  BY <1>1, <1>4 DEF AnswerOK, Planned, Reporting
<1>5. CASE run.state = "normalizing"
  <2>1. o = Idle \/ o = Move("planning") \/ o = Ask("goal")
    BY <1>5 DEF Answers, PortAnswers, GoalAnswers
  <2>. QED BY <1>1, <1>3, <1>4, <2>1 DEF AnswerOK, Planned, Reporting, Phase
<1>6. CASE run.state = "planning"
  <2>1. \/ o = Idle
        \/ \E p \in Proposal : o = AskApproval(p)
        \/ ApprovalRequired # Driver /\ \E p \in Proposal : o = Accept(p)
    BY <1>6 DEF Answers, PortAnswers, PlanAnswers
  <2>. QED BY <1>1, <1>3, <1>4, <2>1 DEF AnswerOK, Planned, Reporting, GateType
<1>7. CASE run.state = "researching"
  <2>1. o = Idle \/ o = Wait \/ (AllSucceeded /\ o = Move("analyzing"))
    BY <1>7 DEF Answers, ResearchAnswers
  <2>2. run.plan > 0
    BY <1>7 DEF RunOK, Planned
  <2>. QED BY <1>1, <1>3, <1>4, <2>1, <2>2 DEF AnswerOK, Planned, Reporting, Phase
<1>8. CASE run.state \in {"analyzing", "writing", "reviewing", "finalizing"}
  <2>1. run.plan > 0 /\ AllSucceeded
    BY <1>8 DEF RunOK, Planned, Reporting
  <2>2. \/ o = Idle \/ o = IdleOnce
        \/ o = End("failed")
        \/ o \in {Move("writing"), Move("failed"), Move("reviewing"), Move("finalizing"),
                  Move("succeeded")}
        \/ o = Replan /\ run.replans < MaxReplans
        \/ o = Revise /\ run.revisions < MaxRevisions
        \/ o \in {Ask("gap"), Ask("conflict")}
    <3>1. CASE run.state = "analyzing"
      BY <1>2, <3>1 DEF Answers, AnalystAnswers, AnalysisAnswers, GapAnswers
    <3>2. CASE run.state = "writing"
      BY <3>2 DEF Answers, PortAnswers, WritingAnswers
    <3>3. CASE run.state = "reviewing"
      <4>1. o = Idle \/ \E v \in ReviewVerdict : o = VerdictAnswer(v, run)
        BY <3>3 DEF Answers, PortAnswers, ReviewAnswers
      <4>. QED BY <1>2, <4>1 DEF ReviewVerdict, VerdictAnswer
    <3>4. CASE run.state = "finalizing"
      <4>1. o = Idle \/ o \in FinalAnswers
        BY <3>4 DEF Answers, PortAnswers
      <4>. QED BY <4>1, Endings
    <3>. QED BY <1>8, <3>1, <3>2, <3>3, <3>4
  <2>3. CASE o \in {Move("writing"), Move("failed"), Move("reviewing"), Move("finalizing"),
                   Move("succeeded")}
    BY <1>1, <1>3, <2>1, <2>3 DEF AnswerOK, Phase
  <2>4. CASE o = Replan /\ run.replans < MaxReplans
    BY <1>1, <2>1, <2>4 DEF AnswerOK
  <2>5. CASE o = Revise /\ run.revisions < MaxRevisions
    BY <1>1, <1>3, <2>1, <2>5 DEF AnswerOK, Phase
  <2>6. CASE o \in {Ask("gap"), Ask("conflict")}
    BY <1>1, <1>3, <2>1, <2>6 DEF AnswerOK
  <2>7. CASE o = End("failed")
    BY <1>1, <1>3, <2>1, <2>7 DEF AnswerOK
  <2>. QED BY <1>4, <2>1, <2>2, <2>3, <2>4, <2>5, <2>6, <2>7
<1>. QED BY <1>5, <1>6, <1>7, <1>8 DEF Phase

-----------------------------------------------------------------------------
(* Research that is done stays done when no task changes and a driver lets *)
(* go of what it held.                                                     *)
LEMMA DoneStays ==
    ASSUME TypeOK, work' = work, NEW d \in Driver, NEW c \in CallRow,
           call' = [call EXCEPT ![d] = c], c.held = 0
    PROVE  AllSucceeded => AllSucceeded'
<1>1. /\ work \in WorkRow /\ call \in [Driver -> CallRow]
      /\ work' \in WorkRow
  BY Types
<1>2. call' \in [Driver -> CallRow] /\ call'[d] = c /\ \A e \in Driver : e # d => call'[e] = call[e]
  BY <1>1, Updated
<1>. QED BY <1>1, <1>2, DoneMeans, DoneMeansNext

(* A step in which the run and the gates stay as they are.                 *)
LEMMA RunStays ==
    ASSUME IInv, TypeOK', run' = run, gates' = gates, work'.origin = work.origin,
           \A d \in Driver : call'[d] = call[d] \/ CallOK(call'[d], run, AllSucceeded'),
           AllSucceeded => AllSucceeded'
    PROVE  IInv'
<1>1. RunOK(run', AllSucceeded')
  BY DEF IInv, RunOK
<1>2. Calls'
  <2>1. ASSUME NEW d \in Driver PROVE CallOK(call'[d], run', AllSucceeded')
    <3>1. CallOK(call[d], run, AllSucceeded)
      BY DEF IInv, Calls
    <3>2. CASE call'[d] = call[d]
      <4>1. CallOK(call[d], run, AllSucceeded')
        BY <3>1, CallMonotone
      <4>. QED BY <4>1, <3>2
    <3>. QED BY <3>2
  <2>. QED BY <2>1 DEF Calls
<1>3. Gates'
  BY DEF IInv, Gates
<1>4. OnlyApprovedWork' /\ OneDecisionPerVersion'
  BY DEF IInv, OnlyApprovedWork, OneDecisionPerVersion
<1>. QED BY <1>1, <1>2, <1>3, <1>4 DEF IInv

(* A step in which the version of the run grows: calls and gates age.      *)
LEMMA Aging ==
    ASSUME IInv, TypeOK', run.version < run'.version,
           \A d \in Driver : call'[d] = call[d] \/ CallOK(call'[d], run', AllSucceeded')
    PROVE  /\ Calls'
           /\ gates' = gates => Gates' /\ OneDecisionPerVersion'
<1>1. run \in RunRow /\ call \in [Driver -> CallRow] /\ gates \in Seq(GateRow)
  BY Types DEF IInv
<1>2. run' \in RunRow
  BY DEF TypeOK
<1>3. Calls'
  <2>1. ASSUME NEW d \in Driver PROVE CallOK(call'[d], run', AllSucceeded')
    <3>1. CallOK(call[d], run, AllSucceeded) /\ call[d] \in CallRow
      BY <1>1 DEF IInv, Calls
    <3>2. CallOK(call[d], run', AllSucceeded')
      BY <3>1, <1>1, <1>2, AgedCall
    <3>. QED BY <3>2
  <2>. QED BY <2>1 DEF Calls
<1>4. ASSUME gates' = gates PROVE Gates'
  <2>1. ASSUME NEW i \in DOMAIN gates PROVE GateOK(gates[i], run')
    <3>1. GateOK(gates[i], run) /\ gates[i] \in GateRow
      BY <1>1 DEF IInv, Gates
    <3>. QED BY <3>1, <1>1, <1>2, AgedGate
  <2>. QED BY <2>1, <1>4 DEF Gates
<1>5. gates' = gates => OneDecisionPerVersion'
  BY DEF IInv, OneDecisionPerVersion
<1>. QED BY <1>3, <1>4, <1>5

(* A step in which the run moves, and neither the gates nor the origin of  *)
(* the work change.                                                        *)
LEMMA RunMoves ==
    ASSUME IInv, TypeOK', run.version < run'.version, gates' = gates,
           work'.origin = work.origin, RunOK(run', AllSucceeded'),
           \A d \in Driver : call'[d] = call[d] \/ CallOK(call'[d], run', AllSucceeded')
    PROVE  IInv'
<1>1. Calls' /\ Gates' /\ OneDecisionPerVersion'
  BY Aging
<1>2. OnlyApprovedWork'
  BY DEF IInv, OnlyApprovedWork
<1>. QED BY <1>1, <1>2 DEF IInv

-----------------------------------------------------------------------------
(* The initial state. *)
LEMMA InitInv == Init => IInv
<1>. SUFFICES ASSUME Init PROVE IInv
  OBVIOUS
<1>1. NoRun \in RunRow /\ run \in RunRow
  BY DEF Init, NoRun, RunRow, RunState, Phase
<1>2. /\ run.plan = 0 /\ run.replans = 0 /\ run.revisions = 0
      /\ run.state = "created" /\ run.pausedFrom = "normalizing"
  BY DEF Init, NoRun
<1>3. call \in [Driver -> CallRow] /\ \A d \in Driver : CallOK(call[d], run, AllSucceeded)
  <2>1. AtRest(FALSE) = Out
    BY DEF AtRest
  <2>2. Out \in CallRow /\ CallOK(Out, run, AllSucceeded)
    BY <2>1, NoCallOK
  <2>. QED BY <2>2 DEF Init
<1>4. plans \in Seq(PlanRow) /\ gates \in Seq(GateRow) /\ Len(plans) = 0 /\ DOMAIN gates = {}
  BY DEF Init
<1>5. work \in WorkRow /\ work.origin = <<>>
  BY DEF Init, WorkRow, Artifact
<1>6. TypeOK
  <2>1. {MaxCommands, MaxAnswers, MaxCrashes} \subseteq Nat
    BY RunPolicyAssumption
  <2>2. /\ commands \in 0..MaxCommands /\ answers \in 0..MaxAnswers
        /\ crashes \in 0..MaxCrashes
    BY <2>1 DEF Init
  <2>5. exhausted \in BOOLEAN
    BY DEF Init
  <2>3. streak \in [Phase -> [version : Nat, count : Nat]]
    BY DEF Init
  <2>4. run.plan \in 0..Len(plans)
    BY <1>2, <1>4
  <2>. QED BY <1>1, <1>3, <1>4, <1>5, <2>2, <2>3, <2>4, <2>5
       DEF TypeOK, CallRow, PlanRow, GateRow, WorkRow
<1>7. RunOK(run, AllSucceeded)
  BY <1>2, RunPolicyAssumption DEF RunOK, Planned, Reporting
<1>. QED BY <1>3, <1>4, <1>5, <1>6, <1>7
     DEF IInv, Calls, Gates, OnlyApprovedWork, OneDecisionPerVersion
-----------------------------------------------------------------------------
(* Every action preserves the invariant: one lemma each.                   *)

(* A call of driver d replaced by c, when the rest of the store's types    *)
(* stay what they are.                                                     *)
LEMMA CallTypes ==
    ASSUME IInv, NEW d \in Driver, NEW c \in CallRow,
           call' = [call EXCEPT ![d] = c],
           UNCHANGED <<run, plans, work, gates, exhausted, bounds>>,
           streak' \in [Phase -> [version : Nat, count : Nat]]
    PROVE  TypeOK' /\ call'[d] = c /\ \A e \in Driver : e # d => call'[e] = call[e]
<1>1. /\ run \in RunRow /\ run.plan \in 0..Len(plans)
      /\ plans \in Seq(PlanRow) /\ work \in WorkRow
      /\ gates \in Seq(GateRow) /\ call \in [Driver -> CallRow]
  BY Types DEF IInv
<1>2. /\ call' \in [Driver -> CallRow] /\ call'[d] = c
      /\ \A e \in Driver : e # d => call'[e] = call[e]
  BY <1>1, Updated
<1>3. TypeOK'
  BY <1>1, <1>2, TypesNext DEF IInv, TypeOK, bounds
<1>. QED BY <1>2, <1>3

(* A driver that only changes what it knows.                               *)
LEMMA CallChanges ==
    ASSUME IInv, NEW d \in Driver, NEW c \in CallRow, c.held = 0,
           call' = [call EXCEPT ![d] = c],
           UNCHANGED <<run, plans, work, gates, exhausted, bounds>>,
           streak' \in [Phase -> [version : Nat, count : Nat]],
           \A done : (AllSucceeded => done) => CallOK(c, run, done)
    PROVE  IInv'
<1>1. TypeOK' /\ call'[d] = c /\ \A e \in Driver : e # d => call'[e] = call[e]
  BY CallTypes
<1>2. AllSucceeded => AllSucceeded'
  BY DoneStays DEF IInv
<1>3. CallOK(c, run, AllSucceeded')
  BY <1>2
<1>. QED BY <1>1, <1>2, <1>3, RunStays

(* advance() loads the run. *)
LEMMA BeginInv ==
    ASSUME IInv, NEW d \in Driver, Begin(d)
    PROVE  IInv'
<1>1. run \in RunRow /\ RunOK(run, AllSucceeded) /\ run.state \in RunState
  BY Types DEF IInv, RunRow
<1>2. run.state \notin Stopped /\ (run.state = "created" \/ run.state \in Phase)
  BY <1>1 DEF Begin, RunState, Stopped
<1>3. PICK c : /\ call' = [call EXCEPT ![d] = c]
               /\ \E stage \in {"answered", "asked"}, o \in Outcome, p \in Phase :
                    /\ c = [stage |-> stage, phase |-> p, run |-> run, held |-> 0,
                            outcome |-> o]
                    /\ run.state \in Phase => p = run.state
                    /\ stage = "asked" => run.state \in Phase
                    /\ stage = "answered" => o \in {Move("normalizing"), End("failed")}
  <2>0. DEFINE ph == IF run.state \in Phase THEN run.state ELSE "normalizing"
  <2>1. /\ Move("normalizing") \in Outcome /\ End("failed") \in Outcome
        /\ Nothing \in Outcome
    BY Outcomes DEF RunState, Phase, Terminal
  <2>2. ph \in Phase
    BY DEF Phase
  <2>3. NoCall.phase = "normalizing"
    BY DEF NoCall
  <2>4. CASE run.state = "created"
    <3>1. call' = [call EXCEPT ![d] = [stage |-> "answered", phase |-> ph, run |-> run,
                                       held |-> 0, outcome |-> Move("normalizing")]]
      BY <2>3, <2>4 DEF Begin
    <3>. QED BY <3>1, <2>1, <2>2
  <2>5. CASE run.state # "created" /\ exhausted
    <3>1. call' = [call EXCEPT ![d] = [stage |-> "answered", phase |-> ph, run |-> run,
                                       held |-> 0, outcome |-> End("failed")]]
      BY <2>3, <2>5 DEF Begin
    <3>. QED BY <3>1, <2>1, <2>2
  <2>6. CASE run.state # "created" /\ ~exhausted
    <3>1. call' = [call EXCEPT ![d] = [stage |-> "asked", phase |-> ph, run |-> run,
                                       held |-> 0, outcome |-> Nothing]]
      BY <2>3, <2>6 DEF Begin
    <3>. QED BY <3>1, <2>1, <2>2, <1>2, <2>6
  <2>. QED BY <2>4, <2>5, <2>6
<1>4. c \in CallRow /\ c.held = 0
  BY <1>1, <1>3 DEF CallRow
<1>5. ASSUME NEW done PROVE CallOK(c, run, done)
  <2>1. PICK stage \in {"answered", "asked"}, o \in Outcome, p \in Phase :
          /\ c = [stage |-> stage, phase |-> p, run |-> run, held |-> 0, outcome |-> o]
          /\ run.state \in Phase => p = run.state
          /\ stage = "asked" => run.state \in Phase
          /\ stage = "answered" => o \in {Move("normalizing"), End("failed")}
    BY <1>3
  <2>2. stage = "answered" => AnswerOK(o, run) /\ o.to \notin Reporting
    <3>1. \A s \in {"normalizing", "failed"} :
             /\ s \in RunState /\ Move(s).does = "move" /\ Move(s).to = s
             /\ End(s).does = "terminate" /\ End(s).to = s
      BY Outcomes DEF RunState, Phase, Terminal
    <3>. QED BY <2>1, <3>1, <1>2 DEF AnswerOK, Planned, Reporting
  <2>3. run.version <= run.version
    BY <1>1 DEF RunRow
  <2>4. /\ c.stage = stage /\ c.phase = p /\ c.run = run /\ c.held = 0 /\ c.outcome = o
    BY <2>1
  <2>. QED BY <2>1, <2>2, <2>3, <2>4 DEF CallOK
<1>6. streak' \in [Phase -> [version : Nat, count : Nat]]
  BY DEF IInv, TypeOK, Begin, store
<1>. QED BY <1>3, <1>4, <1>5, <1>6, CallChanges DEF Begin, store

(* The fields of a call that goes on. *)
LEMMA GoesOn ==
    ASSUME call \in [Driver -> CallRow], NEW d \in Driver,
           NEW stage \in {"idle", "asked", "executing", "answered"},
           NEW held \in Nat, NEW o \in Outcome, Goes(d, stage, held, o)
    PROVE  \E c \in CallRow :
              /\ call' = [call EXCEPT ![d] = c]
              /\ c.stage = stage /\ c.phase = call[d].phase /\ c.run = call[d].run
              /\ c.held = held /\ c.outcome = o
<1>. DEFINE c == [stage |-> stage, phase |-> call[d].phase, run |-> call[d].run,
                  held |-> held, outcome |-> o]
<1>1. c \in CallRow
  BY DEF CallRow
<1>2. call' = [call EXCEPT ![d] = c]
  BY DEF Goes
<1>. QED BY <1>1, <1>2

(* A tick that is kept as an observation says nothing of the run. *)
LEMMA WaitOK ==
    ASSUME NEW c, NEW r, NEW done, c.stage = "answered", c.held = 0,
           c.outcome.does = "observe", ~c.outcome.counted, c.outcome.to = "none",
           c.run.version <= r.version, c.run.version = r.version => c.run = r
    PROVE  CallOK(c, r, done)
  BY DEF CallOK, Reporting

(* The streaks: no action but Observe writes anything but a zero. *)
LEMMA ResetType ==
    ASSUME TypeOK, NEW p \in Phase
    PROVE  Reset(p) \in [Phase -> [version : Nat, count : Nat]]
  BY DEF TypeOK, Reset

(* A commit that is refused: advance() ends without a write. *)
LEMMA RollBackInv ==
    ASSUME IInv, NEW d \in Driver, RollBack(d)
    PROVE  IInv'
<1>1. /\ AtRest(FALSE) \in CallRow /\ AtRest(FALSE).held = 0
      /\ \A done : CallOK(AtRest(FALSE), run, done)
  BY NoCallOK
<1>2. streak' \in [Phase -> [version : Nat, count : Nat]]
  BY DEF IInv, TypeOK, RollBack, store
<1>. QED BY <1>1, <1>2, CallChanges DEF RollBack, Done, store

(* The drive returns, or has used up its advances. *)
LEMMA ReturnInv ==
    ASSUME IInv, NEW d \in Driver, Return(d) \/ GiveUp(d)
    PROVE  IInv'
<1>1. AtRest(FALSE) = Out
  BY DEF AtRest
<1>2. /\ Out \in CallRow /\ Out.held = 0
      /\ \A done : CallOK(Out, run, done)
  BY <1>1, NoCallOK
<1>3. streak' \in [Phase -> [version : Nat, count : Nat]]
  BY DEF IInv, TypeOK, Return, GiveUp, store
<1>. QED BY <1>2, <1>3, CallChanges DEF Return, GiveUp, store

(* A phase is answered for: the run as it is now, or an observation.       *)
LEMMA AnswerInv ==
    ASSUME IInv, NEW d \in Driver, Answer(d)
    PROVE  IInv'
<1>1. /\ run \in RunRow /\ RunOK(run, AllSucceeded) /\ call \in [Driver -> CallRow]
      /\ CallOK(call[d], run, AllSucceeded)
  BY Types DEF IInv, Calls
<1>2. PICK o \in Answers(call[d].phase, call[d].run, d) :
         call' = [call EXCEPT ![d] =
             [stage |-> "answered", phase |-> call[d].phase, run |-> run, held |-> 0,
              outcome |-> IF Stale(d) THEN [Nothing EXCEPT !.more = o.more] ELSE o]]
  BY DEF Answer
<1>. DEFINE w == IF Stale(d) THEN [Nothing EXCEPT !.more = o.more] ELSE o
            c == [stage |-> "answered", phase |-> call[d].phase, run |-> run, held |-> 0,
                  outcome |-> w]
<1>3. /\ w \in Outcome
      /\ \/ w.does = "observe" /\ ~w.counted /\ w.to = "none"
         \/ AnswerOK(w, run) /\ (w.to \in Reporting => AllSucceeded)
  <2>1. CASE Stale(d)
    <3>1. o \in Outcome
      BY <1>1, AnswersTyped DEF CallRow
    <3>2. o.more \in BOOLEAN
      BY <3>1 DEF Outcome
    <3>. QED BY <2>1, <3>2, Outcomes
  <2>2. CASE ~Stale(d)
    <3>1. call[d].run = run
      BY <1>1, <2>2 DEF Stale, CallOK, Answer
    <3>2. call[d].phase = run.state /\ run.state \in Phase
      BY <1>1, <3>1 DEF CallOK, Answer, CallRow
    <3>3. o \in Answers(run.state, run, d)
      BY <3>1, <3>2
    <3>4. o \in Outcome /\ AnswerOK(o, run) /\ (o.to \in Reporting => AllSucceeded)
      BY <1>1, <3>2, <3>3, AnswersFit
    <3>. QED BY <2>2, <3>4
  <2>. QED BY <2>1, <2>2
<1>. HIDE DEF w
<1>4. c \in CallRow /\ c.held = 0 /\ c.stage = "answered" /\ c.run = run /\ c.outcome = w
  BY <1>1, <1>3 DEF CallRow
<1>. HIDE DEF c
<1>5. ASSUME NEW done, AllSucceeded => done PROVE CallOK(c, run, done)
  <2>1. run.version <= run.version
    BY <1>1 DEF RunRow
  <2>2. CASE w.does = "observe" /\ ~w.counted /\ w.to = "none"
    BY <2>1, <2>2, <1>4, WaitOK
  <2>3. CASE AnswerOK(w, run) /\ (w.to \in Reporting => AllSucceeded)
    BY <2>1, <2>3, <1>4, <1>5 DEF CallOK
  <2>. QED BY <1>3, <2>2, <2>3
<1>6. call' = [call EXCEPT ![d] = c]
  BY <1>2 DEF c, w
<1>7. streak' \in [Phase -> [version : Nat, count : Nat]]
  BY DEF IInv, TypeOK, Answer, store
<1>. QED BY <1>4, <1>5, <1>6, <1>7, CallChanges DEF Answer, store

(* The observation is counted; the one that fills the idle budget leaves   *)
(* a termination to commit.                                                *)
LEMMA ObserveInv ==
    ASSUME IInv, NEW d \in Driver, Observe(d)
    PROVE  IInv'
<1>1. /\ run \in RunRow /\ call \in [Driver -> CallRow]
      /\ CallOK(call[d], run, AllSucceeded)
      /\ streak \in [Phase -> [version : Nat, count : Nat]]
  BY Types DEF IInv, Calls, TypeOK
<1>2. call[d].phase \in Phase /\ call[d].run.version \in Nat
  BY <1>1 DEF CallRow, RunRow
<1>3. Idled(d) \in Nat
  BY <1>1, <1>2 DEF Idled
<1>4. streak' \in [Phase -> [version : Nat, count : Nat]]
  <2>. DEFINE row == [version |-> IF Idled(d) = 0 THEN 0 ELSE call[d].run.version,
                      count |-> Idled(d)]
  <2>1. row \in [version : Nat, count : Nat]
    BY <1>2, <1>3
  <2>2. streak' = [streak EXCEPT ![call[d].phase] = row]
    BY DEF Observe
  <2>. HIDE DEF row
  <2>. QED BY <1>1, <1>2, <2>1, <2>2
<1>5. CASE Idled(d) >= MaxIdle
  <2>1. "failed" \in RunState /\ "failed" \notin Reporting /\ "failed" \notin Planned
    BY DEF RunState, Terminal, Reporting, Planned
  <2>2. /\ End("failed") \in Outcome /\ End("failed").does = "terminate"
        /\ End("failed").to = "failed"
    BY <2>1, Outcomes
  <2>3. PICK c \in CallRow :
          /\ call' = [call EXCEPT ![d] = c]
          /\ c.stage = "answered" /\ c.phase = call[d].phase /\ c.run = call[d].run
          /\ c.held = 0 /\ c.outcome = End("failed")
    <3>1. Goes(d, "answered", 0, End("failed"))
      BY <1>5 DEF Observe
    <3>2. call \in [Driver -> CallRow] /\ End("failed") \in Outcome
      BY <1>1, <2>2
    <3>. QED BY <3>1, <3>2, GoesOn
  <2>4. call[d].outcome.counted
    BY <1>5, RunPolicyAssumption DEF Idled
  <2>5. call[d].run.state \notin Stopped
    BY <1>1, <2>4 DEF CallOK, AnswerOK, Observe, Ready
  <2>6. AnswerOK(c.outcome, c.run)
    BY <2>1, <2>2, <2>3, <2>5 DEF AnswerOK
  <2>7. ASSUME NEW done PROVE CallOK(c, run, done)
    BY <1>1, <2>1, <2>2, <2>3, <2>6 DEF CallOK, Observe, Ready
  <2>. QED BY <1>4, <2>3, <2>7, CallChanges DEF Observe
<1>6. CASE ~(Idled(d) >= MaxIdle)
  <2>1. PICK c \in CallRow : /\ c.held = 0 /\ \A done : CallOK(c, run, done)
                             /\ call' = [call EXCEPT ![d] = c]
    BY <1>6, NoCallOK DEF Observe, Done
  <2>. QED BY <1>4, <2>1, CallChanges DEF Observe
<1>. QED BY <1>5, <1>6

(* The tick finds the budget used up. *)
LEMMA TickTerminateInv ==
    ASSUME IInv, NEW d \in Driver, TickTerminate(d)
    PROVE  IInv'
<1>1. /\ run \in RunRow /\ RunOK(run, AllSucceeded) /\ call \in [Driver -> CallRow]
      /\ CallOK(call[d], run, AllSucceeded) /\ run.version \in Nat
  BY Types DEF IInv, Calls, RunRow
<1>2. "failed" \in RunState /\ "failed" \notin Planned /\ "failed" \notin Reporting
  BY DEF RunState, Terminal, Planned, Reporting
<1>3. /\ run' \in RunRow /\ run'.state = "failed" /\ run'.version = run.version + 1
      /\ run'.plan = run.plan /\ run'.replans = run.replans
      /\ run'.revisions = run.revisions /\ run'.pausedFrom = run.pausedFrom
  BY <1>1, <1>2, MovedRun DEF TickTerminate
<1>4. PICK c \in CallRow :
        /\ call' = [call EXCEPT ![d] = c]
        /\ c.stage = "answered" /\ c.run = call[d].run /\ c.held = 0 /\ c.outcome = Nothing
  BY <1>1, Outcomes, GoesOn DEF TickTerminate
<1>5. /\ call' \in [Driver -> CallRow] /\ call'[d] = c
      /\ \A e \in Driver : e # d => call'[e] = call[e]
  BY <1>1, <1>4, Updated
<1>6. TypeOK'
  <2>1. run.plan \in 0..Len(plans)
    BY Types DEF IInv
  <2>. QED BY <1>3, <1>5, <2>1, Types, TypesNext DEF IInv, TypeOK, TickTerminate, bounds
<1>7. CallOK(c, run', AllSucceeded')
  <2>1. c.run.version <= run.version /\ c.run.version \in Nat
    BY <1>1, <1>4 DEF CallOK, TickTerminate, CallRow, RunRow
  <2>2. c.run.version < run'.version
    BY <1>1, <1>3, <2>1
  <2>. QED BY <1>3, <1>4, <2>2, Outcomes, WaitOK DEF RunRow, CallRow
<1>8. RunOK(run', AllSucceeded')
  BY <1>1, <1>2, <1>3 DEF RunOK
<1>. QED BY <1>1, <1>3, <1>5, <1>6, <1>7, <1>8, RunMoves DEF TickTerminate

(* The tick takes the tasks that are ready, so research is not done.       *)
LEMMA TickDispatchInv ==
    ASSUME IInv, NEW d \in Driver, TickDispatch(d)
    PROVE  IInv'
<1>1. /\ run \in RunRow /\ call \in [Driver -> CallRow] /\ work \in WorkRow
      /\ CallOK(call[d], run, AllSucceeded)
  BY Types DEF IInv, Calls
<1>2. work.ready \in Nat /\ work.ready > 0 /\ ~AllSucceeded
  BY <1>1 DEF TickDispatch, MayDispatch, WorkRow, AllSucceeded, AllTerminal
<1>3. PICK c \in CallRow :
        /\ call' = [call EXCEPT ![d] = c]
        /\ c.stage = "executing" /\ c.phase = call[d].phase /\ c.run = call[d].run
        /\ c.held = work.ready
  <2>1. Nothing \in Outcome
    BY Outcomes
  <2>. QED BY <1>1, <1>2, <2>1, GoesOn DEF TickDispatch
<1>4. /\ call' \in [Driver -> CallRow] /\ call'[d] = c
      /\ \A e \in Driver : e # d => call'[e] = call[e]
  BY <1>1, <1>3, Updated
<1>5. work' \in WorkRow /\ work'.origin = work.origin
  BY <1>1 DEF TickDispatch, WorkRow
<1>6. TypeOK'
  BY <1>4, <1>5, Types, TypesNext DEF IInv, TypeOK, TickDispatch, bounds
<1>7. CallOK(c, run, AllSucceeded')
  BY <1>1, <1>2, <1>3 DEF CallOK, TickDispatch
<1>. QED BY <1>2, <1>4, <1>5, <1>6, <1>7, RunStays DEF TickDispatch

(* The results of the tick: as many versions as tasks, and the run is      *)
(* not in a state that rests on research, for the driver held some.        *)
LEMMA TickAcceptInv ==
    ASSUME IInv, NEW d \in Driver, TickAccept(d)
    PROVE  IInv'
<1>1. /\ run \in RunRow /\ RunOK(run, AllSucceeded) /\ call \in [Driver -> CallRow]
      /\ CallOK(call[d], run, AllSucceeded) /\ work \in WorkRow
      /\ call[d].held \in Nat /\ run.version \in Nat
  BY Types DEF IInv, Calls, CallRow, RunRow
<1>2. call[d].held > 0 /\ ~AllSucceeded
  BY <1>1, DoneMeans DEF CallOK, TickAccept
<1>3. PICK n, m \in 0..call[d].held, overrun \in BOOLEAN :
        /\ n + m <= call[d].held
        /\ work' = [work EXCEPT !.failed = @ \/ m > 0,
                                !.waiting = @ + (call[d].held - (n + m)),
                                !.retries = @ + (call[d].held - (n + m))]
        /\ run' = [run EXCEPT !.state = IF overrun THEN "failed" ELSE @,
                              !.version = @ + call[d].held]
  BY DEF TickAccept
<1>4. work' \in WorkRow /\ work'.origin = work.origin
  <2>1. call[d].held - (n + m) \in Nat
    BY <1>1, <1>3
  <2>. DEFINE k == call[d].held - (n + m)
              b == work.failed \/ m > 0
  <2>2. b \in BOOLEAN
    OBVIOUS
  <2>3. work' = [work EXCEPT !.failed = b, !.waiting = work.waiting + k,
                             !.retries = work.retries + k]
    BY <1>3
  <2>. HIDE DEF k, b
  <2>4. work.waiting + k \in Nat /\ work.retries + k \in Nat
    BY <1>1, <2>1 DEF WorkRow, k
  <2>. QED BY <1>1, <2>2, <2>3, <2>4 DEF WorkRow
<1>5. /\ run' \in RunRow /\ run'.state \in {run.state, "failed"}
      /\ run'.version = run.version + call[d].held
      /\ run'.plan = run.plan /\ run'.replans = run.replans
      /\ run'.revisions = run.revisions /\ run'.pausedFrom = run.pausedFrom
  <2>. DEFINE q == IF overrun THEN "failed" ELSE run.state
              v == run.version + call[d].held
  <2>1. q \in RunState /\ q \in {run.state, "failed"} /\ v \in Nat
    BY <1>1 DEF RunRow, RunState, Terminal
  <2>2. run' = [run EXCEPT !.state = q, !.version = v]
    BY <1>3
  <2>. HIDE DEF q, v
  <2>3. /\ run' \in RunRow /\ run'.state = q /\ run'.version = v
        /\ run'.plan = run.plan /\ run'.replans = run.replans
        /\ run'.revisions = run.revisions /\ run'.pausedFrom = run.pausedFrom
    BY <1>1, <2>1, <2>2 DEF RunRow
  <2>. QED BY <2>1, <2>3 DEF v
<1>6. run.version < run'.version
  BY <1>1, <1>2, <1>5
<1>7. PICK c \in CallRow :
        /\ call' = [call EXCEPT ![d] = c]
        /\ c.stage = "answered" /\ c.run = call[d].run /\ c.held = 0 /\ c.outcome = Nothing
  <2>1. Goes(d, "answered", 0, Nothing)
    BY DEF TickAccept
  <2>2. Nothing \in Outcome /\ call \in [Driver -> CallRow]
    BY <1>1, Outcomes
  <2>. QED BY <2>1, <2>2, GoesOn
<1>8. /\ call' \in [Driver -> CallRow] /\ call'[d] = c
      /\ \A e \in Driver : e # d => call'[e] = call[e]
  BY <1>1, <1>7, Updated
<1>9. TypeOK'
  <2>1. run.plan \in 0..Len(plans)
    BY Types DEF IInv
  <2>. QED BY <1>4, <1>5, <1>8, <2>1, Types, TypesNext DEF IInv, TypeOK, TickAccept, bounds
<1>10. CallOK(c, run', AllSucceeded')
  <2>1. c.run.version <= run.version /\ c.run.version \in Nat
    BY <1>1, <1>7 DEF CallOK, TickAccept, CallRow, RunRow
  <2>2. c.run.version < run'.version /\ run'.version \in Nat
    BY <1>1, <1>6, <2>1, <1>5 DEF RunRow
  <2>3. c.outcome.does = "observe" /\ ~c.outcome.counted /\ c.outcome.to = "none"
    BY <1>7, Outcomes
  <2>. QED BY <1>7, <2>1, <2>2, <2>3, WaitOK
<1>11. RunOK(run', AllSucceeded')
  BY <1>1, <1>2, <1>5 DEF RunOK, Planned, Reporting
<1>. QED BY <1>4, <1>6, <1>8, <1>9, <1>10, <1>11, RunMoves DEF TickAccept

(* The environment. *)
LEMMA CrashInv ==
    ASSUME IInv, NEW d \in Driver, Crash(d)
    PROVE  IInv'
<1>1. /\ call \in [Driver -> CallRow] /\ work \in WorkRow /\ call[d].held \in Nat
      /\ crashes \in 0..MaxCrashes /\ MaxCrashes \in Nat
  BY Types, RunPolicyAssumption DEF IInv, TypeOK, CallRow
<1>2. work' = [work EXCEPT !.waiting = work.waiting + call[d].held]
  BY DEF Crash
<1>3. /\ work' \in WorkRow /\ work'.origin = work.origin /\ work'.ready = work.ready
      /\ work'.failed = work.failed /\ work'.waiting = work.waiting + call[d].held
  BY <1>1, <1>2 DEF WorkRow
<1>4. /\ call' \in [Driver -> CallRow] /\ call'[d] = AtRest(FALSE)
      /\ \A e \in Driver : e # d => call'[e] = call[e]
  BY <1>1, NoCallOK, Updated DEF Crash, Done
<1>5. crashes' \in 0..MaxCrashes
  BY <1>1 DEF Crash
<1>6. TypeOK'
  BY <1>3, <1>4, <1>5, Types, TypesNext DEF IInv, TypeOK, Crash
<1>7. AllSucceeded => AllSucceeded'
  <2>1. AtRest(FALSE).held = 0
    BY NoCallOK
  <2>3. ASSUME AllSucceeded PROVE AllSucceeded'
    <3>1. /\ work.ready = 0 /\ work.waiting = 0 /\ ~work.failed
          /\ \A e \in Driver : call[e].held = 0
      BY <1>1, <2>3, DoneMeans
    <3>2. \A e \in Driver : call'[e].held = 0
      BY <1>4, <2>1, <3>1
    <3>3. work'.ready = 0 /\ ~work'.failed
      BY <1>3, <3>1
    <3>4. work'.waiting = 0
      BY <1>3, <3>1
    <3>. QED BY <1>3, <1>4, <3>2, <3>3, <3>4, DoneMeansNext
  <2>. QED BY <2>3
<1>. QED BY <1>3, <1>4, <1>6, <1>7, NoCallOK, RunStays DEF Crash

(* A waiting task is ready again. *)
LEMMA ElapseInv ==
    ASSUME IInv, Elapse
    PROVE  IInv'
<1>1. work \in WorkRow /\ call \in [Driver -> CallRow]
  BY Types DEF IInv
<1>2. work.waiting > 0 /\ ~AllSucceeded
  BY <1>1, DoneMeans DEF Elapse, WorkRow
<1>3. work' \in WorkRow /\ work'.origin = work.origin
  <2>1. work.waiting - 1 \in Nat /\ work.ready + 1 \in Nat
    BY <1>1, <1>2 DEF WorkRow
  <2>2. work' = [work EXCEPT !.waiting = work.waiting - 1, !.ready = work.ready + 1]
    BY DEF Elapse
  <2>. QED BY <1>1, <2>1, <2>2 DEF WorkRow
<1>4. TypeOK'
  BY <1>3, Types, TypesNext DEF IInv, TypeOK, Elapse, bounds
<1>. QED BY <1>2, <1>3, <1>4, RunStays DEF Elapse

(* The budget or the deadline is used up. *)
LEMMA ExhaustInv ==
    ASSUME IInv, Exhaust
    PROVE  IInv'
<1>1. TypeOK'
  <2>1. exhausted' \in BOOLEAN
    BY DEF Exhaust
  <2>. QED BY <2>1, Types, TypesNext DEF IInv, TypeOK, Exhaust, store, bounds
<1>2. AllSucceeded => AllSucceeded'
  BY DEF Exhaust, store, AllSucceeded, AllTerminal, InFlight, Held
<1>. QED BY <1>1, <1>2, RunStays DEF Exhaust, store

-----------------------------------------------------------------------------
(* A gate that changes without being answered: the run does not move.      *)
LEMMA GateChanges ==
    ASSUME IInv, NEW i \in DOMAIN gates, NEW g \in GateRow,
           gates' = [gates EXCEPT ![i] = g],
           g.type = gates[i].type, g.artifact = gates[i].artifact,
           g.version = gates[i].version, g.answer = gates[i].answer,
           gates[i].status # "open" => g.status # "open",
           answers' \in 0..MaxAnswers,
           UNCHANGED <<run, plans, work, streak, call, exhausted, commands, crashes>>
    PROVE  IInv'
<1>1. gates \in Seq(GateRow) /\ DOMAIN gates = 1..Len(gates)
  BY Types DEF IInv
<1>2. /\ gates' \in Seq(GateRow) /\ DOMAIN gates' = DOMAIN gates
      /\ gates'[i] = g /\ \A j \in DOMAIN gates : j # i => gates'[j] = gates[j]
  BY <1>1, ExceptSeq
<1>3. TypeOK'
  BY <1>2, Types, TypesNext DEF IInv, TypeOK
<1>4. RunOK(run', AllSucceeded') /\ Calls'
  BY DEF IInv, Calls, AllSucceeded, AllTerminal, InFlight, Held
<1>5. Gates'
  <2>1. \A j \in DOMAIN gates : GateOK(gates[j], run)
    BY DEF IInv, Gates
  <2>2. GateOK(g, run)
    BY <2>1 DEF GateOK
  <2>. QED BY <1>2, <2>1, <2>2 DEF Gates
<1>6. \A j \in DOMAIN gates : /\ gates'[j].artifact = gates[j].artifact
                            /\ gates'[j].answer = gates[j].answer
                            /\ gates'[j].version = gates[j].version
  BY <1>2
<1>7. OnlyApprovedWork'
  BY <1>2, <1>6 DEF IInv, OnlyApprovedWork
<1>8. OneDecisionPerVersion'
  BY <1>2, <1>6 DEF IInv, OneDecisionPerVersion
<1>. QED BY <1>3, <1>4, <1>5, <1>7, <1>8 DEF IInv

(* A response that only cancels the gate. *)
LEMMA GateCanceled ==
    ASSUME IInv, NEW i \in DOMAIN gates,
           answers < MaxAnswers, answers' = answers + 1,
           gates' = [gates EXCEPT ![i].status = "canceled"],
           UNCHANGED <<run, plans, work, streak, call, exhausted, commands, crashes>>
    PROVE  IInv'
<1>. DEFINE g == [gates[i] EXCEPT !.status = "canceled"]
<1>1. gates \in Seq(GateRow) /\ gates[i] \in GateRow
  BY Types DEF IInv
<1>2. /\ g \in GateRow /\ g.status = "canceled" /\ g.type = gates[i].type
      /\ g.artifact = gates[i].artifact /\ g.version = gates[i].version
      /\ g.answer = gates[i].answer
  BY <1>1 DEF GateRow
<1>3. gates' = [gates EXCEPT ![i] = g]
  OBVIOUS
<1>4. answers' \in 0..MaxAnswers
  <2>1. answers \in 0..MaxAnswers /\ MaxAnswers \in Nat
    BY RunPolicyAssumption DEF IInv, TypeOK
  <2>. QED BY <2>1
<1>. HIDE DEF g
<1>. QED BY <1>2, <1>3, <1>4, GateChanges

(* The candidate has changed since the gate was opened. *)
LEMMA RespondDriftedInv ==
    ASSUME IInv, NEW i \in DOMAIN gates, RespondDrifted(i)
    PROVE  IInv'
  BY GateCanceled DEF RespondDrifted

(* The run has moved since the gate was opened. *)
LEMMA RespondStaleInv ==
    ASSUME IInv, NEW i \in DOMAIN gates, RespondStale(i)
    PROVE  IInv'
  BY GateCanceled DEF RespondStale, Respond

(* The clock passes the expiry of a gate. *)
LEMMA LapseInv ==
    ASSUME IInv, NEW i \in DOMAIN gates, Lapse(i)
    PROVE  IInv'
<1>. DEFINE g == [gates[i] EXCEPT !.lapsed = TRUE]
<1>1. gates \in Seq(GateRow) /\ gates[i] \in GateRow
  BY Types DEF IInv
<1>2. /\ g \in GateRow /\ g.status = gates[i].status /\ g.type = gates[i].type
      /\ g.artifact = gates[i].artifact /\ g.version = gates[i].version
      /\ g.answer = gates[i].answer
  BY <1>1 DEF GateRow
<1>3. gates' = [gates EXCEPT ![i] = g]
  BY DEF Lapse
<1>4. answers' \in 0..MaxAnswers /\ UNCHANGED <<run, plans, work, streak, call, exhausted, commands, crashes>>
  BY DEF IInv, TypeOK, Lapse, bounds
<1>. HIDE DEF g
<1>. QED BY <1>2, <1>3, <1>4, GateChanges

-----------------------------------------------------------------------------
(* A command moves the run and nothing else. *)
LEMMA CommandMoves ==
    ASSUME IInv, Command, run' \in RunRow, run'.version = run.version + 1,
           run'.plan = run.plan, RunOK(run', AllSucceeded)
    PROVE  IInv'
<1>1. run \in RunRow /\ run.version \in Nat /\ run.plan \in 0..Len(plans)
  BY Types DEF IInv, RunRow
<1>2. commands' \in 0..MaxCommands
  BY RunPolicyAssumption DEF IInv, TypeOK, Command
<1>3. TypeOK'
  BY <1>1, <1>2, Types, TypesNext DEF IInv, TypeOK, Command
<1>4. RunOK(run', AllSucceeded')
  BY DEF Command, AllSucceeded, AllTerminal, InFlight, Held
<1>. QED BY <1>1, <1>3, <1>4, RunMoves DEF Command

(* A pause remembers the state it interrupts. *)
LEMMA PauseInv == ASSUME IInv, Pause PROVE IInv'
<1>1. run \in RunRow /\ RunOK(run, AllSucceeded) /\ run.state \in RunState
  BY Types DEF IInv, RunRow
<1>2. "paused" \in RunState /\ "paused" \notin Planned /\ "paused" \notin Reporting
  BY DEF RunState, Planned, Reporting
<1>. DEFINE m == Moved(run, "paused")
<1>3. /\ m \in RunRow /\ m.state = "paused" /\ m.version = run.version + 1
      /\ m.plan = run.plan /\ m.replans = run.replans /\ m.revisions = run.revisions
  BY <1>1, <1>2, MovedRun
<1>4. run' = [m EXCEPT !.pausedFrom = run.state]
  BY DEF Pause
<1>. HIDE DEF m
<1>5. /\ run' \in RunRow /\ run'.state = m.state /\ run'.version = m.version
      /\ run'.plan = m.plan /\ run'.replans = m.replans /\ run'.revisions = m.revisions
      /\ run'.pausedFrom = run.state
  BY <1>1, <1>3, <1>4 DEF RunRow
<1>6. RunOK(run', AllSucceeded)
  BY <1>1, <1>2, <1>3, <1>5 DEF RunOK
<1>. QED BY <1>3, <1>5, <1>6, CommandMoves DEF Pause

(* A cancel ends the run in whatever state. *)
LEMMA CancelInv == ASSUME IInv, Cancel PROVE IInv'
<1>1. run \in RunRow /\ RunOK(run, AllSucceeded)
  BY Types DEF IInv
<1>2. "canceled" \in RunState /\ "canceled" \notin Planned /\ "canceled" \notin Reporting
  BY DEF RunState, Terminal, Planned, Reporting
<1>3. /\ run' \in RunRow /\ run'.state = "canceled" /\ run'.version = run.version + 1
      /\ run'.plan = run.plan /\ run'.replans = run.replans
      /\ run'.revisions = run.revisions /\ run'.pausedFrom = run.pausedFrom
  BY <1>1, <1>2, MovedRun DEF Cancel
<1>4. RunOK(run', AllSucceeded)
  BY <1>1, <1>2, <1>3 DEF RunOK
<1>. QED BY <1>3, <1>4, CommandMoves DEF Cancel

(* A resume returns to the state that was interrupted, and so to what
   that state rests on. *)
LEMMA ResumeInv == ASSUME IInv, Resume PROVE IInv'
<1>1. /\ run \in RunRow /\ RunOK(run, AllSucceeded) /\ run.pausedFrom \in RunState
      /\ run.state = "paused"
  BY Types DEF IInv, RunRow, Resume
<1>2. /\ run' \in RunRow /\ run'.state = run.pausedFrom
      /\ run'.version = run.version + 1
      /\ run'.plan = run.plan /\ run'.replans = run.replans
      /\ run'.revisions = run.revisions /\ run'.pausedFrom = run.pausedFrom
  BY <1>1, MovedRun DEF Resume
<1>3. RunOK(run', AllSucceeded)
  BY <1>1, <1>2 DEF RunOK
<1>. QED BY <1>2, <1>3, CommandMoves DEF Resume

-----------------------------------------------------------------------------
(* The plan rows: an accepted plan, and a focused replan.                  *)

(* Accepting a plan: its row, its tasks and the run that researches them. *)
LEMMA PlanAccepted ==
    ASSUME TypeOK, NEW p \in Proposal, AcceptPlan(run, p)
    PROVE  /\ run' \in RunRow /\ run'.state = "researching"
           /\ run'.version = run.version + 1 /\ run'.plan = run.plan + 1
           /\ run'.replans = run.replans /\ run'.revisions = run.revisions
           /\ run'.pausedFrom = run.pausedFrom
           /\ plans' \in Seq(PlanRow) /\ run'.plan \in 0..Len(plans')
           /\ work' \in WorkRow /\ work'.origin = <<p, run.plan + 1>>
<1>1. /\ run \in RunRow /\ run.plan \in Nat /\ run.plan \in 0..Len(plans)
      /\ plans \in Seq(PlanRow) /\ Len(plans) \in Nat /\ DOMAIN plans = 1..Len(plans)
      /\ run.version + 1 \in Nat /\ "researching" \in RunState
  BY Types DEF RunRow, RunState, Phase
<1>. DEFINE m == Moved(run, "researching")
<1>2. /\ m \in RunRow /\ m.state = "researching" /\ m.version = run.version + 1
      /\ m.plan = run.plan /\ m.replans = run.replans /\ m.revisions = run.revisions
      /\ m.pausedFrom = run.pausedFrom
  BY <1>1, MovedRun
<1>3. run' = [m EXCEPT !.plan = run.plan + 1]
  BY DEF AcceptPlan, NextVersion
<1>. HIDE DEF m
<1>4. /\ run' \in RunRow /\ run'.state = m.state /\ run'.version = m.version
      /\ run'.plan = run.plan + 1 /\ run'.replans = m.replans
      /\ run'.revisions = m.revisions /\ run'.pausedFrom = m.pausedFrom
  BY <1>1, <1>2, <1>3 DEF RunRow
<1>. DEFINE row == [content |-> p, status |-> "accepted"]
<1>5. row \in PlanRow
  BY DEF PlanRow
<1>6. /\ plans' = IF run.plan + 1 \in DOMAIN plans
                  THEN [plans EXCEPT ![run.plan + 1] = row] ELSE Append(plans, row)
  BY DEF AcceptPlan, Stored, NextVersion
<1>. HIDE DEF row
<1>7. plans' \in Seq(PlanRow) /\ run.plan + 1 \in 0..Len(plans')
  <2>1. CASE run.plan + 1 \in DOMAIN plans
    BY <1>1, <1>5, <1>6, <2>1, ExceptSeq
  <2>2. CASE run.plan + 1 \notin DOMAIN plans
    BY <1>1, <1>5, <1>6, <2>2, AppendProperties
  <2>. QED BY <2>1, <2>2
<1>8. work' \in WorkRow /\ work'.origin = <<p, run.plan + 1>>
  <2>1. work' = [ready |-> PlanSize, waiting |-> 0, failed |-> FALSE, retries |-> 0,
                 origin |-> <<p, run.plan + 1>>]
    BY DEF AcceptPlan, FreshWork, NextVersion
  <2>2. PlanSize \in Nat /\ <<p, run.plan + 1>> \in Artifact
    BY <1>1, RunPolicyAssumption DEF Artifact
  <2>. QED BY <2>1, <2>2 DEF WorkRow
<1>. QED BY <1>2, <1>4, <1>7, <1>8

(* A focused replan: the next row of the plan in force. *)
LEMMA Replanned ==
    ASSUME TypeOK, run.plan > 0, FocusedReplan(run)
    PROVE  /\ run' \in RunRow /\ run'.state = "researching"
           /\ run'.version = run.version + 1 /\ run'.plan > 0
           /\ run'.replans = run.replans + 1 /\ run'.revisions = run.revisions
           /\ run'.pausedFrom = run.pausedFrom
           /\ plans' \in Seq(PlanRow) /\ run'.plan \in 0..Len(plans')
           /\ work' \in WorkRow /\ work'.origin = work.origin
<1>. DEFINE n == Len(plans)
<1>1. /\ run \in RunRow /\ run.plan \in Nat /\ run.plan \in 0..n /\ work \in WorkRow
      /\ plans \in Seq(PlanRow) /\ n \in Nat /\ n > 0 /\ n \in 1..n
      /\ DOMAIN plans = 1..n /\ run.replans + 1 \in Nat
      /\ run.version + 1 \in Nat /\ "researching" \in RunState
  BY Types DEF RunRow, RunState, Phase
<1>. DEFINE m == Moved(run, "researching")
<1>2. /\ m \in RunRow /\ m.state = "researching" /\ m.version = run.version + 1
      /\ m.plan = run.plan /\ m.replans = run.replans /\ m.revisions = run.revisions
      /\ m.pausedFrom = run.pausedFrom
  BY <1>1, MovedRun
<1>. DEFINE k == m.replans + 1
            v == n + 1
<1>3. run' = [m EXCEPT !.plan = v, !.replans = k]
  BY DEF FocusedReplan
<1>10. k = run.replans + 1 /\ k \in Nat /\ v \in Nat
  BY <1>1, <1>2
<1>. HIDE DEF m, k, v
<1>4. /\ run' \in RunRow /\ run'.state = m.state /\ run'.version = m.version
      /\ run'.plan = v /\ run'.replans = k
      /\ run'.revisions = m.revisions /\ run'.pausedFrom = m.pausedFrom
  BY <1>2, <1>3, <1>10 DEF RunRow
<1>. DEFINE old == [plans[n] EXCEPT !.status = "superseded"]
            row == [content |-> plans[n].content, status |-> "accepted"]
            q == [plans EXCEPT ![n] = old]
<1>5. old \in PlanRow /\ row \in PlanRow
  <2>1. plans[n] \in PlanRow
    BY <1>1
  <2>. QED BY <2>1 DEF PlanRow
<1>6. plans' = Append(q, row)
  <2>1. [plans EXCEPT ![n].status = "superseded"] = q
    OBVIOUS
  <2>. QED BY <2>1, Zenon DEF FocusedReplan
<1>. HIDE DEF old, row
<1>7. q \in Seq(PlanRow) /\ Len(q) = n
  BY <1>1, <1>5, ExceptSeq
<1>. HIDE DEF q, n
<1>8. plans' \in Seq(PlanRow) /\ Len(plans') = n + 1
  BY <1>5, <1>6, <1>7, AppendProperties
<1>9. work' \in WorkRow /\ work'.origin = work.origin
  BY <1>1 DEF FocusedReplan, WorkRow
<1>. QED BY <1>1, <1>2, <1>4, <1>8, <1>9, <1>10 DEF v

-----------------------------------------------------------------------------
(* Commits.  A commit that moves the run does so from the version that was *)
(* loaded, ends the call and leaves the gates alone.                       *)
LEMMA Committed ==
    ASSUME IInv, NEW d \in Driver, NEW more, Done(d, more), NEW p \in Phase, streak' = Reset(p),
           run' \in RunRow, run'.version = run.version + 1, run'.plan \in 0..Len(plans'),
           plans' \in Seq(PlanRow), work' \in WorkRow,
           RunOK(run', AllSucceeded'), OnlyApprovedWork',
           UNCHANGED <<gates, exhausted, bounds>>
    PROVE  IInv'
<1>1. run \in RunRow /\ run.version \in Nat /\ call \in [Driver -> CallRow]
  BY Types DEF IInv, RunRow
<1>2. /\ call' \in [Driver -> CallRow] /\ call'[d] = AtRest(more)
      /\ \A e \in Driver : e # d => call'[e] = call[e]
  BY <1>1, NoCallOK, Updated DEF Done
<1>3. TypeOK'
  BY <1>2, Types, ResetType, TypesNext DEF IInv, TypeOK, bounds
<1>4. Calls' /\ Gates' /\ OneDecisionPerVersion'
  <2>1. run.version < run'.version
    BY <1>1
  <2>. QED BY <1>2, <1>3, <2>1, NoCallOK, Aging
<1>. QED BY <1>3, <1>4 DEF IInv

(* A call that is committed was made for the run as it is. *)
LEMMA CurrentCall ==
    ASSUME IInv, NEW d \in Driver, call[d].stage = "answered", Current(d)
    PROVE  /\ call[d].run = run /\ call[d].phase \in Phase /\ call[d].outcome \in Outcome
           /\ call[d].held = 0
           /\ call[d].outcome.does # "observe" => AnswerOK(call[d].outcome, run)
           /\ call[d].outcome.to \in Reporting => AllSucceeded
<1>1. CallOK(call[d], run, AllSucceeded) /\ call[d] \in CallRow
  BY Types DEF IInv, Calls
<1>2. call[d].held = 0
  BY <1>1 DEF CallOK, CallRow
<1>. QED BY <1>1, <1>2 DEF CallOK, CallRow, Current

(* The run after the outcome of a handler. *)
LEMMA AcceptedRun ==
    ASSUME NEW r \in RunRow, NEW o \in Outcome, o.to \in RunState
    PROVE  /\ Accepted(r, o) \in RunRow /\ Accepted(r, o).state = o.to
           /\ Accepted(r, o).version = r.version + 1 /\ Accepted(r, o).plan = r.plan
           /\ Accepted(r, o).replans = r.replans
           /\ Accepted(r, o).pausedFrom = r.pausedFrom
           /\ o.does # "revise" => Accepted(r, o).revisions = r.revisions
           /\ o.does = "revise" => Accepted(r, o).revisions = r.revisions + 1
<1>. DEFINE m == Moved(r, o.to)
            n == IF o.does = "revise" THEN m.revisions + 1 ELSE m.revisions
<1>1. /\ m \in RunRow /\ m.state = o.to /\ m.version = r.version + 1 /\ m.plan = r.plan
      /\ m.replans = r.replans /\ m.revisions = r.revisions /\ m.pausedFrom = r.pausedFrom
  BY MovedRun
<1>2. n \in Nat
  BY <1>1 DEF RunRow
<1>3. Accepted(r, o) = [m EXCEPT !.revisions = n]
  BY DEF Accepted
<1>. HIDE DEF m
<1>. HIDE DEF n
<1>4. /\ Accepted(r, o) \in RunRow /\ Accepted(r, o).state = m.state
      /\ Accepted(r, o).version = m.version /\ Accepted(r, o).plan = m.plan
      /\ Accepted(r, o).replans = m.replans /\ Accepted(r, o).revisions = n
      /\ Accepted(r, o).pausedFrom = m.pausedFrom
  BY <1>1, <1>2, <1>3 DEF RunRow
<1>. QED BY <1>1, <1>4 DEF n

(* A transition, a termination or a revision is committed. *)
LEMMA CommitMoveInv ==
    ASSUME IInv, NEW d \in Driver, CommitMove(d)
    PROVE  IInv'
<1>. DEFINE o == call[d].outcome
<1>1. /\ call[d].stage = "answered" /\ Current(d) /\ o.does \in {"move", "revise", "terminate"}
      /\ run' = Accepted(call[d].run, o)
  BY DEF CommitMove, Ready
<1>2. /\ call[d].run = run /\ call[d].phase \in Phase /\ o \in Outcome
      /\ AnswerOK(o, run) /\ (o.to \in Reporting => AllSucceeded)
  BY <1>1, CurrentCall
<1>3. /\ run \in RunRow /\ run.plan \in 0..Len(plans) /\ RunOK(run, AllSucceeded)
      /\ plans \in Seq(PlanRow) /\ work \in WorkRow
      /\ o.to \in RunState /\ o.to # "paused" /\ run.revisions \in Nat
  BY <1>1, <1>2, Types DEF IInv, AnswerOK, RunRow
<1>. HIDE DEF o
<1>4. /\ run' \in RunRow /\ run'.state = o.to /\ run'.version = run.version + 1
      /\ run'.plan = run.plan /\ run'.replans = run.replans
      /\ run'.pausedFrom = run.pausedFrom
      /\ run'.revisions = run.revisions \/ (run'.revisions = run.revisions + 1 /\ o.does = "revise")
  BY <1>1, <1>2, <1>3, AcceptedRun
<1>5. AllSucceeded => AllSucceeded'
  BY NoCallOK, DoneStays DEF IInv, CommitMove, Done
<1>6. RunOK(run', AllSucceeded')
  <2>1. run'.revisions <= MaxRevisions
    BY <1>2, <1>3, <1>4, RunPolicyAssumption DEF RunOK, AnswerOK
  <2>2. run'.state \in Planned => run'.plan > 0
    BY <1>2, <1>4 DEF AnswerOK
  <2>. QED BY <1>2, <1>3, <1>4, <1>5, <2>1, <2>2 DEF RunOK
<1>7. OnlyApprovedWork'
  BY DEF IInv, OnlyApprovedWork, CommitMove
<1>. QED BY <1>2, <1>3, <1>4, <1>6, <1>7, Committed DEF CommitMove

(* Both plan changes leave a run that is researching. *)
LEMMA ResearchingOK ==
    ASSUME IInv, run' \in RunRow, run'.state = "researching", run'.plan > 0,
           run'.replans <= MaxReplans, run'.revisions = run.revisions,
           run'.pausedFrom = run.pausedFrom
    PROVE  RunOK(run', AllSucceeded')
  BY DEF IInv, RunOK, Planned, Reporting

(* A plan that needs no approval is committed. *)
LEMMA CommitPlanInv ==
    ASSUME IInv, NEW d \in Driver, CommitPlan(d)
    PROVE  IInv'
<1>. DEFINE p == call[d].outcome.about
<1>1. /\ call[d].stage = "answered" /\ Current(d) /\ call[d].outcome.does = "accept"
      /\ AcceptPlan(call[d].run, p)
  BY DEF CommitPlan, Ready
<1>2. call[d].run = run /\ p \in Proposal /\ ApprovalRequired # Driver
  BY <1>1, CurrentCall DEF AnswerOK
<1>. HIDE DEF p
<1>3. /\ run' \in RunRow /\ run'.state = "researching"
      /\ run'.version = run.version + 1 /\ run'.plan = run.plan + 1
      /\ run'.replans = run.replans /\ run'.revisions = run.revisions
      /\ run'.pausedFrom = run.pausedFrom
      /\ plans' \in Seq(PlanRow) /\ run'.plan \in 0..Len(plans') /\ work' \in WorkRow
  BY <1>1, <1>2, PlanAccepted DEF IInv
<1>4. RunOK(run', AllSucceeded')
  <2>1. run'.plan > 0 /\ run'.replans <= MaxReplans
    BY <1>3, Types DEF IInv, RunOK
  <2>. QED BY <1>3, <2>1, ResearchingOK
<1>5. OnlyApprovedWork'
  BY <1>2 DEF OnlyApprovedWork
<1>6. "planning" \in Phase
  BY DEF Phase
<1>. QED BY <1>3, <1>4, <1>5, <1>6, Committed DEF CommitPlan

(* The replan an analysis asked for is committed. *)
LEMMA CommitReplanInv ==
    ASSUME IInv, NEW d \in Driver, CommitReplan(d)
    PROVE  IInv'
<1>1. /\ call[d].stage = "answered" /\ Current(d) /\ call[d].outcome.does = "replan"
      /\ FocusedReplan(call[d].run)
  BY DEF CommitReplan, Ready
<1>2. /\ call[d].run = run /\ call[d].phase \in Phase
      /\ run.plan > 0 /\ run.replans < MaxReplans
  BY <1>1, CurrentCall DEF AnswerOK
<1>3. /\ run' \in RunRow /\ run'.state = "researching"
      /\ run'.version = run.version + 1 /\ run'.plan > 0
      /\ run'.replans = run.replans + 1 /\ run'.revisions = run.revisions
      /\ run'.pausedFrom = run.pausedFrom
      /\ plans' \in Seq(PlanRow) /\ run'.plan \in 0..Len(plans') /\ work' \in WorkRow
      /\ work'.origin = work.origin
  BY <1>1, <1>2, Replanned DEF IInv
<1>4. RunOK(run', AllSucceeded')
  <2>1. run.replans \in Nat /\ MaxReplans \in Nat
    BY Types, RunPolicyAssumption DEF IInv, RunRow
  <2>2. run'.replans <= MaxReplans
    BY <1>2, <1>3, <2>1
  <2>. QED BY <1>3, <2>2, ResearchingOK
<1>5. OnlyApprovedWork'
  BY <1>3 DEF IInv, OnlyApprovedWork, CommitReplan
<1>. QED BY <1>2, <1>3, <1>4, <1>5, Committed DEF CommitReplan

-----------------------------------------------------------------------------
(* A gate is opened, for the run that was loaded, which may have moved. *)
LEMMA GateOpened ==
    ASSUME IInv, NEW d \in Driver, CommitAsk(d)
    PROVE  LET c == call[d]
               v == NextVersion(c.run)
               g == [type |-> c.outcome.to, status |-> "open", lapsed |-> FALSE,
                     artifact |-> IF c.outcome.to = "approval"
                                  THEN <<c.outcome.about, v>> ELSE <<>>,
                     version |-> c.run.version, answer |-> "none"]
           IN  g \in GateRow /\ GateOK(g, run) /\ gates' = Append(gates, g)
<1>. DEFINE c == call[d]
            v == NextVersion(c.run)
            a == IF c.outcome.to = "approval" THEN <<c.outcome.about, v>> ELSE <<>>
            g == [type |-> c.outcome.to, status |-> "open", lapsed |-> FALSE,
                  artifact |-> a, version |-> c.run.version, answer |-> "none"]
<1>1. c \in CallRow /\ CallOK(c, run, AllSucceeded) /\ c.stage = "answered" /\ c.outcome.does = "ask"
  BY Types DEF IInv, Calls, CommitAsk, Ready
<1>2. /\ c.outcome.to \in GateType /\ c.run.version \in Nat
      /\ v = c.run.plan + 1 /\ v \in Nat
      /\ c.outcome.to = "approval" => c.outcome.about \in Proposal
      /\ c.run.version <= run.version
      /\ c.run.version = run.version => c.run = run
      /\ AnswerOK(c.outcome, c.run)
  BY <1>1 DEF CallOK, AnswerOK, CallRow, RunRow, NextVersion
<1>3. gates' = Append(gates, g)
  BY DEF CommitAsk
<1>. HIDE DEF c, v
<1>4. a \in Artifact /\ (c.outcome.to = "approval" => a # <<>>) /\ (a # <<>> => a[2] = v)
  BY <1>2 DEF Artifact
<1>. HIDE DEF a
<1>5. g \in GateRow
  BY <1>2, <1>4 DEF GateRow, GateAnswer
<1>6. GateOK(g, run)
  BY <1>2, <1>4 DEF GateOK, AnswerOK
<1>. QED BY <1>3, <1>5, <1>6 DEF g, a, v, c

(* Opening it writes the proposal it asks about. *)
LEMMA ProposalStored ==
    ASSUME IInv, NEW d \in Driver, CommitAsk(d)
    PROVE  plans' \in Seq(PlanRow) /\ Len(plans') >= Len(plans)
<1>. DEFINE c == call[d]
            p == c.outcome.about
            v == NextVersion(c.run)
            row == [content |-> p, status |-> "proposed"]
<1>1. c \in CallRow /\ CallOK(c, run, AllSucceeded) /\ c.stage = "answered" /\ c.outcome.does = "ask"
  BY Types DEF IInv, Calls, CommitAsk, Ready
<1>2. plans \in Seq(PlanRow) /\ Len(plans) \in Nat /\ DOMAIN plans = 1..Len(plans)
  BY Types DEF IInv
<1>3. CASE c.outcome.to = "approval"
  <2>1. p \in Proposal
    BY <1>1, <1>3 DEF CallOK, AnswerOK
  <2>2. row \in PlanRow
    BY <2>1 DEF PlanRow
  <2>3. plans' = IF v \in DOMAIN plans THEN [plans EXCEPT ![v] = row] ELSE Append(plans, row)
    BY <1>3 DEF CommitAsk, Stored
  <2>. HIDE DEF row, v
  <2>4. CASE v \in DOMAIN plans
    BY <1>2, <2>2, <2>3, <2>4, ExceptSeq
  <2>5. CASE v \notin DOMAIN plans
    BY <1>2, <2>2, <2>3, <2>5, AppendProperties
  <2>. QED BY <2>4, <2>5
<1>4. CASE c.outcome.to # "approval"
  <2>1. plans' = plans
    BY <1>4 DEF CommitAsk
  <2>. QED BY <1>2, <2>1
<1>. QED BY <1>3, <1>4

(* The gate a handler asked for is committed. *)
LEMMA CommitAskInv ==
    ASSUME IInv, NEW d \in Driver, CommitAsk(d)
    PROVE  IInv'
<1>1. /\ run \in RunRow /\ run.plan \in 0..Len(plans) /\ RunOK(run, AllSucceeded)
      /\ call \in [Driver -> CallRow] /\ gates \in Seq(GateRow) /\ plans \in Seq(PlanRow)
      /\ call[d].phase \in Phase
  BY Types DEF IInv, CallRow
<1>2. PICK g \in GateRow : /\ GateOK(g, run) /\ g.answer = "none"
                           /\ gates' = Append(gates, g)
  BY GateOpened
<1>3. /\ gates' \in Seq(GateRow) /\ DOMAIN gates' = 1..(Len(gates) + 1)
      /\ \A i \in 1..Len(gates) : gates'[i] = gates[i]
      /\ gates'[Len(gates) + 1] = g
      /\ DOMAIN gates = 1..Len(gates) /\ Len(gates) \in Nat
  BY <1>1, <1>2, AppendProperties
<1>4. /\ call' \in [Driver -> CallRow] /\ call'[d] = AtRest(FALSE)
      /\ \A e \in Driver : e # d => call'[e] = call[e]
  BY <1>1, NoCallOK, Updated DEF CommitAsk, Done
<1>5. TypeOK'
  <2>1. plans' \in Seq(PlanRow) /\ run.plan \in 0..Len(plans')
    BY <1>1, ProposalStored
  <2>2. streak' \in [Phase -> [version : Nat, count : Nat]]
    BY <1>1, ResetType DEF IInv, CommitAsk
  <2>. QED BY <1>3, <1>4, <2>1, <2>2, Types, TypesNext DEF IInv, TypeOK, CommitAsk, bounds
<1>6. AllSucceeded => AllSucceeded'
  BY NoCallOK, DoneStays DEF IInv, CommitAsk, Done
<1>7. RunOK(run', AllSucceeded')
  BY <1>1, <1>6 DEF RunOK, CommitAsk
<1>8. Calls'
  <2>1. ASSUME NEW e \in Driver PROVE CallOK(call'[e], run', AllSucceeded')
    <3>1. CallOK(call[e], run, AllSucceeded)
      BY DEF IInv, Calls
    <3>2. CallOK(call[e], run, AllSucceeded')
      BY <3>1, <1>6, CallMonotone
    <3>. QED BY <3>2, <1>4, NoCallOK DEF CommitAsk
  <2>. QED BY <2>1 DEF Calls
<1>9. Gates'
  <2>1. \A i \in DOMAIN gates : GateOK(gates[i], run)
    BY DEF IInv, Gates
  <2>2. run' = run
    BY DEF CommitAsk
  <2>. QED BY <1>2, <1>3, <2>1, <2>2 DEF Gates
<1>10. OnlyApprovedWork'
  BY <1>3 DEF IInv, OnlyApprovedWork, CommitAsk
<1>11. OneDecisionPerVersion'
  BY <1>2, <1>3 DEF IInv, OneDecisionPerVersion
<1>. QED BY <1>5, <1>7, <1>8, <1>9, <1>10, <1>11 DEF IInv

-----------------------------------------------------------------------------
(* Answers that take effect.  The gate is bound to the version of the run, *)
(* which grows, so no other gate of that version can be answered later,    *)
(* and none was answered before.                                           *)
LEMMA Answered ==
    ASSUME IInv, NEW i \in DOMAIN gates, Respond(i), Bound(gates[i]),
           NEW a \in GateAnswer, a # "none", Consumed(i, a),
           run' \in RunRow, run'.version = run.version + 1, run'.plan \in 0..Len(plans'),
           plans' \in Seq(PlanRow), work' \in WorkRow, RunOK(run', AllSucceeded'),
           \/ work'.origin = work.origin
           \/ a = "approved" /\ work'.origin = gates[i].artifact,
           UNCHANGED <<streak, call, exhausted, commands, crashes>>
    PROVE  IInv'
<1>1. /\ run \in RunRow /\ run.version \in Nat /\ gates \in Seq(GateRow)
      /\ gates[i] \in GateRow /\ DOMAIN gates = 1..Len(gates)
      /\ \A j \in DOMAIN gates : gates[j] \in GateRow /\ GateOK(gates[j], run)
  BY Types DEF IInv, RunRow, Gates
<1>. DEFINE g == [gates[i] EXCEPT !.status = "consumed", !.answer = a]
<1>2. /\ g \in GateRow /\ g.status = "consumed" /\ g.type = gates[i].type
      /\ g.artifact = gates[i].artifact /\ g.version = gates[i].version
      /\ g.answer = a
  BY <1>1 DEF GateRow
<1>3. gates' = [gates EXCEPT ![i] = g]
  BY DEF Consumed
<1>. HIDE DEF g
<1>4. /\ gates' \in Seq(GateRow) /\ DOMAIN gates' = DOMAIN gates
      /\ gates'[i] = g /\ \A j \in DOMAIN gates : j # i => gates'[j] = gates[j]
  BY <1>1, <1>2, <1>3, ExceptSeq
<1>5. TypeOK'
  <2>1. answers \in 0..MaxAnswers /\ MaxAnswers \in Nat
    BY RunPolicyAssumption DEF IInv, TypeOK
  <2>2. answers' \in 0..MaxAnswers
    BY <2>1 DEF Respond
  <2>. QED BY <1>4, <2>2, Types, TypesNext DEF IInv, TypeOK
<1>6. run.version < run'.version /\ g.version = run.version
  BY <1>1, <1>2 DEF Bound
<1>7. Calls'
  BY <1>5, <1>6, Aging
<1>8. Gates'
  <2>1. GateOK(g, run')
    <3>1. g.type = "approval" => g.artifact # <<>>
      BY <1>1, <1>2 DEF GateOK
    <3>2. g.version < run'.version /\ g.version # run'.version /\ g.version <= run'.version
      BY <1>1, <1>6
    <3>. QED BY <1>2, <3>1, <3>2 DEF GateOK
  <2>2. ASSUME NEW j \in DOMAIN gates, j # i PROVE GateOK(gates[j], run')
    BY <1>1, <1>6, AgedGate
  <2>. QED BY <1>4, <2>1, <2>2 DEF Gates
<1>9. gates[i].answer = "none"
  BY <1>1 DEF GateOK, Respond
<1>10. OnlyApprovedWork'
  <2>1. CASE work'.origin = work.origin
    BY <1>4, <1>9, <2>1 DEF IInv, OnlyApprovedWork
  <2>2. CASE a = "approved" /\ work'.origin = gates[i].artifact
    BY <1>2, <1>4, <2>2 DEF OnlyApprovedWork
  <2>. QED BY <2>1, <2>2
<1>11. OneDecisionPerVersion'
  <2>1. ASSUME NEW j \in DOMAIN gates, j # i, gates[j].answer # "none"
        PROVE  gates[j].version # g.version
    <3>1. gates[j].version < run.version /\ gates[j].version \in Nat
      BY <1>1, <2>1 DEF GateOK, GateRow
    <3>. QED BY <1>1, <1>6, <3>1
  <2>. QED BY <1>4, <2>1 DEF IInv, OneDecisionPerVersion
<1>. QED BY <1>5, <1>7, <1>8, <1>10, <1>11 DEF IInv

(* An answer that only moves the run. *)
LEMMA RespondMoveInv ==
    ASSUME IInv, NEW i \in DOMAIN gates, RespondMove(i)
    PROVE  IInv'
<1>1. /\ run \in RunRow /\ RunOK(run, AllSucceeded) /\ run.plan \in 0..Len(plans)
      /\ plans \in Seq(PlanRow) /\ work \in WorkRow
      /\ gates[i] \in GateRow /\ GateOK(gates[i], run)
  BY Types DEF IInv, Gates
<1>2. PICK c \in Continuation(gates[i].type) : Consumed(i, c[1]) /\ run' = Moved(run, c[2])
  BY DEF RespondMove
<1>3. gates[i].type \in {"goal", "approval", "conflict", "gap"}
  BY <1>1 DEF GateRow, GateType
<1>4. /\ c[1] \in GateAnswer /\ c[1] # "none"
      /\ c[2] \in {"normalizing", "canceled", "planning", "failed", "researching"}
      /\ c[2] = "researching" => gates[i].type = "conflict"
  BY <1>2, <1>3 DEF Continuation, GateAnswer
<1>5. c[2] \in RunState
  BY <1>4 DEF RunState, Phase, Terminal
<1>6. /\ run' \in RunRow /\ run'.state = c[2] /\ run'.version = run.version + 1
      /\ run'.plan = run.plan /\ run'.replans = run.replans
      /\ run'.revisions = run.revisions /\ run'.pausedFrom = run.pausedFrom
  BY <1>1, <1>2, <1>5, MovedRun
<1>7. RunOK(run', AllSucceeded')
  <2>1. c[2] \in Planned => run.plan > 0
    BY <1>1, <1>4 DEF GateOK, Bound, RespondMove, Planned, Reporting
  <2>2. run'.state # "paused" /\ run'.state \notin Reporting
    BY <1>4, <1>6 DEF Reporting
  <2>. QED BY <1>1, <1>6, <2>1, <2>2 DEF RunOK
<1>8. UNCHANGED <<plans, work, streak, call, exhausted, commands, crashes>>
  BY DEF RespondMove
<1>. QED BY <1>1, <1>2, <1>4, <1>6, <1>7, <1>8, Answered DEF RespondMove

(* The plan that is accepted is the one the gate was opened for.           *)
LEMMA RespondApprovedInv ==
    ASSUME IInv, NEW i \in DOMAIN gates, RespondApproved(i)
    PROVE  IInv'
<1>1. /\ run \in RunRow /\ RunOK(run, AllSucceeded) /\ run.plan \in Nat
      /\ plans \in Seq(PlanRow) /\ gates[i] \in GateRow /\ GateOK(gates[i], run)
  BY Types DEF IInv, Gates, RunRow
<1>2. /\ gates[i].artifact = Candidate /\ gates[i].artifact # <<>>
      /\ gates[i].artifact[2] = run.plan + 1
  BY <1>1 DEF RespondApproved, Respond, Bound, Drifted, GateOK
<1>3. plans # <<>> /\ Candidate = <<plans[Len(plans)].content, Len(plans)>>
  BY <1>2 DEF Candidate
<1>4. Len(plans) \in 1..Len(plans)
  BY <1>1, <1>3, EmptySeq
<1>5. Candidate[1] \in Proposal /\ Candidate = <<Candidate[1], run.plan + 1>>
  <2>1. plans[Len(plans)] \in PlanRow
    BY <1>1, <1>4
  <2>2. plans[Len(plans)].content \in Proposal
    BY <2>1 DEF PlanRow
  <2>3. Candidate[1] = plans[Len(plans)].content /\ Candidate[2] = Len(plans)
    BY <1>3
  <2>4. Len(plans) = run.plan + 1
    BY <1>2, <2>3
  <2>. QED BY <1>3, <2>2, <2>3, <2>4
<1>6. /\ run' \in RunRow /\ run'.state = "researching"
      /\ run'.version = run.version + 1 /\ run'.plan = run.plan + 1
      /\ run'.replans = run.replans /\ run'.revisions = run.revisions
      /\ run'.pausedFrom = run.pausedFrom
      /\ plans' \in Seq(PlanRow) /\ run'.plan \in 0..Len(plans') /\ work' \in WorkRow
      /\ work'.origin = <<Candidate[1], run.plan + 1>>
  BY <1>5, PlanAccepted DEF IInv, RespondApproved
<1>7. RunOK(run', AllSucceeded')
  <2>1. run'.plan > 0 /\ run'.replans <= MaxReplans
    BY <1>1, <1>6 DEF RunOK
  <2>. QED BY <1>6, <2>1, ResearchingOK
<1>8. "approved" \in GateAnswer /\ work'.origin = gates[i].artifact
  BY <1>2, <1>5, <1>6 DEF GateAnswer
<1>. QED BY <1>6, <1>7, <1>8, Answered DEF RespondApproved

(* A gap is resolved by one more replan, which the budget still allows. *)
LEMMA RespondGapInv ==
    ASSUME IInv, NEW i \in DOMAIN gates, RespondGap(i)
    PROVE  IInv'
<1>1. /\ run \in RunRow /\ gates[i] \in GateRow /\ GateOK(gates[i], run)
      /\ run.replans \in Nat /\ MaxReplans \in Nat
  BY Types, RunPolicyAssumption DEF IInv, Gates, RunRow
<1>2. run.plan > 0
  BY <1>1 DEF RespondGap, Bound, GateOK
<1>3. /\ run' \in RunRow /\ run'.state = "researching"
      /\ run'.version = run.version + 1 /\ run'.plan > 0
      /\ run'.replans = run.replans + 1 /\ run'.revisions = run.revisions
      /\ run'.pausedFrom = run.pausedFrom
      /\ plans' \in Seq(PlanRow) /\ run'.plan \in 0..Len(plans') /\ work' \in WorkRow
      /\ work'.origin = work.origin
  BY <1>2, Replanned DEF IInv, RespondGap
<1>4. RunOK(run', AllSucceeded')
  <2>1. run'.replans <= MaxReplans
    BY <1>1, <1>3 DEF RespondGap
  <2>. QED BY <1>3, <2>1, ResearchingOK
<1>5. "resolved" \in GateAnswer
  BY DEF GateAnswer
<1>. QED BY <1>3, <1>4, <1>5, Answered DEF RespondGap

-----------------------------------------------------------------------------
(* Every step preserves the invariant. *)
LEMMA NextInv ==
    ASSUME IInv, [Next]_vars
    PROVE  IInv'
<1>1. ASSUME NEW d \in Driver, Drive(d) PROVE IInv'
  <2>1. CASE Begin(d) \/ Return(d) \/ Answer(d)
    BY <2>1, BeginInv, ReturnInv, AnswerInv
  <2>2. CASE Tick(d)
    BY <2>2, TickTerminateInv, TickDispatchInv, TickAcceptInv DEF Tick
  <2>3. CASE Commit(d)
    BY <2>3, CommitMoveInv, CommitPlanInv, CommitReplanInv, CommitAskInv, ObserveInv,
       RollBackInv DEF Commit
  <2>. QED BY <1>1, <2>1, <2>2, <2>3 DEF Drive
<1>2. ASSUME NEW i \in DOMAIN gates, Reply(i) PROVE IInv'
  BY <1>2, RespondMoveInv, RespondApprovedInv, RespondGapInv, RespondStaleInv,
     RespondDriftedInv DEF Reply
<1>3. CASE UNCHANGED vars
  BY <1>3 DEF IInv, TypeOK, Calls, Gates, OnlyApprovedWork, OneDecisionPerVersion,
     AllSucceeded, AllTerminal, InFlight, Held, vars, store, bounds
<1>. QED BY <1>1, <1>2, <1>3, ReturnInv, CrashInv, LapseInv, PauseInv, ResumeInv, CancelInv,
        ElapseInv, ExhaustInv DEF Next

(***************************************************************************)
(* The inductive invariant, of every execution: what is in the store and   *)
(* what every driver holds in memory fit together.                         *)
(***************************************************************************)
THEOREM Invariance == Spec => []IInv
<1>1. Init => IInv
  BY InitInv
<1>2. IInv /\ [Next]_vars => IInv'
  BY NextInv
<1>. QED BY <1>1, <1>2, PTL DEF Spec

(* The store and the memory of every driver are well formed: in particular *)
(* the plan a run is on is always a stored row.                            *)
THEOREM TypeCorrect == Spec => []TypeOK
<1>1. IInv => TypeOK
  BY DEF IInv
<1>. QED BY <1>1, Invariance, PTL

(* Where approval is required, no task is ever stored that a human has not *)
(* approved, for any number of drivers, proposals, gates and commands.     *)
THEOREM ApprovedWork == Spec => []OnlyApprovedWork
<1>1. IInv => OnlyApprovedWork
  BY DEF IInv
<1>. QED BY <1>1, Invariance, PTL

(* No version of the run is decided twice by its humans, however many      *)
(* gates its drivers opened for it.                                        *)
THEOREM UniqueDecision == Spec => []OneDecisionPerVersion
<1>1. IInv => OneDecisionPerVersion
  BY DEF IInv
<1>. QED BY <1>1, Invariance, PTL

(* A run is analysed, written, reviewed and finished only on research that *)
(* has succeeded as a whole, whatever late ticks and commands do.          *)
THEOREM ResearchFirst == Spec => []ReportRestsOnResearch
<1>1. IInv => ReportRestsOnResearch
  BY DEF IInv, RunOK, Reporting, ReportRestsOnResearch
<1>. QED BY <1>1, Invariance, PTL

(* The budgets of replans and revisions are never exceeded, though three   *)
(* places spend the one and every driver may spend the other.              *)
THEOREM Budgets == Spec => []WithinBudgets
<1>1. IInv => WithinBudgets
  BY DEF IInv, RunOK, WithinBudgets
<1>. QED BY <1>1, Invariance, PTL

-----------------------------------------------------------------------------
(* A run without a budget that can be overrun leaves a stopped state only  *)
(* by a command.                                                           *)
LEMMA StoppedStands ==
    ASSUME IInv, Limited = FALSE, [Next]_vars, run.state \in Stopped,
           run'.state # run.state
    PROVE  commands' = commands + 1
<1>1. /\ run \in RunRow /\ call \in [Driver -> CallRow]
      /\ \A i \in DOMAIN gates : GateOK(gates[i], run)
  BY Types DEF IInv, Gates
<1>2. ASSUME NEW d \in Driver, Drive(d) PROVE FALSE
  <2>1. CASE CommitMove(d) \/ CommitPlan(d) \/ CommitReplan(d)
    <3>1. /\ call[d].stage = "answered" /\ Current(d)
          /\ call[d].outcome.does # "observe"
      BY <2>1 DEF CommitMove, CommitPlan, CommitReplan, Ready
    <3>2. AnswerOK(call[d].outcome, run)
      BY <3>1, CurrentCall
    <3>. QED BY <3>2 DEF AnswerOK
  <2>2. CASE TickAccept(d)
    <3>1. PICK k \in Nat : run' = [run EXCEPT !.state = run.state, !.version = @ + k]
      <4>1. call[d].held \in Nat
        BY <1>1 DEF CallRow
      <4>. QED BY <2>2, <4>1 DEF TickAccept
    <3>2. run'.state = run.state
      BY <1>1, <3>1 DEF RunRow
    <3>. QED BY <3>2
  <2>3. CASE TickTerminate(d)
    BY <2>3 DEF TickTerminate, MayTick
  <2>4. CASE \/ Begin(d) \/ Return(d) \/ Answer(d) \/ TickDispatch(d)
             \/ CommitAsk(d) \/ Observe(d) \/ RollBack(d)
    BY <2>4 DEF Begin, Return, Answer, TickDispatch, CommitAsk, Observe, RollBack, store
  <2>. QED BY <1>2, <2>1, <2>2, <2>3, <2>4 DEF Drive, Tick, Commit
<1>3. ASSUME NEW i \in DOMAIN gates, Reply(i) PROVE FALSE
  <2>1. CASE RespondMove(i) \/ RespondApproved(i) \/ RespondGap(i)
    BY <1>1, <2>1 DEF RespondMove, RespondApproved, RespondGap, Bound, GateOK
  <2>2. CASE RespondStale(i) \/ RespondDrifted(i)
    BY <2>2 DEF RespondStale, RespondDrifted
  <2>. QED BY <1>3, <2>1, <2>2 DEF Reply
<1>4. CASE Pause \/ Resume \/ Cancel
  BY <1>4 DEF Pause, Resume, Cancel, Command
<1>5. CASE \/ \E d \in Driver : GiveUp(d) \/ Crash(d)
           \/ \E i \in DOMAIN gates : Lapse(i)
           \/ Elapse \/ Exhaust \/ UNCHANGED vars
  BY <1>5 DEF GiveUp, Crash, Lapse, Elapse, Exhaust, vars, store
<1>. QED BY <1>2, <1>3, <1>4, <1>5 DEF Next

(***************************************************************************)
(* The commands stand.  The assumption is needed: the accept transaction   *)
(* of a tick terminates whatever run it finds when a result overruns the   *)
(* budget, a paused and a finished run too.                                *)
(***************************************************************************)
THEOREM CommandsAreObeyed ==
    ASSUME Limited = FALSE
    PROVE  Spec => CommandsStand
<1>1. IInv /\ [Next]_vars =>
        [run.state \in Stopped /\ run'.state # run.state
           => commands' = commands + 1]_vars
  BY StoppedStands
<1>. QED BY <1>1, Invariance, PTL DEF Spec, CommandsStand
=============================================================================
