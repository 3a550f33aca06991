-------------------------- MODULE AgentLoopProofs --------------------------
(***************************************************************************)
(* Proofs about AgentLoop, for every number of driving processes, finite   *)
(* set of seeds, boundary, budget and bound on replans, attempts and       *)
(* faults.                                                                 *)
(*                                                                         *)
(* The inductive invariant IInv says of one seed how its row, its task and *)
(* its loop fit together (SeedInv), of a driving process what the lease it *)
(* may still hold entitles it to (HolderInv), and of the run what its Plan *)
(* has left behind when it is analysed (RunInv).                           *)
(*                                                                         *)
(* The accounts come last.  UsageAccounted compares what the run and the   *)
(* loops were charged with the sums over the stored steps, and is          *)
(* inductive given IInv: a step of the system changes one term of a sum,   *)
(* except for the acceptance, which changes one for each seed of its batch *)
(* and charges them to the run one by one.                                 *)
(***************************************************************************)
EXTENDS AgentLoop, SequenceLemmas, FiniteSetTheorems

(* The loop's counters and its steps: accepted ones first, then at most one. *)
CountInv(s) ==
    /\ loop[s].count = loop[s].next
    /\ \A i \in 1..Len(steps[s]) : (steps[s][i].status = "accepted") <=> (i <= loop[s].count)
    /\ loop[s].count <= Len(steps[s]) /\ Len(steps[s]) <= loop[s].count + 1

(* A step that is not decided has no action and no price; one that was *)
(* executed has an action.                                             *)
RowInv(s) ==
    \A i \in 1..Len(steps[s]) :
        /\ steps[s][i].status = "deciding" => steps[s][i].action = Nothing
        /\ steps[s][i].status \in {"prepared", "accepted"} => steps[s][i].action # Nothing
        /\ steps[s][i].action = Nothing => steps[s][i].tokens = 0

Waiting(s) == Len(steps[s]) = loop[s].count + 1    \* a step is not accepted yet

(* The directions stay countable: the one decided last is within the bound. *)
FocusInv(s) ==
    /\ IsFiniteSet(loop[s].foci)
    /\ loop[s].status # "none" => SeedFocus \in loop[s].foci
    /\ loop[s].directions = Cardinality(loop[s].foci \ {SeedFocus})
    /\ loop[s].directions <= MaxDirections
    /\ \A a \in Action : Waiting(s) /\ steps[s][Current(s)].action = a => ~BeyondBoundary(s, a)

(* The task follows the loop, and a loop with a step could pay for it. *)
TaskInv(s) ==
    /\ (task[s].state = "succeeded") <=> Closed(loop[s])
    /\ loop[s].status = "none" => loop[s] = NoLoop /\ steps[s] = <<>>
    /\ task[s].state = "dispatched" => Waiting(s) /\ loop[s].status = "active"
    /\ Waiting(s) /\ ~Closed(loop[s]) => ~ExhaustedBefore(loop[s])

(* What was covered was queried by an accepted step. *)
CoverInv(s) ==
    /\ \A c \in loop[s].coverage : \E i \in 1..Len(steps[s]) :
          steps[s][i].status = "accepted" /\ steps[s][i].action = Query(c)
    /\ loop[s].status = "completed" => loop[s].evidence /\ Required[s] \subseteq loop[s].coverage

SeedInv(s) == CountInv(s) /\ RowInv(s) /\ FocusInv(s) /\ TaskInv(s) /\ CoverInv(s)

(* Every dispatch has an epoch of its own, and the newest holder's result *)
(* fits the stored step.                                                  *)
HeldInv(d, s) ==
    /\ driver[d][s].epoch <= lease[s].epoch
    /\ \A o \in Driver \ {d} : s \in Held(o) => driver[o][s].epoch # driver[d][s].epoch
    /\ Holder(d, s) =>
          /\ steps[s][Current(s)].owner = driver[d][s].epoch
          /\ Holds(d, s, "decide") => steps[s][Current(s)].status = "deciding"
          /\ Holds(d, s, "execute") \/ Holds(d, s, "success") =>
                steps[s][Current(s)].status = "prepared"

HolderInv(d) == \A s \in Held(d) : HeldInv(d, s)

RunInv == run.state = "analyzing" => \A s \in plan.seeds : Closed(loop[s])

IInv ==
    /\ TypeOK
    /\ \A s \in Seed : SeedInv(s)
    /\ \A d \in Driver : HolderInv(d)
    /\ RunInv

-----------------------------------------------------------------------------
(* The rows, by the sets they are from. *)
RunRow == [state : {"researching", "analyzing", "failed"}, tokens : Nat, cost : Nat, replans : Nat]
TaskRow == [state : {"pending", "ready", "dispatched", "awaiting_retry", "succeeded"},
            accepted : BOOLEAN]
LeaseRow == [epoch : Nat, claimed : BOOLEAN, open : BOOLEAN]
LoopRow == [version : Nat, count : Nat, next : Nat,
            status : {"none", "active", "completed", "exhausted"},
            foci : SUBSET Focus, directions : Nat,
            coverage : SUBSET Capability, evidence : BOOLEAN,
            tokens : Nat, cost : Nat]
StepRow == [status : {"deciding", "prepared", "accepted", "failed"},
            owner : Nat, action : Action \cup {Nothing},
            tokens : Nat, cost : Nat, retries : Nat]
HeldRow == [epoch : Nat, cost : Nat, found : BOOLEAN,
            stage : {"idle", "decide", "execute", "success", "transient", "refused", "fenced"}]

(* The type invariant, by those sets. *)
LEMMA Rows1 ==
    TypeOK <=>
        /\ run \in RunRow
        /\ plan \in [version : Nat, seeds : SUBSET Seed]
        /\ task \in [Seed -> TaskRow]
        /\ lease \in [Seed -> LeaseRow]
        /\ loop \in [Seed -> LoopRow]
        /\ steps \in [Seed -> Seq(StepRow)]
        /\ driver \in [Driver -> [Seed -> HeldRow]]
        /\ lapsed \subseteq Seed /\ backedOff \subseteq Seed
        /\ overdue \in BOOLEAN /\ faults \in Nat
  BY DEF TypeOK, RunRow, TaskRow, LeaseRow, LoopRow, StepRow, HeldRow

(* The same after a step. *)
LEMMA Rows1Next ==
    TypeOK' <=>
        /\ run' \in RunRow
        /\ plan' \in [version : Nat, seeds : SUBSET Seed]
        /\ task' \in [Seed -> TaskRow]
        /\ lease' \in [Seed -> LeaseRow]
        /\ loop' \in [Seed -> LoopRow]
        /\ steps' \in [Seed -> Seq(StepRow)]
        /\ driver' \in [Driver -> [Seed -> HeldRow]]
        /\ lapsed' \subseteq Seed /\ backedOff' \subseteq Seed
        /\ overdue' \in BOOLEAN /\ faults' \in Nat
  BY DEF TypeOK, RunRow, TaskRow, LeaseRow, LoopRow, StepRow, HeldRow

(* An action of a kind has an argument of that kind. *)
LEMMA ActionKinds ==
    ASSUME NEW a \in Action
    PROVE  /\ a # Nothing
           /\ a.kind = "query" => a.arg \in Capability /\ a = Query(a.arg)
           /\ a.kind = "add_direction" => a.arg \in Focus
  BY NothingAssumption DEF Action, Query, AddDirection, Stop

(* A step that waits is the newest, and not accepted. *)
LEMMA WaitingStep ==
    ASSUME TypeOK, NEW s \in Seed, SeedInv(s), Waiting(s)
    PROVE  /\ Current(s) \in 1..Len(steps[s]) /\ Current(s) = loop[s].count + 1
           /\ steps[s][Current(s)] \in StepRow
           /\ steps[s][Current(s)].status # "accepted"
  <1>1. loop[s].count \in Nat /\ steps[s] \in Seq(StepRow) /\ Len(steps[s]) \in Nat
    BY Rows1 DEF LoopRow
  <1>2. Current(s) = loop[s].count + 1 /\ Current(s) \in 1..Len(steps[s])
    BY <1>1 DEF Waiting, Current
  <1>3. steps[s][Current(s)] \in StepRow
    BY <1>1, <1>2
  <1>4. steps[s][Current(s)].status # "accepted"
    BY <1>1, <1>2 DEF SeedInv, CountInv
  <1> QED
    BY <1>2, <1>3, <1>4

(* A loop that is there already stays as it is; a new one starts empty. *)
LEMMA EnsuredLoop ==
    ASSUME TypeOK, NEW s \in Seed, SeedInv(s)
    PROVE  /\ Ensured(s) \in LoopRow
           /\ loop[s].status # "none" => Ensured(s) = loop[s]
           /\ loop[s].status = "none" =>
                 /\ Ensured(s).status = "active" /\ Ensured(s).foci = {SeedFocus}
                 /\ loop[s] = NoLoop /\ steps[s] = <<>>
           /\ Ensured(s).count = loop[s].count /\ Ensured(s).next = loop[s].next
           /\ Ensured(s).directions = loop[s].directions /\ Ensured(s).coverage = loop[s].coverage
           /\ Ensured(s).evidence = loop[s].evidence
           /\ Ensured(s).tokens = loop[s].tokens /\ Ensured(s).cost = loop[s].cost
           /\ Ensured(s).next = Current(s) <=> ~Waiting(s)
           /\ ~Waiting(s) => Current(s) = loop[s].count
  <1>1. loop[s] \in LoopRow /\ steps[s] \in Seq(StepRow) /\ Len(steps[s]) \in Nat /\ plan.version \in Nat
    BY Rows1
  <1>2. loop[s].count = loop[s].next /\ loop[s].count \in Nat
        /\ loop[s].count <= Len(steps[s]) /\ Len(steps[s]) <= loop[s].count + 1
    BY <1>1 DEF SeedInv, CountInv, LoopRow
  <1>3. CASE loop[s].status # "none"
    <2>1. Ensured(s) = loop[s]
      BY <1>3 DEF Ensured
    <2> QED
      BY <1>1, <1>2, <1>3, <2>1 DEF Waiting, Current
  <1>4. CASE loop[s].status = "none"
    <2>1. loop[s] = NoLoop /\ steps[s] = <<>>
      BY <1>4 DEF SeedInv, TaskInv
    <2>2. Ensured(s) = [NoLoop EXCEPT !.version = plan.version, !.status = "active", !.foci = {SeedFocus}]
      BY <1>4 DEF Ensured
    <2>3. Ensured(s) = [version |-> plan.version, status |-> "active", count |-> 0, next |-> 0,
                        foci |-> {SeedFocus}, directions |-> 0, coverage |-> {}, evidence |-> FALSE,
                        tokens |-> 0, cost |-> 0]
      BY <2>2 DEF NoLoop
    <2>4. Ensured(s) \in LoopRow
      BY <1>1, <2>3, BoundaryAssumption DEF LoopRow
    <2> QED
      BY <1>2, <1>4, <2>1, <2>3, <2>4 DEF NoLoop, Waiting, Current
  <1> QED
    BY <1>3, <1>4

(* The step that a claim works on, and the steps with it. *)
LEMMA ResumedStep ==
    ASSUME TypeOK, NEW s \in Seed, SeedInv(s), NEW e \in Nat
    PROVE  LET r == Resumed(s, e) IN
           /\ r \in StepRow
           /\ r.owner = e
           /\ r.status \in {"deciding", "prepared"}
           /\ r.status = "prepared" <=> r.action # Nothing
           /\ r.action = Nothing => r.tokens = 0
           /\ ~Waiting(s) => r.action = Nothing /\ r.cost = 0
           /\ Waiting(s) =>
                 /\ r.action = steps[s][Current(s)].action
                 /\ r.tokens = steps[s][Current(s)].tokens
                 /\ r.cost = steps[s][Current(s)].cost
           /\ r.status = Resumed(s, 1).status
  <1>1. CASE ~Waiting(s)
    <2>1. \A x : Resumed(s, x) = [status |-> "deciding", owner |-> x, action |-> Nothing, tokens |-> 0,
                                  cost |-> 0, retries |-> 0]
      BY <1>1, EnsuredLoop DEF Resumed
    <2> QED
      BY <1>1, <2>1 DEF StepRow
  <1>2. CASE Waiting(s)
    <2>1. Current(s) # Ensured(s).next
      BY <1>2, EnsuredLoop
    <2> DEFINE old == steps[s][Current(s)]
               st == IF old.action # Nothing THEN "prepared" ELSE "deciding"
    <2>2. old \in StepRow /\ Current(s) \in 1..Len(steps[s])
      BY <1>2, WaitingStep
    <2>3. \A x : Resumed(s, x) = [old EXCEPT !.owner = x, !.status = st]
      BY <2>1 DEF Resumed
    <2>4. old.action = Nothing => old.tokens = 0
      BY <2>2 DEF SeedInv, RowInv
    <2> HIDE DEF old
    <2>5. \A x \in Nat : /\ Resumed(s, x) \in StepRow
                         /\ Resumed(s, x).owner = x /\ Resumed(s, x).status = st
                         /\ Resumed(s, x).action = old.action /\ Resumed(s, x).tokens = old.tokens
                         /\ Resumed(s, x).cost = old.cost
      <3> TAKE x \in Nat
      <3>1. st \in {"prepared", "deciding"}
        OBVIOUS
      <3> HIDE DEF st
      <3>2. Resumed(s, x) = [old EXCEPT !.owner = x, !.status = st]
        BY <2>3
      <3>3. [old EXCEPT !.owner = x, !.status = st] \in StepRow
        BY <2>2, <3>1 DEF StepRow
      <3> QED
        BY <2>2, <3>2, <3>3 DEF StepRow
    <2> QED
      BY <1>2, <2>4, <2>5 DEF old
  <1> QED
    BY <1>1, <1>2

(* The steps of a seed with one that was added or resumed: only the last differs. *)
LEMMA StepAdded ==
    ASSUME TypeOK, NEW s \in Seed, SeedInv(s), NEW r \in StepRow
    PROVE  LET w == WithStep(s, r) IN
           /\ w \in Seq(StepRow)
           /\ Len(w) = loop[s].count + 1
           /\ w[loop[s].count + 1] = r
           /\ \A i \in 1..Len(steps[s]) : i # loop[s].count + 1 => w[i] = steps[s][i]
           /\ Len(steps[s]) <= Len(w)
  <1>1. steps[s] \in Seq(StepRow) /\ Len(steps[s]) \in Nat /\ loop[s].count \in Nat
    BY Rows1 DEF LoopRow
  <1>2. CASE ~Waiting(s)
    <2>1. WithStep(s, r) = Append(steps[s], r) /\ Len(steps[s]) = loop[s].count
      BY <1>2, EnsuredLoop DEF WithStep, Current
    <2> QED
      BY <1>1, <2>1
  <1>3. CASE Waiting(s)
    <2>1. WithStep(s, r) = [steps[s] EXCEPT ![Current(s)] = r]
      BY <1>3, EnsuredLoop DEF WithStep
    <2>2. Current(s) \in 1..Len(steps[s]) /\ Current(s) = loop[s].count + 1 /\ Len(steps[s]) = loop[s].count + 1
      BY <1>3, WaitingStep DEF Waiting
    <2> QED
      BY <1>1, <2>1, <2>2
  <1> QED
    BY <1>2, <1>3

-----------------------------------------------------------------------------
(* What the claims read is about seeds that are not done. *)
LEMMA ReadySeeds ==
    ASSUME TypeOK
    PROVE  /\ Ready \subseteq Seed /\ Expired \subseteq Seed
           /\ \A s \in Ready : task[s].state # "succeeded"
           /\ \A s \in Requeued : task[s].state = "dispatched"
           /\ \A s \in Readmitted : task[s].state = "awaiting_retry"
           /\ \A s \in Ready : task[s].state = "dispatched" => s \in Expired
  <1>1. plan.seeds \subseteq Seed /\ lapsed \subseteq Seed /\ task \in [Seed -> TaskRow]
    BY Rows1
  <1> QED
    BY <1>1 DEF Ready, Runnable, Expired, Requeued, Readmitted

(* A seed whose loop and steps stay, and whose task is not claimed or settled. *)
LEMMA SeedUntouched ==
    ASSUME NEW s, SeedInv(s), loop'[s] = loop[s], steps'[s] = steps[s],
           task'[s].state = "succeeded" <=> task[s].state = "succeeded",
           task'[s].state = "dispatched" => task[s].state = "dispatched"
    PROVE  SeedInv(s)'
  <1>1. \A a : BeyondBoundary(s, a)' <=> BeyondBoundary(s, a)
    BY DEF BeyondBoundary, NewFocus
  <1>2. CountInv(s)' /\ RowInv(s)' /\ CoverInv(s)'
    BY DEF SeedInv, CountInv, RowInv, CoverInv
  <1>3. FocusInv(s)'
    BY <1>1 DEF SeedInv, FocusInv, Waiting, Current
  <1>4. TaskInv(s)'
    BY DEF SeedInv, TaskInv, Closed, Waiting, ExhaustedBefore
  <1> QED
    BY <1>2, <1>3, <1>4 DEF SeedInv

(* What the dispatch of a seed makes of it. *)
ClosedNow == {s \in Ready : ExhaustedBefore(Ensured(s))}
Claimed == Ready \ ClosedNow

(* What a dispatch makes of a seed that it closes, claims, or leaves alone. *)
LEMMA DispatchEffect ==
    ASSUME TypeOK, NEW d \in Driver, Dispatch(d), NEW s \in Seed
    PROVE  /\ s \in ClosedNow =>
                 /\ loop'[s] = [Ensured(s) EXCEPT !.status = "exhausted"]
                 /\ task'[s] = [task[s] EXCEPT !.state = "succeeded"]
                 /\ steps'[s] = steps[s]
           /\ s \in Claimed =>
                 /\ loop'[s] = Ensured(s)
                 /\ task'[s] = [task[s] EXCEPT !.state = "dispatched"]
                 /\ steps'[s] = WithStep(s, Resumed(s, lease[s].epoch + 1))
                 /\ lease'[s] = [epoch |-> lease[s].epoch + 1, claimed |-> TRUE, open |-> TRUE]
           /\ s \notin Claimed =>
                 lease'[s] = IF s \in Expired THEN [lease[s] EXCEPT !.claimed = FALSE, !.open = FALSE]
                                              ELSE lease[s]
           /\ s \notin Ready =>
                 /\ loop'[s] = loop[s] /\ steps'[s] = steps[s]
                 /\ task'[s] = IF s \in Requeued THEN [task[s] EXCEPT !.state = "pending"]
                               ELSE IF s \in Readmitted THEN [task[s] EXCEPT !.state = "ready"]
                               ELSE task[s]
           /\ driver'[d][s] =
                 IF s \notin Claimed THEN Free
                 ELSE [Free EXCEPT !.epoch = lease[s].epoch + 1,
                         !.stage = IF Resumed(s, 1).status = "prepared" THEN "execute" ELSE "decide"]
           /\ \A o \in Driver \ {d} : driver'[o] = driver[o]
  <1> USE DEF ClosedNow, Claimed
  <1>0. driver \in [Driver -> [Seed -> HeldRow]]
    BY Rows1
  <1>1. loop'[s] = IF s \in ClosedNow THEN [Ensured(s) EXCEPT !.status = "exhausted"]
                   ELSE IF s \in Claimed THEN Ensured(s) ELSE loop[s]
    BY DEF Dispatch
  <1>2. task'[s] = TaskAfterDispatch(s, ClosedNow)
    BY DEF Dispatch
  <1>3. lease'[s] = IF s \in Claimed
         THEN [epoch |-> lease[s].epoch + 1, claimed |-> TRUE, open |-> TRUE]
         ELSE IF s \in Expired
         THEN [lease[s] EXCEPT !.claimed = FALSE, !.open = FALSE] ELSE lease[s]
    BY DEF Dispatch
  <1>4. steps'[s] = IF s \in Claimed THEN WithStep(s, Resumed(s, lease[s].epoch + 1)) ELSE steps[s]
    BY DEF Dispatch
  <1> DEFINE batch == [x \in Seed |->
         IF x \notin Claimed THEN Free
         ELSE [Free EXCEPT !.epoch = lease[x].epoch + 1,
                 !.stage = IF Resumed(x, 1).status = "prepared" THEN "execute" ELSE "decide"]]
  <1>5. driver' = [driver EXCEPT ![d] = batch]
    BY DEF Dispatch
  <1>6. batch[s] = IF s \notin Claimed THEN Free
         ELSE [Free EXCEPT !.epoch = lease[s].epoch + 1,
                 !.stage = IF Resumed(s, 1).status = "prepared" THEN "execute" ELSE "decide"]
    OBVIOUS
  <1> HIDE DEF batch
  <1>7. driver'[d] = batch /\ \A o \in Driver \ {d} : driver'[o] = driver[o]
    BY <1>0, <1>5
  <1> HIDE DEF ClosedNow, Claimed
  <1>8. ClosedNow \subseteq Ready /\ Claimed = Ready \ ClosedNow
    BY DEF ClosedNow, Claimed
  <1>9. task'[s] = IF s \in ClosedNow THEN [task[s] EXCEPT !.state = "succeeded"]
                   ELSE IF s \in Ready THEN [task[s] EXCEPT !.state = "dispatched"]
                   ELSE IF s \in Requeued THEN [task[s] EXCEPT !.state = "pending"]
                   ELSE IF s \in Readmitted THEN [task[s] EXCEPT !.state = "ready"] ELSE task[s]
    BY <1>2 DEF TaskAfterDispatch
  <1> QED
    BY <1>1, <1>3, <1>4, <1>6, <1>7, <1>8, <1>9

(* A dispatch keeps a seed's rows in step. *)
LEMMA SeedDispatch ==
    ASSUME TypeOK, NEW d \in Driver, Dispatch(d), NEW s \in Seed, SeedInv(s)
    PROVE  SeedInv(s)' /\ loop'[s] \in LoopRow /\ steps'[s] \in Seq(StepRow)
  <1>0. /\ task[s] \in TaskRow /\ loop[s] \in LoopRow /\ steps[s] \in Seq(StepRow)
        /\ Len(steps[s]) \in Nat /\ lease[s] \in LeaseRow
    BY Rows1
  <1>1. CASE s \notin Ready
    <2>1. loop'[s] = loop[s] /\ steps'[s] = steps[s]
      BY <1>1, DispatchEffect
    <2>2. /\ task'[s].state = "succeeded" <=> task[s].state = "succeeded"
          /\ task'[s].state = "dispatched" => task[s].state = "dispatched"
      <3> DEFINE old == task[s]
      <3>1. task'[s] = IF s \in Requeued THEN [old EXCEPT !.state = "pending"]
                       ELSE IF s \in Readmitted THEN [old EXCEPT !.state = "ready"] ELSE old
        BY <1>1, DispatchEffect
      <3>2. old \in TaskRow /\ (s \in Requeued => old.state = "dispatched")
            /\ (s \in Readmitted => old.state = "awaiting_retry")
        BY <1>0, ReadySeeds
      <3> HIDE DEF old
      <3>3. /\ task'[s].state = "succeeded" <=> old.state = "succeeded"
            /\ task'[s].state = "dispatched" => old.state = "dispatched"
        BY <3>1, <3>2 DEF TaskRow
      <3> QED
        BY <3>3 DEF old
    <2> QED
      BY <1>0, <2>1, <2>2, SeedUntouched
  <1>2. CASE s \in ClosedNow
    <2>0. s \in Ready /\ ExhaustedBefore(Ensured(s)) /\ task[s].state # "succeeded"
      BY <1>2, ReadySeeds DEF ClosedNow
    <2> DEFINE l == Ensured(s)
    <2>1. /\ loop'[s] = [l EXCEPT !.status = "exhausted"]
          /\ task'[s].state = "succeeded" /\ steps'[s] = steps[s]
      BY <1>0, <1>2, DispatchEffect DEF TaskRow
    <2>2. l \in LoopRow
      BY EnsuredLoop
    <2>3. /\ loop'[s] \in LoopRow /\ loop'[s].status = "exhausted"
          /\ loop'[s].count = l.count /\ loop'[s].next = l.next
          /\ loop'[s].foci = l.foci /\ loop'[s].directions = l.directions
          /\ loop'[s].coverage = l.coverage
      BY <2>1, <2>2 DEF LoopRow
    <2> HIDE DEF l
    <2>4. CountInv(s)'
      BY <2>1, <2>3, EnsuredLoop DEF CountInv, SeedInv, l
    <2>5. RowInv(s)'
      BY <2>1 DEF RowInv, SeedInv
    <2>6. FocusInv(s)'
      <3>1. CASE loop[s].status # "none"
        <4>1. loop'[s].foci = loop[s].foci /\ loop'[s].directions = loop[s].directions /\ loop'[s].count = loop[s].count
          BY <2>3, <3>1, EnsuredLoop DEF l
        <4> QED
          BY <2>1, <3>1, <4>1 DEF FocusInv, SeedInv, Waiting, Current, BeyondBoundary, NewFocus
      <3>2. CASE loop[s].status = "none"
        <4>1. loop'[s].foci = {SeedFocus} /\ loop'[s].directions = 0 /\ steps'[s] = <<>> /\ loop'[s].count = 0
          BY <2>1, <2>3, <3>2, EnsuredLoop DEF l, NoLoop
        <4>2. IsFiniteSet({SeedFocus}) /\ Cardinality({SeedFocus} \ {SeedFocus}) = 0
          <5>1. {SeedFocus} \ {SeedFocus} = {}
            OBVIOUS
          <5> QED
            BY <5>1, FS_EmptySet, FS_Singleton
        <4>3. MaxDirections \in Nat
          BY BoundaryAssumption
        <4> QED
          BY <4>1, <4>2, <4>3 DEF FocusInv, Waiting
      <3> QED
        BY <3>1, <3>2
    <2>7. TaskInv(s)'
      BY <2>1, <2>3 DEF TaskInv, Closed
    <2>8. CoverInv(s)'
      BY <2>1, <2>3, EnsuredLoop DEF CoverInv, SeedInv, l
    <2> QED
      BY <2>1, <2>3, <2>4, <2>5, <2>6, <2>7, <2>8, <1>0 DEF SeedInv
  <1>3. CASE s \in Claimed
    <2>0. s \in Ready /\ ~ExhaustedBefore(Ensured(s)) /\ task[s].state # "succeeded"
      BY <1>3, ReadySeeds DEF Claimed, ClosedNow
    <2> DEFINE r == Resumed(s, lease[s].epoch + 1)
    <2>1. loop'[s] = Ensured(s) /\ task'[s].state = "dispatched" /\ steps'[s] = WithStep(s, r)
      <3>1. /\ loop'[s] = Ensured(s)
            /\ task'[s] = [task[s] EXCEPT !.state = "dispatched"]
            /\ steps'[s] = WithStep(s, Resumed(s, lease[s].epoch + 1))
        BY <1>3, DispatchEffect
      <3> QED
        BY <1>0, <3>1 DEF TaskRow
    <2>2. lease[s].epoch + 1 \in Nat
      BY <1>0 DEF LeaseRow
    <2>3. /\ r \in StepRow
          /\ r.status \in {"deciding", "prepared"}
          /\ r.status = "prepared" <=> r.action # Nothing
          /\ r.action = Nothing => r.tokens = 0
          /\ ~Waiting(s) => r.action = Nothing
          /\ Waiting(s) => r.action = steps[s][Current(s)].action
      BY <2>2, ResumedStep
    <2> HIDE DEF r
    <2>4. /\ steps'[s] \in Seq(StepRow)
          /\ Len(steps'[s]) = loop[s].count + 1
          /\ steps'[s][loop[s].count + 1] = r
          /\ \A i \in 1..Len(steps[s]) : i # loop[s].count + 1 => steps'[s][i] = steps[s][i]
      BY <2>1, <2>3, StepAdded
    <2>5. /\ loop[s].count \in Nat /\ loop[s].count <= Len(steps[s]) /\ Len(steps[s]) <= loop[s].count + 1
          /\ \A i \in 1..Len(steps[s]) : (steps[s][i].status = "accepted") <=> (i <= loop[s].count)
      BY <1>0 DEF LoopRow, SeedInv, CountInv
    <2>6. loop'[s] \in LoopRow /\ loop'[s].count = loop[s].count /\ loop'[s].next = loop[s].next
          /\ loop'[s].coverage = loop[s].coverage /\ loop'[s].evidence = loop[s].evidence
      BY <2>1, EnsuredLoop
    <2>7. \A i \in 1..Len(steps'[s]) :
             i = loop[s].count + 1 \/ (i \in 1..Len(steps[s]) /\ i # loop[s].count + 1 /\ steps'[s][i] = steps[s][i])
      BY SMTT(30), <1>0, <2>4, <2>5
    <2>8. ~Closed(loop[s]) /\ loop'[s].status = "active"
      <3>1. ~Closed(loop[s])
        BY <2>0 DEF SeedInv, TaskInv
      <3> QED
        BY <1>0, <2>1, <3>1, EnsuredLoop DEF Closed, LoopRow
    <2>9. CountInv(s)'
      <3>1. \A i \in 1..Len(steps'[s]) : (steps'[s][i].status = "accepted") <=> (i <= loop[s].count)
        <4> TAKE i \in 1..Len(steps'[s])
        <4>1. CASE i = loop[s].count + 1
          BY <2>3, <2>4, <2>5, <4>1
        <4>2. CASE i # loop[s].count + 1
          BY <2>5, <2>7, <4>2
        <4> QED
          BY <4>1, <4>2
      <3> QED
        BY <2>4, <2>5, <2>6, <3>1 DEF CountInv, SeedInv
    <2>10. RowInv(s)'
      BY <2>3, <2>4, <2>7 DEF RowInv, SeedInv
    <2>11. FocusInv(s)'
      <3>0. Current(s)' = loop[s].count + 1
        BY <2>4 DEF Current
      <3>1. CASE loop[s].status # "none"
        <4>1. loop'[s] = loop[s]
          BY <2>1, <3>1, EnsuredLoop
        <4>2. \A a \in Action : r.action = a => ~BeyondBoundary(s, a)
          BY <2>3, NothingAssumption DEF SeedInv, FocusInv
        <4>3. \A a : BeyondBoundary(s, a)' <=> BeyondBoundary(s, a)
          BY <4>1 DEF BeyondBoundary, NewFocus
        <4>4. steps'[s][Current(s)'].action = r.action
          BY <2>4, <3>0
        <4>5. \A a \in Action : steps'[s][Current(s)'].action = a => ~BeyondBoundary(s, a)'
          BY <4>2, <4>3, <4>4
        <4> QED
          BY <4>1, <4>5 DEF FocusInv, SeedInv
      <3>2. CASE loop[s].status = "none"
        <4>1. loop'[s].foci = {SeedFocus} /\ loop'[s].directions = 0 /\ steps[s] = <<>> /\ loop[s].count = 0
          BY <2>1, <3>2, EnsuredLoop DEF NoLoop
        <4>2. IsFiniteSet({SeedFocus}) /\ Cardinality({SeedFocus} \ {SeedFocus}) = 0
          <5>1. {SeedFocus} \ {SeedFocus} = {}
            OBVIOUS
          <5> QED
            BY <5>1, FS_EmptySet, FS_Singleton
        <4>3. MaxDirections \in Nat
          BY BoundaryAssumption
        <4>4. ~Waiting(s)
          BY <4>1 DEF Waiting
        <4>5. steps'[s][Current(s)'].action = Nothing
          BY <2>3, <2>4, <3>0, <4>4
        <4> QED
          BY <4>1, <4>2, <4>3, <4>5, NothingAssumption DEF FocusInv
      <3> QED
        BY <3>1, <3>2
    <2>12. TaskInv(s)'
      <3>1. ~ExhaustedBefore(loop[s])'
        BY <2>0, <2>1 DEF ExhaustedBefore
      <3> QED
        BY <2>1, <2>4, <2>6, <2>8, <3>1 DEF TaskInv, Closed, Waiting
    <2>13. CoverInv(s)'
      <3>1. \A c \in loop[s].coverage : \E i \in 1..Len(steps'[s]) :
               steps'[s][i].status = "accepted" /\ steps'[s][i].action = Query(c)
        <4> TAKE c \in loop[s].coverage
        <4>1. PICK i \in 1..Len(steps[s]) : steps[s][i].status = "accepted" /\ steps[s][i].action = Query(c)
          BY DEF SeedInv, CoverInv
        <4>2. i <= loop[s].count
          BY <2>5, <4>1
        <4>3. i \in 1..Len(steps'[s]) /\ steps'[s][i] = steps[s][i]
          BY <2>4, <2>5, <4>2
        <4> QED
          BY <4>1, <4>3
      <3> QED
        BY <2>6, <2>8, <3>1 DEF CoverInv
    <2> QED
      BY <2>4, <2>6, <2>9, <2>10, <2>11, <2>12, <2>13 DEF SeedInv
  <1> QED
    BY <1>1, <1>2, <1>3 DEF Claimed

-----------------------------------------------------------------------------
(* A holder of the lease works on a step that is not accepted, of a loop *)
(* that is open.                                                         *)
LEMMA HolderWaits ==
    ASSUME TypeOK, NEW d \in Driver, NEW s \in Seed, SeedInv(s), Holder(d, s)
    PROVE  /\ Waiting(s) /\ loop[s].status = "active" /\ ~Closed(loop[s])
           /\ task[s].state = "dispatched"
           /\ Current(s) \in 1..Len(steps[s]) /\ Current(s) = loop[s].count + 1
           /\ steps[s][Current(s)] \in StepRow /\ steps[s][Current(s)].status # "accepted"
  <1>1. Waiting(s) /\ loop[s].status = "active" /\ task[s].state = "dispatched"
    BY DEF Holder, SeedInv, TaskInv
  <1> QED
    BY <1>1, WaitingStep DEF Closed

(* One row of one seed is replaced. *)
LEMMA RowReplaced ==
    ASSUME TypeOK, NEW s \in Seed, SeedInv(s), Waiting(s), NEW r \in StepRow,
           NEW w, w = [steps[s] EXCEPT ![Current(s)] = r]
    PROVE  /\ w \in Seq(StepRow) /\ Len(w) = Len(steps[s]) /\ w[Current(s)] = r
           /\ \A i \in 1..Len(w) : i \in 1..Len(steps[s]) /\ (i # Current(s) => w[i] = steps[s][i])
  <1>1. steps[s] \in Seq(StepRow)
    BY Rows1
  <1> QED
    BY <1>1, WaitingStep

(* The step as a decision leaves it. *)
Decided(s, a, tokens) ==
    [steps[s][Current(s)] EXCEPT !.status = "prepared", !.action = a, !.tokens = tokens]

(* What storing a decision does to the steps of a seed. *)
LEMMA DecideEffect ==
    ASSUME TypeOK, NEW d \in Driver, NEW s \in Seed, SeedInv(s), Decide(d, s)
    PROVE  \E a \in Action, tokens \in Tokens :
                  /\ ~BeyondBoundary(s, a)
                  /\ Decided(s, a, tokens) \in StepRow
                  /\ Decided(s, a, tokens).status = "prepared"
                  /\ Decided(s, a, tokens).action = a /\ Decided(s, a, tokens).tokens = tokens
                  /\ Decided(s, a, tokens).owner = steps[s][Current(s)].owner
                  /\ Decided(s, a, tokens).cost = steps[s][Current(s)].cost
                  /\ steps'[s] = [steps[s] EXCEPT ![Current(s)] = Decided(s, a, tokens)]
                  /\ \A x \in Seed \ {s} : steps'[x] = steps[x]
                  /\ steps' \in [Seed -> Seq(StepRow)]
                  /\ run' = RunAfterDecision(a, tokens)
                  /\ Reaches(d, s, IF run'.state = "failed" \/ OverLoopBudget(s, a, tokens)
                                   THEN "refused" ELSE "execute")
  <1>1. PICK a \in Action, tokens \in Tokens :
           /\ ~BeyondBoundary(s, a)
           /\ run' = RunAfterDecision(a, tokens)
           /\ steps' = [steps EXCEPT ![s][Current(s)] =
                [@ EXCEPT !.status = "prepared", !.action = a, !.tokens = tokens]]
           /\ Reaches(d, s, IF run'.state = "failed" \/ OverLoopBudget(s, a, tokens)
                            THEN "refused" ELSE "execute")
    BY DEF Decide
  <1>2. Holder(d, s)
    BY DEF Decide, Undecided
  <1>3. steps \in [Seed -> Seq(StepRow)]
    BY Rows1
  <1>4. Current(s) \in 1..Len(steps[s]) /\ steps[s][Current(s)] \in StepRow /\ Waiting(s)
    BY <1>2, HolderWaits
  <1>5. tokens \in Nat
    BY BoundaryAssumption
  <1> DEFINE r == Decided(s, a, tokens)
  <1>6. /\ r \in StepRow /\ r.status = "prepared" /\ r.action = a /\ r.tokens = tokens
        /\ r.owner = steps[s][Current(s)].owner /\ r.cost = steps[s][Current(s)].cost
    BY <1>4, <1>5 DEF StepRow, Decided
  <1>7. steps' = [steps EXCEPT ![s] = [steps[s] EXCEPT ![Current(s)] = r]]
    BY <1>1, <1>3 DEF Decided
  <1> HIDE DEF r
  <1>8. steps'[s] = [steps[s] EXCEPT ![Current(s)] = r] /\ \A x \in Seed \ {s} : steps'[x] = steps[x]
    BY <1>3, <1>7
  <1>9. [steps[s] EXCEPT ![Current(s)] = r] \in Seq(StepRow)
    BY <1>4, <1>6, RowReplaced
  <1>10. steps' \in [Seed -> Seq(StepRow)]
    BY <1>3, <1>7, <1>9
  <1> QED
    BY <1>1, <1>6, <1>8, <1>10 DEF r

(* Storing a decision keeps a seed's rows in step. *)
LEMMA SeedDecide ==
    ASSUME TypeOK, NEW d \in Driver, NEW s \in Seed, SeedInv(s), Decide(d, s)
    PROVE  SeedInv(s)'
  <1>1. PICK a \in Action, tokens \in Tokens :
              /\ ~BeyondBoundary(s, a)
              /\ Decided(s, a, tokens) \in StepRow /\ Decided(s, a, tokens).status = "prepared"
              /\ Decided(s, a, tokens).action = a /\ Decided(s, a, tokens).tokens = tokens
              /\ steps'[s] = [steps[s] EXCEPT ![Current(s)] = Decided(s, a, tokens)]
    BY DecideEffect
  <1> DEFINE r == Decided(s, a, tokens)
  <1>2. /\ ~BeyondBoundary(s, a)
        /\ r \in StepRow /\ r.status = "prepared" /\ r.action = a /\ r.tokens = tokens
        /\ steps'[s] = [steps[s] EXCEPT ![Current(s)] = r]
    BY <1>1, Zenon
  <1> HIDE DEF r
  <1>3. loop' = loop /\ task' = task /\ Holder(d, s)
    BY DEF Decide, Undecided
  <1>4. /\ Waiting(s) /\ Current(s) \in 1..Len(steps[s])
        /\ steps[s][Current(s)].status # "accepted"
    BY <1>3, HolderWaits
  <1>5. /\ Len(steps'[s]) = Len(steps[s]) /\ steps'[s][Current(s)] = r
        /\ \A i \in 1..Len(steps'[s]) :
              i \in 1..Len(steps[s]) /\ (i # Current(s) => steps'[s][i] = steps[s][i])
    BY <1>2, <1>4, RowReplaced
  <1>6. Current(s)' = Current(s) /\ (Waiting(s)' <=> Waiting(s))
    BY <1>3, <1>5 DEF Current, Waiting
  <1>7. \A b : BeyondBoundary(s, b)' <=> BeyondBoundary(s, b)
    BY <1>3 DEF BeyondBoundary, NewFocus
  <1>8. CountInv(s)'
    BY <1>2, <1>3, <1>4, <1>5 DEF SeedInv, CountInv
  <1>9. RowInv(s)'
    BY <1>2, <1>5, NothingAssumption DEF SeedInv, RowInv
  <1>10. FocusInv(s)'
    BY <1>2, <1>3, <1>5, <1>6, <1>7 DEF SeedInv, FocusInv
  <1>11. TaskInv(s)'
    BY <1>3, <1>4, <1>5, <1>6 DEF SeedInv, TaskInv, ExhaustedBefore, Closed
  <1>12. CoverInv(s)'
    BY <1>3, <1>4, <1>5 DEF SeedInv, CoverInv
  <1> QED
    BY <1>8, <1>9, <1>10, <1>11, <1>12 DEF SeedInv

-----------------------------------------------------------------------------
(* The loop after a step was accepted, field by field. *)
LEMMA AdvancedLoop ==
    ASSUME TypeOK, NEW s \in Seed, SeedInv(s), Waiting(s), NEW c \in Nat, NEW found \in BOOLEAN,
           NEW a, a = steps[s][Current(s)].action, a # Nothing,
           NEW l, l = Advanced(s, c, found)
    PROVE  /\ l \in LoopRow
           /\ l.count = loop[s].count + 1 /\ l.next = loop[s].next + 1
           /\ l.foci = IF NewFocus(s, a) THEN loop[s].foci \cup {a.arg} ELSE loop[s].foci
           /\ l.directions = IF NewFocus(s, a) THEN loop[s].directions + 1 ELSE loop[s].directions
           /\ l.coverage = IF a.kind = "query" THEN loop[s].coverage \cup {a.arg} ELSE loop[s].coverage
           /\ l.evidence = (loop[s].evidence \/ found)
           /\ l.tokens = loop[s].tokens + steps[s][Current(s)].tokens
           /\ l.cost = loop[s].cost + steps[s][Current(s)].cost + c
           /\ l.status \in {"completed", "exhausted", "active"}
           /\ l.status = "completed" => GuardAccepts(s, a.arg)
  <1> DEFINE step == steps[s][Current(s)]
             foci == IF NewFocus(s, a) THEN loop[s].foci \cup {a.arg} ELSE loop[s].foci
             directions == IF NewFocus(s, a) THEN loop[s].directions + 1 ELSE loop[s].directions
             coverage == IF a.kind = "query" THEN loop[s].coverage \cup {a.arg} ELSE loop[s].coverage
             evidence == loop[s].evidence \/ found
             base == [loop[s] EXCEPT
               !.count = @ + 1, !.next = @ + 1,
               !.foci = IF NewFocus(s, a) THEN @ \cup {a.arg} ELSE @,
               !.directions = IF NewFocus(s, a) THEN @ + 1 ELSE @,
               !.coverage = IF a.kind = "query" THEN @ \cup {a.arg} ELSE @,
               !.evidence = @ \/ found,
               !.tokens = @ + step.tokens,
               !.cost = @ + step.cost + c]
             status == IF a.kind = "stop" /\ GuardAccepts(s, a.arg) THEN "completed"
                       ELSE IF ExhaustedAfter(base) THEN "exhausted" ELSE "active"
  <1>1. loop[s] \in LoopRow /\ step \in StepRow
    BY Rows1, WaitingStep
  <1>2. a \in Action
    BY <1>1 DEF StepRow
  <1>3. foci \subseteq Focus /\ directions \in Nat /\ coverage \subseteq Capability /\ evidence \in BOOLEAN
    BY <1>1, <1>2, ActionKinds DEF LoopRow, NewFocus
  <1>4. Advanced(s, c, found) = [base EXCEPT !.status = status]
    BY ZenonT(30) DEF Advanced
  <1>5. base = [loop[s] EXCEPT !.count = loop[s].count + 1, !.next = loop[s].next + 1, !.foci = foci,
               !.directions = directions, !.coverage = coverage, !.evidence = evidence,
               !.tokens = loop[s].tokens + step.tokens, !.cost = loop[s].cost + step.cost + c]
    BY <1>1 DEF LoopRow
  <1>6. step.tokens \in Nat /\ step.cost \in Nat
    BY <1>1 DEF StepRow
  <1>7. status \in {"completed", "exhausted", "active"} /\ (status = "completed" => GuardAccepts(s, a.arg))
    OBVIOUS
  <1> DEFINE tokens == loop[s].tokens + step.tokens
             cost == loop[s].cost + step.cost + c
             count == loop[s].count + 1
             next == loop[s].next + 1
             old == loop[s]
  <1>t. tokens \in Nat /\ cost \in Nat /\ count \in Nat /\ next \in Nat /\ old \in LoopRow
    BY <1>1, <1>6 DEF LoopRow
  <1>5a. base = [old EXCEPT !.count = count, !.next = next, !.foci = foci,
               !.directions = directions, !.coverage = coverage, !.evidence = evidence,
               !.tokens = tokens, !.cost = cost]
    BY <1>5
  <1> HIDE DEF step, foci, directions, coverage, evidence, base, status, tokens, cost, count, next, old
  <1>8. /\ base \in LoopRow
        /\ base.count = count /\ base.next = next
        /\ base.foci = foci /\ base.directions = directions /\ base.coverage = coverage /\ base.evidence = evidence
        /\ base.tokens = tokens /\ base.cost = cost
    BY <1>3, <1>5a, <1>t DEF LoopRow
  <1>9. /\ l \in LoopRow
        /\ l.count = count /\ l.next = next
        /\ l.foci = foci /\ l.directions = directions /\ l.coverage = coverage /\ l.evidence = evidence
        /\ l.tokens = tokens /\ l.cost = cost
        /\ l.status = status
    BY <1>4, <1>7, <1>8 DEF LoopRow
  <1> QED
    BY <1>7, <1>9 DEF step, foci, directions, coverage, evidence, tokens, cost, count, next

(* The loop after its step was given up on, field by field. *)
LEMMA GivenUpLoop ==
    ASSUME TypeOK, NEW s \in Seed, SeedInv(s), Waiting(s), NEW c \in Nat
    PROVE  LET l == GivenUp(s, c)
           IN  /\ l \in LoopRow
               /\ l.count = loop[s].count /\ l.next = loop[s].next /\ l.status = "exhausted"
               /\ l.foci = loop[s].foci /\ l.directions = loop[s].directions
               /\ l.coverage = loop[s].coverage /\ l.evidence = loop[s].evidence
               /\ l.tokens = loop[s].tokens + steps[s][Current(s)].tokens
               /\ l.cost = loop[s].cost + steps[s][Current(s)].cost + c
  <1>1. loop[s] \in LoopRow /\ steps[s][Current(s)] \in StepRow
    BY Rows1, WaitingStep
  <1>2. GivenUp(s, c) = [loop[s] EXCEPT !.status = "exhausted",
                             !.tokens = loop[s].tokens + steps[s][Current(s)].tokens,
                             !.cost = loop[s].cost + steps[s][Current(s)].cost + c]
    BY <1>1 DEF GivenUp, LoopRow
  <1> DEFINE old == loop[s]
             tokens == loop[s].tokens + steps[s][Current(s)].tokens
             cost == loop[s].cost + steps[s][Current(s)].cost + c
  <1>3. tokens \in Nat /\ cost \in Nat /\ old \in LoopRow
    BY <1>1 DEF StepRow, LoopRow
  <1>4. GivenUp(s, c) = [old EXCEPT !.status = "exhausted", !.tokens = tokens, !.cost = cost]
    BY <1>2
  <1> HIDE DEF old, tokens, cost
  <1>5. /\ GivenUp(s, c) \in LoopRow
        /\ GivenUp(s, c).count = old.count /\ GivenUp(s, c).next = old.next
        /\ GivenUp(s, c).status = "exhausted"
        /\ GivenUp(s, c).foci = old.foci /\ GivenUp(s, c).directions = old.directions
        /\ GivenUp(s, c).coverage = old.coverage /\ GivenUp(s, c).evidence = old.evidence
        /\ GivenUp(s, c).tokens = tokens /\ GivenUp(s, c).cost = cost
    BY <1>3, <1>4 DEF LoopRow
  <1> QED
    BY <1>5 DEF old, tokens, cost

(* What the acceptance of a batch makes of a seed that is still held. *)
LEMMA AcceptEffect ==
    ASSUME TypeOK, NEW d \in Driver, Accept(d), NEW s \in Seed
    PROVE  /\ s \in Valid(d) =>
                 /\ loop'[s] = LoopAfter(d, s) /\ task'[s] = TaskAfter(d, s)
                 /\ steps'[s] = [steps[s] EXCEPT ![Current(s)] = StepAfter(d, s)]
                 /\ lease'[s] = [lease[s] EXCEPT !.claimed = FALSE, !.open = FALSE]
                 /\ driver[d][s].stage \in {"success", "transient", "refused"}
                 /\ Holder(d, s) /\ s \in Held(d)
           /\ s \notin Valid(d) =>
                 /\ loop'[s] = loop[s] /\ task'[s] = task[s] /\ steps'[s] = steps[s]
                 /\ lease'[s] = lease[s] \/ lease'[s] = [lease[s] EXCEPT !.open = FALSE]
           /\ driver'[d][s] = Free
           /\ \A o \in Driver \ {d} : driver'[o] = driver[o]
  <1>1. driver \in [Driver -> [Seed -> HeldRow]]
    BY Rows1
  <1>2. driver'[d][s] = Free /\ \A o \in Driver \ {d} : driver'[o] = driver[o]
    BY <1>1 DEF Accept
  <1>3. s \in Valid(d) => Holder(d, s) /\ s \in Held(d) /\ driver[d][s].stage \in {"success", "transient", "refused"}
    BY DEF Accept, Valid, Done, Holds
  <1> QED
    BY <1>2, <1>3 DEF Accept

(* The step as the acceptance leaves it, field by field. *)
LEMMA StepAfterIs ==
    ASSUME TypeOK, NEW d \in Driver, NEW s \in Seed, SeedInv(s), Waiting(s)
    PROVE  LET r == StepAfter(d, s)
               old == steps[s][Current(s)]
           IN  /\ r \in StepRow /\ r.action = old.action /\ r.tokens = old.tokens
               /\ r.cost = old.cost + driver[d][s].cost
               /\ r.status = IF driver[d][s].stage = "success" THEN "accepted" ELSE "failed"
  <1>1. steps[s][Current(s)] \in StepRow /\ driver[d][s] \in HeldRow
    BY Rows1, WaitingStep
  <1>2. driver[d][s].cost \in Nat
    BY <1>1 DEF HeldRow
  <1> DEFINE old == steps[s][Current(s)]
             cost == steps[s][Current(s)].cost + driver[d][s].cost
             retries == steps[s][Current(s)].retries + 1
  <1>3. StepAfter(d, s) = IF driver[d][s].stage = "success"
                          THEN [old EXCEPT !.status = "accepted", !.cost = cost]
                          ELSE [old EXCEPT !.status = "failed", !.cost = cost, !.retries = retries]
    BY <1>1 DEF StepAfter, StepRow
  <1>4. cost \in Nat /\ retries \in Nat /\ old \in StepRow
    BY <1>1, <1>2 DEF StepRow
  <1> HIDE DEF old, cost, retries
  <1>5. /\ StepAfter(d, s) \in StepRow
        /\ StepAfter(d, s).action = old.action /\ StepAfter(d, s).tokens = old.tokens
        /\ StepAfter(d, s).cost = cost
        /\ StepAfter(d, s).status = IF driver[d][s].stage = "success" THEN "accepted" ELSE "failed"
    <2>1. CASE driver[d][s].stage = "success"
      BY <1>3, <1>4, <2>1 DEF StepRow
    <2>2. CASE driver[d][s].stage # "success"
      BY <1>3, <1>4, <2>2 DEF StepRow
    <2> QED
      BY <2>1, <2>2
  <1> QED
    BY <1>5 DEF old, cost

(* The acceptance of a batch keeps a seed's rows in step, whether the step *)
(* succeeded, is tried again or is given up.                               *)
LEMMA SeedAccept ==
    ASSUME TypeOK, NEW d \in Driver, HolderInv(d), Accept(d), NEW s \in Valid(d), s \in Seed, SeedInv(s)
    PROVE  /\ SeedInv(s)' /\ loop'[s] \in LoopRow /\ steps'[s] \in Seq(StepRow)
           /\ task'[s] \in TaskRow
  <1> DEFINE old == steps[s][Current(s)]
             new == StepAfter(d, s)
             h == driver[d][s]
  <1>0. /\ task[s] \in TaskRow /\ loop[s] \in LoopRow /\ steps[s] \in Seq(StepRow)
        /\ Len(steps[s]) \in Nat /\ h \in HeldRow
    BY Rows1
  <1>1. /\ loop'[s] = LoopAfter(d, s) /\ task'[s] = TaskAfter(d, s)
        /\ steps'[s] = [steps[s] EXCEPT ![Current(s)] = new]
        /\ h.stage \in {"success", "transient", "refused"}
        /\ Holder(d, s) /\ s \in Held(d)
    BY AcceptEffect
  <1>2. /\ Waiting(s) /\ loop[s].status = "active" /\ ~Closed(loop[s])
        /\ Current(s) \in 1..Len(steps[s]) /\ Current(s) = loop[s].count + 1
        /\ old \in StepRow /\ old.status # "accepted"
    BY <1>1, HolderWaits
  <1>3. /\ new \in StepRow /\ new.action = old.action /\ new.tokens = old.tokens
        /\ new.status = IF h.stage = "success" THEN "accepted" ELSE "failed"
    BY <1>2, StepAfterIs
  <1> HIDE DEF new
  <1>4. /\ steps'[s] \in Seq(StepRow)
        /\ Len(steps'[s]) = Len(steps[s]) /\ steps'[s][Current(s)] = new
        /\ \A i \in 1..Len(steps'[s]) :
              i \in 1..Len(steps[s]) /\ (i # Current(s) => steps'[s][i] = steps[s][i])
    <2>1. steps'[s] = [steps[s] EXCEPT ![Current(s)] = new] /\ Waiting(s) /\ new \in StepRow
      BY <1>1, <1>2, <1>3
    <2> DEFINE w == steps'[s]
    <2>2. w = [steps[s] EXCEPT ![Current(s)] = new] /\ Waiting(s) /\ new \in StepRow /\ s \in Seed
      BY <2>1
    <2> HIDE DEF w, old, h
    <2>3. /\ w \in Seq(StepRow) /\ Len(w) = Len(steps[s])
          /\ \A i \in 1..Len(w) : i \in 1..Len(steps[s]) /\ (i # Current(s) => w[i] = steps[s][i])
      <3>1. w \in Seq(StepRow)
        BY <2>2, RowReplaced
      <3>2. Len(w) = Len(steps[s])
        BY <2>2, RowReplaced
      <3>3. \A i \in 1..Len(w) : i \in 1..Len(steps[s]) /\ (i # Current(s) => w[i] = steps[s][i])
        BY <2>2, RowReplaced
      <3> QED
        BY <3>1, <3>2, <3>3
    <2>4. w[Current(s)] = new
      BY <1>0, <1>2, <2>2
    <2> QED
      BY <2>3, <2>4 DEF w
  <1>5. Current(s)' = Current(s)
    BY <1>4 DEF Current
  <1>6. h.cost \in Nat /\ h.found \in BOOLEAN
    BY <1>0 DEF HeldRow
  <1>7. h.stage = "success" => old.status = "prepared" /\ old.action # Nothing /\ old.action \in Action
    <2>1. h.stage = "success" => old.status = "prepared"
      BY <1>1 DEF HolderInv, HeldInv, Holds
    <2> QED
      BY <1>2, <2>1 DEF SeedInv, RowInv, StepRow
  <1>8. RowInv(s)'
    <2> SUFFICES ASSUME NEW i \in 1..Len(steps'[s])
                 PROVE  /\ steps'[s][i].status = "deciding" => steps'[s][i].action = Nothing
                        /\ steps'[s][i].status \in {"prepared", "accepted"} => steps'[s][i].action # Nothing
                        /\ steps'[s][i].action = Nothing => steps'[s][i].tokens = 0
      BY DEF RowInv
    <2>1. CASE i = Current(s)
      <3>1. old.action = Nothing => old.tokens = 0
        BY <1>2 DEF SeedInv, RowInv
      <3> QED
        BY <1>3, <1>4, <1>7, <2>1, <3>1
    <2>2. CASE i # Current(s)
      BY <1>4, <2>2 DEF SeedInv, RowInv
    <2> QED
      BY <2>1, <2>2
  <1>9. \A i \in 1..Len(steps[s]) : steps[s][i].status = "accepted" <=> i <= loop[s].count
    BY DEF SeedInv, CountInv
  <1>10. loop[s].count = loop[s].next /\ loop[s].count \in Nat /\ loop[s].next \in Nat
    BY <1>0 DEF SeedInv, CountInv, LoopRow
  <1>11. task'[s] \in TaskRow /\ (task'[s].state = "succeeded" <=> Closed(loop'[s])) /\ task'[s].state # "dispatched"
    <2>0. task'[s] = IF Closed(loop'[s]) THEN [state |-> "succeeded", accepted |-> TRUE]
                     ELSE [task[s] EXCEPT !.state = IF Holds(d, s, "success") THEN "pending" ELSE "awaiting_retry"]
      BY <1>1 DEF TaskAfter
    <2>1. CASE Closed(loop'[s])
      BY <2>0, <2>1 DEF TaskRow
    <2>2. CASE ~Closed(loop'[s])
      <3> DEFINE st == IF Holds(d, s, "success") THEN "pending" ELSE "awaiting_retry"
      <3>1. st \in {"pending", "awaiting_retry"}
        OBVIOUS
      <3>2. task'[s] = [task[s] EXCEPT !.state = st]
        BY <2>0, <2>2
      <3> HIDE DEF st
      <3> QED
        BY <1>0, <2>2, <3>1, <3>2 DEF TaskRow
    <2> QED
      BY <2>1, <2>2
  <1>12. \A c \in loop[s].coverage : \E i \in 1..Len(steps'[s]) :
            steps'[s][i].status = "accepted" /\ steps'[s][i].action = Query(c)
    <2> TAKE c \in loop[s].coverage
    <2>1. PICK i \in 1..Len(steps[s]) : steps[s][i].status = "accepted" /\ steps[s][i].action = Query(c)
      BY DEF SeedInv, CoverInv
    <2>2. i # Current(s)
      BY <1>2, <2>1
    <2> QED
      BY <1>4, <2>1, <2>2
  <1>13. CASE h.stage = "success"
    <2> DEFINE a == old.action
               l == loop'[s]
    <2>0. l = Advanced(s, h.cost, h.found)
      BY <1>1, <1>13 DEF LoopAfter
    <2>1. /\ l \in LoopRow
          /\ l.count = loop[s].count + 1 /\ l.next = loop[s].next + 1
          /\ l.foci = IF NewFocus(s, a) THEN loop[s].foci \cup {a.arg} ELSE loop[s].foci
          /\ l.directions = IF NewFocus(s, a) THEN loop[s].directions + 1 ELSE loop[s].directions
          /\ l.coverage = IF a.kind = "query" THEN loop[s].coverage \cup {a.arg} ELSE loop[s].coverage
          /\ l.evidence = (loop[s].evidence \/ h.found)
          /\ l.status \in {"completed", "exhausted", "active"}
          /\ l.status = "completed" => GuardAccepts(s, a.arg)
      <3>1. Waiting(s) /\ h.cost \in Nat /\ h.found \in BOOLEAN /\ a = steps[s][Current(s)].action /\ a # Nothing
        BY <1>2, <1>6, <1>7, <1>13
      <3> HIDE DEF a, l, h
      <3> QED
        BY <2>0, <3>1, AdvancedLoop
    <2>2. a \in Action
      BY <1>7, <1>13
    <2> HIDE DEF a, l, h, old
    <2>3. CountInv(s)'
      <3>1. \A i \in 1..Len(steps'[s]) : (steps'[s][i].status = "accepted") <=> (i <= loop[s].count + 1)
        <4> TAKE i \in 1..Len(steps'[s])
        <4>1. CASE i = Current(s)
          BY <1>2, <1>3, <1>4, <1>13, <4>1
        <4>2. CASE i # Current(s)
          BY <1>2, <1>4, <1>9, <1>10, <4>2 DEF Waiting, Current
        <4> QED
          BY <4>1, <4>2
      <3>2. Len(steps'[s]) = loop[s].count + 1
        BY <1>2, <1>4 DEF Waiting
      <3> QED
        BY <1>10, <2>1, <3>1, <3>2 DEF CountInv, l
    <2>4. ~Waiting(s)'
      BY <1>2, <1>4, <1>10, <2>1 DEF Waiting, l
    <2>5. FocusInv(s)'
      <3>1. /\ IsFiniteSet(loop[s].foci) /\ SeedFocus \in loop[s].foci
            /\ loop[s].directions = Cardinality(loop[s].foci \ {SeedFocus})
            /\ loop[s].directions <= MaxDirections
            /\ loop[s].directions \in Nat
        BY <1>0, <1>2 DEF SeedInv, FocusInv, LoopRow
      <3>2. CASE ~NewFocus(s, a)
        BY <2>1, <2>4, <3>1, <3>2 DEF FocusInv, l
      <3>3. CASE NewFocus(s, a)
        <4>1. a.arg \notin loop[s].foci /\ ~BeyondBoundary(s, a)
          BY <1>2, <2>2, <3>3 DEF NewFocus, SeedInv, FocusInv, a, old
        <4>2. loop[s].directions < MaxDirections /\ MaxDirections \in Nat
          BY <3>1, <3>3, <4>1, BoundaryAssumption DEF BeyondBoundary
        <4>3. l.foci = loop[s].foci \cup {a.arg} /\ l.directions = loop[s].directions + 1
          BY <2>1, <3>3
        <4>4. l.foci \ {SeedFocus} = (loop[s].foci \ {SeedFocus}) \cup {a.arg} /\ a.arg \notin loop[s].foci \ {SeedFocus}
          BY <3>1, <4>1, <4>3
        <4>5. IsFiniteSet(loop[s].foci \ {SeedFocus})
          BY <3>1, FS_Subset
        <4>6. Cardinality(l.foci \ {SeedFocus}) = Cardinality(loop[s].foci \ {SeedFocus}) + 1
          BY <4>4, <4>5, FS_AddElement
        <4>7. IsFiniteSet(l.foci)
          BY <3>1, <4>3, FS_AddElement
        <4>8. l.directions = Cardinality(l.foci \ {SeedFocus}) /\ l.directions <= MaxDirections /\ SeedFocus \in l.foci
          BY <3>1, <4>2, <4>3, <4>6
        <4> QED
          BY <2>4, <4>7, <4>8 DEF FocusInv, l
      <3> QED
        BY <3>2, <3>3
    <2>6. TaskInv(s)'
      BY <1>11, <2>1, <2>4 DEF TaskInv, l
    <2>7. CoverInv(s)'
      <3>1. ASSUME NEW c \in l.coverage
            PROVE  \E i \in 1..Len(steps'[s]) : steps'[s][i].status = "accepted" /\ steps'[s][i].action = Query(c)
        <4>1. CASE c \in loop[s].coverage
          BY <1>12, <4>1
        <4>2. CASE c \notin loop[s].coverage
          <5>1. a.kind = "query" /\ c = a.arg
            BY <2>1, <4>2
          <5>2. a = Query(c)
            BY <2>2, <5>1, ActionKinds
          <5>3. Current(s) \in 1..Len(steps'[s]) /\ new.status = "accepted" /\ new.action = Query(c)
            BY <1>2, <1>3, <1>4, <1>13, <5>2 DEF a
          <5> QED
            BY <1>4, <5>3
        <4> QED
          BY <4>1, <4>2
      <3>2. l.status = "completed" => l.evidence /\ Required[s] \subseteq l.coverage
        BY <1>0, <2>1 DEF GuardAccepts, LoopRow
      <3> QED
        BY <3>1, <3>2 DEF CoverInv, l
    <2> QED
      BY <1>4, <1>8, <1>11, <2>1, <2>3, <2>5, <2>6, <2>7 DEF SeedInv, l, Closed
  <1>14. CASE h.stage # "success"
    <2> DEFINE l == loop'[s]
    <2>1. l = IF Retries(s, h.stage) THEN loop[s] ELSE GivenUp(s, h.cost)
      BY <1>1, <1>14 DEF LoopAfter
    <2>2. /\ l \in LoopRow
          /\ l.count = loop[s].count /\ l.next = loop[s].next
          /\ l.foci = loop[s].foci /\ l.directions = loop[s].directions
          /\ l.coverage = loop[s].coverage /\ l.evidence = loop[s].evidence
          /\ l.status = "active" => l = loop[s]
          /\ l.status \in {"active", "exhausted"}
      <3>1. CASE Retries(s, h.stage)
        BY <1>0, <1>2, <2>1, <3>1
      <3>2. CASE ~Retries(s, h.stage)
        BY <1>2, <1>6, <2>1, <3>2, GivenUpLoop
      <3> QED
        BY <3>1, <3>2
    <2> HIDE DEF l, h, old
    <2>3. Waiting(s)'
      BY <1>2, <1>4, <2>2 DEF Waiting, l
    <2>4. CountInv(s)'
      <3>1. \A i \in 1..Len(steps'[s]) : (steps'[s][i].status = "accepted") <=> (i <= loop[s].count)
        <4> TAKE i \in 1..Len(steps'[s])
        <4>1. CASE i = Current(s)
          BY <1>2, <1>3, <1>4, <1>10, <1>14, <4>1
        <4>2. CASE i # Current(s)
          BY <1>4, <1>9, <4>2
        <4> QED
          BY <4>1, <4>2
      <3>2. loop[s].count <= Len(steps'[s]) /\ Len(steps'[s]) <= loop[s].count + 1
        BY <1>4 DEF SeedInv, CountInv
      <3> QED
        BY <1>10, <2>2, <3>1, <3>2 DEF CountInv, l
    <2>5. FocusInv(s)'
      <3>1. \A b : BeyondBoundary(s, b)' <=> BeyondBoundary(s, b)
        BY <2>2 DEF BeyondBoundary, NewFocus, l
      <3>2. steps'[s][Current(s)'].action = steps[s][Current(s)].action
        BY <1>3, <1>4, <1>5 DEF old
      <3>3. \A b \in Action : steps'[s][Current(s)'].action = b => ~BeyondBoundary(s, b)'
        BY <1>2, <3>1, <3>2 DEF SeedInv, FocusInv
      <3> QED
        BY <1>2, <2>2, <3>3 DEF FocusInv, SeedInv, l
    <2>6. TaskInv(s)'
      <3>1. ~Closed(l) => ~ExhaustedBefore(l)
        BY <1>2, <2>2 DEF SeedInv, TaskInv, Closed
      <3> QED
        BY <1>11, <2>2, <3>1 DEF TaskInv, l, ExhaustedBefore
    <2>7. CoverInv(s)'
      BY <1>12, <2>2 DEF CoverInv, l
    <2> QED
      BY <1>4, <1>8, <1>11, <2>2, <2>4, <2>5, <2>6, <2>7 DEF SeedInv, l, Closed
  <1> QED
    BY <1>13, <1>14

-----------------------------------------------------------------------------
(* Rows that stay as they are keep what SeedInv says of them. *)
LEMMA SeedsUntouched ==
    ASSUME \A s \in Seed : SeedInv(s), loop' = loop, steps' = steps, task' = task
    PROVE  \A s \in Seed : SeedInv(s)'
  BY SeedUntouched

(* A process that holds what it held, while others may claim the seed anew. *)
LEMMA HeldKept ==
    ASSUME TypeOK, NEW d \in Driver, NEW s \in Seed, HeldInv(d, s),
           driver'[d][s] = driver[d][s],
           lease'[s].epoch \in Nat, lease[s].epoch <= lease'[s].epoch,
           Holder(d, s)' => Holder(d, s) /\ steps'[s] = steps[s],
           \A o \in Driver \ {d} : driver'[o][s].stage # "idle" =>
               \/ driver[o][s].stage # "idle" /\ driver'[o][s].epoch = driver[o][s].epoch
               \/ driver'[o][s].epoch > lease[s].epoch /\ driver'[o][s].epoch \in Nat
    PROVE  HeldInv(d, s)'
  <1>1. driver[d][s] \in HeldRow /\ lease[s] \in LeaseRow
    BY Rows1
  <1>2. driver[d][s].epoch \in Nat /\ lease[s].epoch \in Nat
    BY <1>1 DEF HeldRow, LeaseRow
  <1>3. driver'[d][s].epoch <= lease'[s].epoch
    BY <1>2 DEF HeldInv
  <1>4. \A o \in Driver \ {d} : driver'[o][s].stage # "idle" => driver'[o][s].epoch # driver'[d][s].epoch
    BY <1>2 DEF HeldInv, Held
  <1>5. Holder(d, s)' =>
          /\ steps'[s][Current(s)'].owner = driver'[d][s].epoch
          /\ driver'[d][s].stage = "decide" => steps'[s][Current(s)'].status = "deciding"
          /\ driver'[d][s].stage \in {"execute", "success"} => steps'[s][Current(s)'].status = "prepared"
    BY DEF HeldInv, Holds, Current
  <1> QED
    BY <1>3, <1>4, <1>5 DEF HeldInv, Held, Holds

(* Nothing is claimed, nothing is stored: holders stay or are gone. *)
LEMMA HoldersKept ==
    ASSUME TypeOK, \A d \in Driver : HolderInv(d), lease' = lease, task' = task, steps' = steps,
           \A o \in Driver : \A s \in Seed : driver'[o][s] = driver[o][s] \/ driver'[o][s].stage = "idle"
    PROVE  \A d \in Driver : HolderInv(d)'
  <1> TAKE d \in Driver
  <1> SUFFICES ASSUME NEW s \in Seed, driver'[d][s].stage # "idle" PROVE HeldInv(d, s)'
    BY DEF HolderInv, Held
  <1>1. driver'[d][s] = driver[d][s] /\ HeldInv(d, s)
    BY DEF HolderInv, Held
  <1>2. Holder(d, s)' => Holder(d, s) /\ steps'[s] = steps[s]
    BY <1>1 DEF Holder
  <1>3. lease[s] \in LeaseRow
    BY Rows1
  <1>4. lease'[s].epoch \in Nat /\ lease[s].epoch <= lease'[s].epoch
    BY <1>3 DEF LeaseRow
  <1> QED
    BY <1>1, <1>2, <1>4, HeldKept

(* A call returns: one process knows more about one seed it holds. *)
LEMMA HeldChanged ==
    ASSUME TypeOK, NEW d \in Driver, NEW s \in Seed, \A o \in Driver : HolderInv(o),
           driver[d][s].stage # "idle",
           NEW r \in HeldRow, r.epoch = driver[d][s].epoch, r.stage # "idle",
           driver' = [driver EXCEPT ![d][s] = r], lease' = lease, task' = task,
           \A x \in Seed \ {s} : steps'[x] = steps[x],
           steps'[s] = steps[s] \/ Holder(d, s),
           Holder(d, s) =>
               /\ steps'[s][Current(s)'].owner = driver[d][s].epoch
               /\ r.stage = "decide" => steps'[s][Current(s)'].status = "deciding"
               /\ r.stage \in {"execute", "success"} => steps'[s][Current(s)'].status = "prepared"
    PROVE  driver' \in [Driver -> [Seed -> HeldRow]] /\ \A o \in Driver : HolderInv(o)'
  <1>1. driver \in [Driver -> [Seed -> HeldRow]] /\ lease \in [Seed -> LeaseRow]
    BY Rows1
  <1>2. driver' \in [Driver -> [Seed -> HeldRow]]
    BY <1>1
  <1>3. driver'[d][s] = r
    BY <1>1
  <1>4. \A o \in Driver : \A x \in Seed : o # d \/ x # s => driver'[o][x] = driver[o][x]
    BY <1>1
  <1>5. \A o \in Driver : \A x \in Seed :
           driver'[o][x].epoch = driver[o][x].epoch /\ (driver'[o][x].stage # "idle" => driver[o][x].stage # "idle")
    BY <1>3, <1>4
  <1>6. \A x \in Seed : lease'[x].epoch \in Nat /\ lease[x].epoch <= lease'[x].epoch
    BY <1>1 DEF LeaseRow
  <1>7. ASSUME NEW o \in Driver, NEW x \in Seed, driver'[o][x].stage # "idle" PROVE HeldInv(o, x)'
    <2>0. HeldInv(o, x)
      BY <1>5, <1>7 DEF HolderInv, Held
    <2>1. CASE o = d /\ x = s
      <3>1. driver'[d][s].epoch <= lease'[s].epoch
        BY <1>5, <2>0, <2>1 DEF HeldInv
      <3>2. \A u \in Driver \ {d} : driver'[u][s].stage # "idle" => driver'[u][s].epoch # driver'[d][s].epoch
        BY <1>5, <2>0, <2>1 DEF HeldInv, Held
      <3>3. Holder(d, s)' => Holder(d, s)
        BY <1>5 DEF Holder
      <3> QED
        BY <1>3, <2>1, <3>1, <3>2, <3>3 DEF HeldInv, Held, Holds
    <2>2. CASE o # d \/ x # s
      <3>1. Holder(o, x)' => Holder(o, x)
        BY <1>5 DEF Holder
      <3>2. Holder(o, x) => steps'[x] = steps[x]
        <4>1. CASE x # s
          BY <4>1
        <4>2. CASE x = s /\ o # d
          <5>1. HeldInv(o, s)
            BY <2>0, <4>2
          <5>2. ~(Holder(o, s) /\ Holder(d, s))
            BY <4>2, <5>1 DEF HeldInv, Held, Holder
          <5> QED
            BY <4>2, <5>2
        <4> QED
          BY <2>2, <4>1, <4>2
      <3>3. driver'[o][x] = driver[o][x]
        BY <1>4, <2>2
      <3>4. \A u \in Driver \ {o} : driver'[u][x].stage # "idle" =>
               driver[u][x].stage # "idle" /\ driver'[u][x].epoch = driver[u][x].epoch
        BY <1>5
      <3> QED
        BY <1>6, <2>0, <3>1, <3>2, <3>3, <3>4, HeldKept
    <2> QED
      BY <2>1, <2>2
  <1> QED
    BY <1>2, <1>7 DEF HolderInv, Held

(* Neither the analysis nor the closed loops are touched. *)
LEMMA RunKept ==
    ASSUME RunInv, plan' = plan, loop' = loop, run'.state = "analyzing" => run.state = "analyzing"
    PROVE  RunInv'
  BY DEF RunInv, Closed

-----------------------------------------------------------------------------
(* The model or the provider failed, or the answer came too late. *)
LEMMA DecideFailsKeeps ==
    ASSUME IInv, NEW d \in Driver, NEW s \in Seed, DecideFails(d, s) \/ DecideTooLate(d, s)
    PROVE  IInv'
  <1>1. driver \in [Driver -> [Seed -> HeldRow]] /\ TypeOK
    BY Rows1 DEF IInv
  <1>2. PICK stage \in {"transient", "refused", "fenced"} : Reaches(d, s, stage)
    BY DEF DecideFails, DecideTooLate
  <1>3. UNCHANGED <<run, plan, task, lease, loop, steps, lapsed, backedOff, overdue, faults>>
        /\ driver[d][s].stage = "decide"
    BY DEF DecideFails, DecideTooLate, store, clock, Holds
  <1> DEFINE old == driver[d][s]
             r == [old EXCEPT !.stage = stage]
  <1>4. r \in HeldRow /\ r.epoch = driver[d][s].epoch /\ r.stage = stage
    <2>1. old \in HeldRow
      BY <1>1
    <2> HIDE DEF old
    <2>2. r \in HeldRow /\ r.epoch = old.epoch /\ r.stage = stage
      BY <2>1 DEF HeldRow
    <2> QED
      BY <2>2 DEF old
  <1>5. driver' = [driver EXCEPT ![d][s] = r]
    BY <1>1, <1>2 DEF Reaches
  <1> HIDE DEF r
  <1>6. Holder(d, s) => steps'[s][Current(s)'].owner = driver[d][s].epoch
    BY <1>3 DEF IInv, HolderInv, HeldInv, Held, Current
  <1>7. driver' \in [Driver -> [Seed -> HeldRow]] /\ \A o \in Driver : HolderInv(o)'
    BY <1>3, <1>4, <1>5, <1>6, HeldChanged DEF IInv
  <1>8. TypeOK'
    BY <1>1, <1>3, <1>7, Rows1, Rows1Next
  <1>9. \A x \in Seed : SeedInv(x)'
    BY <1>3, SeedsUntouched DEF IInv
  <1>10. RunInv'
    BY <1>3, RunKept DEF IInv
  <1> QED
    BY <1>7, <1>8, <1>9, <1>10 DEF IInv

(* A capability answered, or there was nothing to ask it. *)
LEMMA ExecuteKeeps ==
    ASSUME IInv, NEW d \in Driver, NEW s \in Seed, Execute(d, s)
    PROVE  IInv'
  <1>1. driver \in [Driver -> [Seed -> HeldRow]] /\ TypeOK
    BY Rows1 DEF IInv
  <1>2. UNCHANGED <<run, plan, task, lease, loop, steps, lapsed, backedOff, overdue, faults>>
        /\ driver[d][s].stage = "execute"
    BY DEF Execute, store, clock, Holds
  <1> DEFINE old == driver[d][s]
  <1>3. old \in HeldRow
    BY <1>1
  <1>4. \E r \in HeldRow : /\ r.epoch = driver[d][s].epoch /\ r.stage \in {"success", "transient", "refused"}
                           /\ driver' = [driver EXCEPT ![d][s] = r]
    <2>1. CASE \E stage \in {"success", "transient", "refused"}, c \in Costs, f \in BOOLEAN :
                driver' = [driver EXCEPT ![d][s] = [@ EXCEPT !.stage = stage, !.cost = c, !.found = f]]
      <3>1. PICK stage \in {"success", "transient", "refused"}, c \in Costs, f \in BOOLEAN :
                driver' = [driver EXCEPT ![d][s] = [@ EXCEPT !.stage = stage, !.cost = c, !.found = f]]
        BY <2>1
      <3>2. c \in Nat
        BY BoundaryAssumption
      <3> DEFINE r == [old EXCEPT !.stage = stage, !.cost = c, !.found = f]
      <3>3. driver' = [driver EXCEPT ![d][s] = r]
        BY <1>1, <3>1
      <3> HIDE DEF old
      <3>4. r \in HeldRow /\ r.epoch = old.epoch /\ r.stage = stage
        BY <1>3, <3>2 DEF HeldRow
      <3> HIDE DEF r
      <3> QED
        BY <3>3, <3>4 DEF old
    <2>2. CASE Reaches(d, s, "success")
      <3> DEFINE r == [old EXCEPT !.stage = "success"]
      <3>1. driver' = [driver EXCEPT ![d][s] = r]
        BY <1>1, <2>2 DEF Reaches
      <3> HIDE DEF old
      <3>2. r \in HeldRow /\ r.epoch = old.epoch /\ r.stage = "success"
        BY <1>3 DEF HeldRow
      <3> HIDE DEF r
      <3> QED
        BY <3>1, <3>2 DEF old
    <2> QED
      BY <2>1, <2>2 DEF Execute
  <1> HIDE DEF old
  <1>5. PICK r \in HeldRow : /\ r.epoch = driver[d][s].epoch /\ r.stage \in {"success", "transient", "refused"}
                             /\ driver' = [driver EXCEPT ![d][s] = r]
    BY <1>4
  <1>6. Holder(d, s) => /\ steps'[s][Current(s)'].owner = driver[d][s].epoch
                        /\ steps'[s][Current(s)'].status = "prepared"
    BY <1>2 DEF IInv, HolderInv, HeldInv, Held, Current, Holds
  <1>7. driver' \in [Driver -> [Seed -> HeldRow]] /\ \A o \in Driver : HolderInv(o)'
    BY <1>2, <1>5, <1>6, HeldChanged DEF IInv
  <1>8. TypeOK'
    BY <1>1, <1>2, <1>7, Rows1, Rows1Next
  <1>9. \A x \in Seed : SeedInv(x)'
    BY <1>2, SeedsUntouched DEF IInv
  <1>10. RunInv'
    BY <1>2, RunKept DEF IInv
  <1> QED
    BY <1>7, <1>8, <1>9, <1>10 DEF IInv

(* A renewal failed under a call. *)
LEMMA FenceKeeps ==
    ASSUME IInv, NEW d \in Driver, NEW s \in Seed, Fence(d, s)
    PROVE  IInv'
  <1>1. driver \in [Driver -> [Seed -> HeldRow]] /\ TypeOK /\ faults \in Nat
    BY Rows1 DEF IInv
  <1>2. UNCHANGED <<run, plan, task, lease, loop, steps, lapsed, backedOff, overdue>>
        /\ faults' = faults + 1
        /\ driver[d][s].stage # "idle" /\ Reaches(d, s, "fenced")
    BY DEF Fence, store, Holds
  <1> DEFINE old == driver[d][s]
             r == [old EXCEPT !.stage = "fenced"]
  <1>4. r \in HeldRow /\ r.epoch = driver[d][s].epoch /\ r.stage = "fenced"
    <2>1. old \in HeldRow
      BY <1>1
    <2> HIDE DEF old
    <2>2. r \in HeldRow /\ r.epoch = old.epoch /\ r.stage = "fenced"
      BY <2>1 DEF HeldRow
    <2> QED
      BY <2>2 DEF old
  <1>5. driver' = [driver EXCEPT ![d][s] = r]
    BY <1>1, <1>2 DEF Reaches
  <1> HIDE DEF r
  <1>6. Holder(d, s) => steps'[s][Current(s)'].owner = driver[d][s].epoch
    BY <1>2 DEF IInv, HolderInv, HeldInv, Held, Current
  <1>7. driver' \in [Driver -> [Seed -> HeldRow]] /\ \A o \in Driver : HolderInv(o)'
    BY <1>2, <1>4, <1>5, <1>6, HeldChanged DEF IInv
  <1>8. TypeOK'
    BY <1>1, <1>2, <1>7, Rows1, Rows1Next
  <1>9. \A x \in Seed : SeedInv(x)'
    BY <1>2, SeedsUntouched DEF IInv
  <1>10. RunInv'
    BY <1>2, RunKept DEF IInv
  <1> QED
    BY <1>7, <1>8, <1>9, <1>10 DEF IInv

(* A process dies, a lease lapses, a backoff or the deadline passes: no row *)
(* changes.                                                                *)
LEMMA EnvironmentKeeps ==
    ASSUME IInv,
           \/ \E d \in Driver : Crash(d)
           \/ \E s \in Seed : LeaseLapses(s)
           \/ \E s \in Seed : BackoffElapses(s)
           \/ DeadlinePasses
    PROVE  IInv'
  <1>1. TypeOK /\ driver \in [Driver -> [Seed -> HeldRow]] /\ faults \in Nat
        /\ lapsed \subseteq Seed /\ backedOff \subseteq Seed /\ overdue \in BOOLEAN
    BY Rows1 DEF IInv
  <1>2. UNCHANGED <<run, plan, task, lease, loop, steps>>
    BY DEF Crash, LeaseLapses, BackoffElapses, DeadlinePasses, store
  <1>3. lapsed' \subseteq Seed /\ backedOff' \subseteq Seed /\ overdue' \in BOOLEAN /\ faults' \in Nat
    <2>1. lapsed' \subseteq Seed /\ backedOff' \subseteq Seed /\ faults' \in Nat
      BY <1>1 DEF Crash, LeaseLapses, BackoffElapses, DeadlinePasses
    <2>2. overdue' \in BOOLEAN
      BY <1>1, Zenon DEF Crash, LeaseLapses, BackoffElapses, DeadlinePasses
    <2> QED
      BY <2>1, <2>2
  <1>4. Free \in HeldRow /\ Free.stage = "idle"
    BY DEF Free, HeldRow
  <1>5. /\ driver' \in [Driver -> [Seed -> HeldRow]]
        /\ \A o \in Driver : \A s \in Seed : driver'[o][s] = driver[o][s] \/ driver'[o][s].stage = "idle"
    <2>1. CASE \E d \in Driver : Crash(d)
      <3>1. PICK d \in Driver : driver' = [driver EXCEPT ![d] = [s \in Seed |-> Free]]
        BY <2>1 DEF Crash
      <3> QED
        BY <1>1, <1>4, <3>1
    <2>2. CASE driver' = driver
      BY <1>1, <2>2
    <2> QED
      BY <2>1, <2>2 DEF LeaseLapses, BackoffElapses, DeadlinePasses
  <1>6. \A d \in Driver : HolderInv(d)'
    BY <1>2, <1>5, HoldersKept DEF IInv
  <1>7. TypeOK'
    BY <1>1, <1>2, <1>3, <1>5, Rows1, Rows1Next
  <1>8. \A s \in Seed : SeedInv(s)'
    BY <1>2, SeedsUntouched DEF IInv
  <1>9. RunInv'
    BY <1>2, RunKept DEF IInv
  <1> QED
    BY <1>6, <1>7, <1>8, <1>9 DEF IInv

(* The research is joined when every seed of the Plan is settled: by then *)
(* the loops of all of them are closed.                                   *)
LEMMA JoinKeeps ==
    ASSUME IInv, Join
    PROVE  IInv'
  <1>1. TypeOK /\ run \in RunRow /\ plan.seeds \subseteq Seed
    BY Rows1 DEF IInv
  <1>2. UNCHANGED <<plan, task, lease, loop, steps, driver, lapsed, backedOff, overdue, faults>>
        /\ run' = [run EXCEPT !.state = "analyzing"] /\ Settled
    BY DEF Join, clock
  <1>3. run' \in RunRow
    BY <1>1, <1>2 DEF RunRow
  <1>4. \A d \in Driver : HolderInv(d)'
    BY <1>2, HoldersKept DEF IInv
  <1>5. TypeOK'
    BY <1>1, <1>2, <1>3, Rows1, Rows1Next
  <1>6. \A s \in Seed : SeedInv(s)'
    BY <1>2, SeedsUntouched DEF IInv
  <1>7. \A s \in plan.seeds : Closed(loop[s])
    BY <1>1, <1>2 DEF IInv, SeedInv, TaskInv, Settled
  <1>8. RunInv'
    BY <1>2, <1>7 DEF RunInv, Closed
  <1> QED
    BY <1>4, <1>5, <1>6, <1>8 DEF IInv

(* A replan changes the Plan and the run, and no seed. *)
LEMMA ReplanKeeps ==
    ASSUME IInv, NEW s \in Seed, Replan(s)
    PROVE  IInv'
  <1>1. TypeOK /\ run \in RunRow /\ plan \in [version : Nat, seeds : SUBSET Seed]
    BY Rows1 DEF IInv
  <1>2. UNCHANGED <<task, lease, loop, steps, driver, lapsed, backedOff, overdue, faults>>
        /\ run' = [run EXCEPT !.state = "researching", !.replans = @ + 1]
        /\ plan' = [version |-> plan.version + 1, seeds |-> plan.seeds \cup {s}]
    BY DEF Replan, clock
  <1>3. run' \in RunRow /\ run'.state = "researching"
    <2> DEFINE n == run.replans + 1
    <2>1. n \in Nat /\ run' = [run EXCEPT !.state = "researching", !.replans = n]
      BY <1>1, <1>2 DEF RunRow
    <2> HIDE DEF n
    <2> QED
      BY <1>1, <2>1 DEF RunRow
  <1>4. plan' \in [version : Nat, seeds : SUBSET Seed]
    BY <1>1, <1>2
  <1>5. \A d \in Driver : HolderInv(d)'
    BY <1>2, HoldersKept DEF IInv
  <1>6. TypeOK'
    BY <1>1, <1>2, <1>3, <1>4, Rows1, Rows1Next
  <1>7. \A x \in Seed : SeedInv(x)'
    BY <1>2, SeedsUntouched DEF IInv
  <1>8. RunInv'
    BY <1>3 DEF RunInv
  <1> QED
    BY <1>5, <1>6, <1>7, <1>8 DEF IInv

(* A run without budget is ended after its expired leases were recovered. *)
LEMMA TerminateKeeps ==
    ASSUME IInv, NEW d \in Driver, Terminate(d)
    PROVE  IInv'
  <1>1. TypeOK /\ run \in RunRow /\ task \in [Seed -> TaskRow] /\ lease \in [Seed -> LeaseRow]
        /\ lapsed \subseteq Seed /\ backedOff \subseteq Seed
    BY Rows1 DEF IInv
  <1>2. UNCHANGED <<plan, loop, steps, driver, overdue, faults>> /\ run' = [run EXCEPT !.state = "failed"]
        /\ lapsed' \subseteq Seed /\ backedOff' \subseteq Seed
    BY <1>1 DEF Terminate
  <1>3. run' \in RunRow /\ run'.state = "failed"
    BY <1>1, <1>2 DEF RunRow
  <1>4. ASSUME NEW s \in Seed
        PROVE  /\ task'[s] \in TaskRow
               /\ task'[s] = task[s] \/ (task[s].state # "succeeded" /\ task'[s].state \in {"pending", "ready"})
               /\ s \in Expired /\ task[s].state = "dispatched" => task'[s].state = "pending"
    <2> DEFINE old == task[s]
    <2>1. old \in TaskRow
      BY <1>1
    <2>2. task'[s] = IF s \in Requeued THEN [old EXCEPT !.state = "pending"]
                     ELSE IF s \in Readmitted /\ ~Spent THEN [old EXCEPT !.state = "ready"] ELSE old
      BY DEF Terminate
    <2>3. (s \in Requeued => old.state = "dispatched") /\ (s \in Readmitted => old.state = "awaiting_retry")
          /\ (s \in Expired /\ old.state = "dispatched" => s \in Requeued)
      BY DEF Requeued, Readmitted
    <2> HIDE DEF old
    <2>4. /\ task'[s] \in TaskRow
          /\ task'[s] = old \/ (old.state # "succeeded" /\ task'[s].state \in {"pending", "ready"})
          /\ s \in Expired /\ old.state = "dispatched" => task'[s].state = "pending"
      BY <2>1, <2>2, <2>3 DEF TaskRow
    <2> QED
      BY <2>4 DEF old
  <1>5. task' \in [Seed -> TaskRow]
    <2>1. task' = [s \in Seed |-> task'[s]]
      BY DEF Terminate
    <2> QED
      BY <1>4, <2>1
  <1>6. ASSUME NEW s \in Seed
        PROVE  /\ lease'[s] \in LeaseRow /\ lease'[s].epoch = lease[s].epoch
               /\ lease'[s].claimed => s \notin Expired /\ lease'[s] = lease[s]
    <2> DEFINE old == lease[s]
    <2>1. old \in LeaseRow
      BY <1>1
    <2>2. lease'[s] = IF s \in Expired THEN [old EXCEPT !.claimed = FALSE, !.open = FALSE] ELSE old
      BY DEF Terminate
    <2> HIDE DEF old
    <2>3. /\ lease'[s] \in LeaseRow /\ lease'[s].epoch = old.epoch
          /\ lease'[s].claimed => s \notin Expired /\ lease'[s] = old
      BY <2>1, <2>2 DEF LeaseRow
    <2> QED
      BY <2>3 DEF old
  <1>7. lease' \in [Seed -> LeaseRow]
    <2>1. lease' = [s \in Seed |-> lease'[s]]
      BY DEF Terminate
    <2> QED
      BY <1>6, <2>1
  <1>8. ASSUME NEW s \in Seed PROVE SeedInv(s)'
    <2>1. task'[s].state = "succeeded" <=> task[s].state = "succeeded"
      BY <1>4
    <2>2. task'[s].state = "dispatched" => task[s].state = "dispatched"
      BY <1>4
    <2> QED
      BY <1>2, <2>1, <2>2, SeedUntouched DEF IInv
  <1>9. ASSUME NEW o \in Driver, NEW s \in Seed, driver'[o][s].stage # "idle" PROVE HeldInv(o, s)'
    <2>1. HeldInv(o, s) /\ driver'[o][s] = driver[o][s]
      BY <1>2, <1>9 DEF IInv, HolderInv, Held
    <2>2. Holder(o, s)' => Holder(o, s) /\ steps'[s] = steps[s]
      BY <1>2, <1>4, <1>6, <2>1 DEF Holder
    <2>3. lease'[s].epoch \in Nat /\ lease[s].epoch <= lease'[s].epoch
      BY <1>6 DEF LeaseRow
    <2> QED
      BY <1>1, <1>2, <2>1, <2>2, <2>3, HeldKept
  <1>10. TypeOK'
    BY <1>1, <1>2, <1>3, <1>5, <1>7, Rows1, Rows1Next
  <1>11. RunInv'
    BY <1>3 DEF RunInv
  <1> QED
    BY <1>8, <1>9, <1>10, <1>11 DEF IInv, HolderInv, Held

(* An advance ends a run without budget and touches nothing else. *)
LEMMA GuardTerminateKeeps ==
    ASSUME IInv, NEW d \in Driver, GuardTerminate(d)
    PROVE  IInv'
  <1>1. TypeOK /\ run \in RunRow
    BY Rows1 DEF IInv
  <1>2. UNCHANGED <<plan, task, lease, loop, steps, driver, lapsed, backedOff, overdue, faults>>
        /\ run' = [run EXCEPT !.state = "failed"]
    BY DEF GuardTerminate, clock
  <1>3. run' \in RunRow /\ run'.state = "failed"
    BY <1>1, <1>2 DEF RunRow
  <1>4. \A o \in Driver : HolderInv(o)'
    BY <1>2, HoldersKept DEF IInv
  <1>5. TypeOK'
    BY <1>1, <1>2, <1>3, Rows1, Rows1Next
  <1>6. \A s \in Seed : SeedInv(s)'
    BY <1>2, SeedsUntouched DEF IInv
  <1>7. RunInv'
    BY <1>3 DEF RunInv
  <1> QED
    BY <1>4, <1>5, <1>6, <1>7 DEF IInv

-----------------------------------------------------------------------------
(* The dispatch: a new epoch for what is claimed, none for the rest. *)
LEMMA DispatchKeeps ==
    ASSUME IInv, NEW d \in Driver, Dispatch(d)
    PROVE  IInv'
  <1>1. TypeOK /\ run \in RunRow /\ task \in [Seed -> TaskRow] /\ lease \in [Seed -> LeaseRow]
        /\ lapsed \subseteq Seed /\ backedOff \subseteq Seed /\ driver \in [Driver -> [Seed -> HeldRow]]
    BY Rows1 DEF IInv
  <1>2. UNCHANGED <<run, plan, overdue, faults>> /\ run.state = "researching"
        /\ lapsed' \subseteq Seed /\ backedOff' \subseteq Seed
    BY <1>1 DEF Dispatch
  <1>3. \A s \in Seed : SeedInv(s)' /\ loop'[s] \in LoopRow /\ steps'[s] \in Seq(StepRow)
    BY SeedDispatch DEF IInv
  <1>4. ASSUME NEW s \in Seed
        PROVE  /\ task'[s] \in TaskRow
               /\ s \notin Claimed /\ task'[s].state = "dispatched" => task'[s] = task[s] /\ steps'[s] = steps[s]
    <2> DEFINE old == task[s]
    <2>1. old \in TaskRow /\ ClosedNow \subseteq Ready /\ Claimed = Ready \ ClosedNow
      BY <1>1 DEF Claimed, ClosedNow
    <2>2. /\ s \in ClosedNow => task'[s] = [old EXCEPT !.state = "succeeded"]
          /\ s \in Claimed => task'[s] = [old EXCEPT !.state = "dispatched"]
          /\ s \notin Ready =>
               /\ task'[s] = IF s \in Requeued THEN [old EXCEPT !.state = "pending"]
                             ELSE IF s \in Readmitted THEN [old EXCEPT !.state = "ready"] ELSE old
               /\ steps'[s] = steps[s]
      BY <1>1, DispatchEffect
    <2> HIDE DEF old
    <2>3. /\ task'[s] \in TaskRow
          /\ s \notin Claimed /\ task'[s].state = "dispatched" => task'[s] = old /\ steps'[s] = steps[s]
      BY <2>1, <2>2 DEF TaskRow
    <2> QED
      BY <2>3 DEF old
  <1>5. ASSUME NEW s \in Seed
        PROVE  /\ lease'[s] \in LeaseRow
               /\ s \in Claimed => lease'[s].epoch = lease[s].epoch + 1
               /\ s \notin Claimed => lease'[s].epoch = lease[s].epoch
                                      /\ (lease'[s].claimed => lease'[s] = lease[s])
               /\ lease[s].epoch <= lease'[s].epoch
    <2> DEFINE old == lease[s]
    <2>1. old \in LeaseRow
      BY <1>1
    <2>2. /\ s \in Claimed => lease'[s] = [epoch |-> old.epoch + 1, claimed |-> TRUE, open |-> TRUE]
          /\ s \notin Claimed => lease'[s] = IF s \in Expired
                THEN [old EXCEPT !.claimed = FALSE, !.open = FALSE] ELSE old
      BY <1>1, DispatchEffect
    <2> DEFINE e == old.epoch + 1
    <2>e. e \in Nat /\ old.epoch <= e
      BY <2>1 DEF LeaseRow
    <2>n. s \in Claimed => lease'[s] = [epoch |-> e, claimed |-> TRUE, open |-> TRUE]
      BY <2>2
    <2> HIDE DEF old, e
    <2>3. /\ lease'[s] \in LeaseRow
          /\ s \in Claimed => lease'[s].epoch = e
          /\ s \notin Claimed => lease'[s].epoch = old.epoch /\ (lease'[s].claimed => lease'[s] = old)
          /\ old.epoch <= lease'[s].epoch
      <3>1. CASE s \in Claimed
        <4>1. lease'[s] = [epoch |-> e, claimed |-> TRUE, open |-> TRUE]
          BY <2>n, <3>1
        <4>2. lease'[s] \in LeaseRow
          BY <2>e, <4>1 DEF LeaseRow
        <4>3. lease'[s].epoch = e
          BY <4>1
        <4> QED
          BY <2>e, <3>1, <4>2, <4>3
      <3>2. CASE s \notin Claimed /\ s \in Expired
        <4>1. lease'[s] = [old EXCEPT !.claimed = FALSE, !.open = FALSE]
          BY <2>2, <3>2
        <4>2. lease'[s] \in LeaseRow /\ lease'[s].epoch = old.epoch /\ ~lease'[s].claimed /\ old.epoch \in Nat
          BY <2>1, <4>1 DEF LeaseRow
        <4> QED
          BY <3>2, <4>2
      <3>3. CASE s \notin Claimed /\ s \notin Expired
        <4>1. lease'[s] = old /\ old.epoch \in Nat
          BY <2>1, <2>2, <3>3 DEF LeaseRow
        <4> QED
          BY <2>1, <3>3, <4>1
      <3> QED
        BY <3>1, <3>2, <3>3
    <2> QED
      BY <2>3 DEF old, e
  <1>6. ASSUME NEW s \in Seed
        PROVE  /\ driver'[d][s] \in HeldRow
               /\ s \notin Claimed => driver'[d][s].stage = "idle"
               /\ s \in Claimed => /\ driver'[d][s].epoch = lease[s].epoch + 1
                                   /\ driver'[d][s].stage \in {"execute", "decide"}
                                   /\ driver'[d][s].stage = "execute" <=> Resumed(s, 1).status = "prepared"
    <2> DEFINE stage == IF Resumed(s, 1).status = "prepared" THEN "execute" ELSE "decide"
               e == lease[s].epoch + 1
    <2>1. /\ s \notin Claimed => driver'[d][s] = Free
          /\ s \in Claimed => driver'[d][s] = [Free EXCEPT !.epoch = e, !.stage = stage]
      <3>1. driver'[d][s] =
              IF s \notin Claimed THEN Free
              ELSE [Free EXCEPT !.epoch = lease[s].epoch + 1,
                      !.stage = IF Resumed(s, 1).status = "prepared" THEN "execute" ELSE "decide"]
        BY ZenonT(40), <1>1, DispatchEffect
      <3> QED
        BY Zenon, <3>1
    <2>2. e \in Nat /\ stage \in {"execute", "decide"} /\ (stage = "execute" <=> Resumed(s, 1).status = "prepared")
      BY <1>1 DEF LeaseRow
    <2> DEFINE free == Free
    <2>3. free \in HeldRow /\ free.stage = "idle"
      BY DEF Free, HeldRow
    <2>f. /\ s \notin Claimed => driver'[d][s] = free
          /\ s \in Claimed => driver'[d][s] = [free EXCEPT !.epoch = e, !.stage = stage]
      BY <2>1
    <2> HIDE DEF stage, e, free
    <2>4. /\ driver'[d][s] \in HeldRow
          /\ s \notin Claimed => driver'[d][s].stage = "idle"
          /\ s \in Claimed => driver'[d][s].epoch = e /\ driver'[d][s].stage = stage
      BY <2>2, <2>3, <2>f DEF HeldRow
    <2> QED
      BY <2>2, <2>4 DEF e
  <1>7. \A o \in Driver \ {d} : driver'[o] = driver[o]
    <2>1. \A s \in Seed : \A o \in Driver \ {d} : driver'[o] = driver[o]
      BY <1>1, DispatchEffect
    <2>2. Seed # {}
      BY BoundaryAssumption
    <2> QED
      BY <2>1, <2>2
  <1>8. TypeOK'
    <2>1. task' \in [Seed -> TaskRow]
      <3>1. task' = [s \in Seed |-> TaskAfterDispatch(s, ClosedNow)]
        BY DEF Dispatch, ClosedNow
      <3> QED
        BY <1>4, <3>1
    <2>2. lease' \in [Seed -> LeaseRow]
      <3>1. lease' = [s \in Seed |-> lease'[s]]
        BY DEF Dispatch
      <3> QED
        BY <1>5, <3>1
    <2>3. loop' \in [Seed -> LoopRow] /\ steps' \in [Seed -> Seq(StepRow)]
      <3>1. loop' = [s \in Seed |-> loop'[s]]
        BY DEF Dispatch
      <3>2. steps' = [s \in Seed |-> steps'[s]]
        BY DEF Dispatch
      <3> QED
        BY <1>3, <3>1, <3>2
    <2>4. driver' \in [Driver -> [Seed -> HeldRow]]
      <3> DEFINE batch == [s \in Seed |->
             IF s \notin Claimed THEN Free
             ELSE [Free EXCEPT !.epoch = lease[s].epoch + 1,
                     !.stage = IF Resumed(s, 1).status = "prepared" THEN "execute" ELSE "decide"]]
      <3>1. driver' = [driver EXCEPT ![d] = batch]
        BY DEF Dispatch, Claimed, ClosedNow
      <3>2. batch = [s \in Seed |-> batch[s]]
        OBVIOUS
      <3> HIDE DEF batch
      <3>3. driver'[d] = batch
        BY <1>1, <3>1
      <3>4. batch \in [Seed -> HeldRow]
        BY <1>6, <3>2, <3>3
      <3> QED
        BY <1>1, <3>1, <3>4
    <2> QED
      BY <1>1, <1>2, <2>1, <2>2, <2>3, <2>4, Rows1, Rows1Next
  <1>9. ASSUME NEW o \in Driver, NEW s \in Seed, driver'[o][s].stage # "idle" PROVE HeldInv(o, s)'
    <2>0. lease[s].epoch \in Nat /\ lease'[s].epoch \in Nat
      BY <1>1, <1>5 DEF LeaseRow
    <2>1. CASE o = d
      <3>1. s \in Claimed /\ driver'[d][s].epoch = lease'[s].epoch /\ lease'[s].epoch = lease[s].epoch + 1
        BY <1>5, <1>6, <1>9, <2>1
      <3>2. \A u \in Driver \ {d} : driver'[u][s].stage # "idle" => driver'[u][s].epoch # driver'[d][s].epoch
        <4> TAKE u \in Driver \ {d}
        <4>1. driver'[u][s] = driver[u][s]
          BY <1>7
        <4>2. driver[u][s].stage # "idle" => driver[u][s].epoch <= lease[s].epoch
          BY DEF IInv, HolderInv, HeldInv, Held
        <4>3. driver[u][s] \in HeldRow
          BY <1>1
        <4> QED
          BY <2>0, <3>1, <4>1, <4>2, <4>3 DEF HeldRow
      <3> DEFINE r == Resumed(s, lease[s].epoch + 1)
      <3>3. /\ r \in StepRow /\ r.owner = lease[s].epoch + 1 /\ r.status \in {"deciding", "prepared"}
            /\ r.status = Resumed(s, 1).status
        <4>1. lease[s].epoch + 1 \in Nat /\ SeedInv(s)
          BY <2>0 DEF IInv
        <4> QED
          BY <1>1, <4>1, ResumedStep
      <3>4. steps'[s] = WithStep(s, r) /\ SeedInv(s)
        BY <1>1, <3>1, DispatchEffect DEF IInv
      <3> HIDE DEF r
      <3>5. Len(steps'[s]) = loop[s].count + 1 /\ steps'[s][loop[s].count + 1] = r
        BY <1>1, <3>3, <3>4, StepAdded
      <3>6. steps'[s][Current(s)'] = r
        BY <3>5 DEF Current
      <3>7. /\ steps'[s][Current(s)'].owner = driver'[d][s].epoch
            /\ driver'[d][s].stage = "decide" => steps'[s][Current(s)'].status = "deciding"
            /\ driver'[d][s].stage \in {"execute", "success"} => steps'[s][Current(s)'].status = "prepared"
        BY <1>6, <3>1, <3>3, <3>6
      <3>8. driver'[d][s].epoch <= lease'[s].epoch
        BY <2>0, <3>1
      <3> QED
        BY <2>1, <3>2, <3>7, <3>8 DEF HeldInv, Held, Holds
    <2>2. CASE o # d
      <3>1. HeldInv(o, s) /\ driver'[o][s] = driver[o][s]
        BY <1>7, <1>9, <2>2 DEF IInv, HolderInv, Held
      <3>2. driver[o][s].epoch <= lease[s].epoch /\ driver[o][s].epoch \in Nat
        BY <1>1, <3>1 DEF HeldInv, HeldRow
      <3>3. Holder(o, s)' => Holder(o, s) /\ steps'[s] = steps[s]
        <4>1. CASE s \in Claimed
          <5>1. driver'[o][s].epoch # lease'[s].epoch
            BY <1>5, <2>0, <3>1, <3>2, <4>1
          <5> QED
            BY <5>1 DEF Holder
        <4>2. CASE s \notin Claimed
          BY <1>4, <1>5, <3>1, <4>2 DEF Holder
        <4> QED
          BY <4>1, <4>2
      <3>4. ASSUME NEW u \in Driver \ {o}, driver'[u][s].stage # "idle"
            PROVE  \/ driver[u][s].stage # "idle" /\ driver'[u][s].epoch = driver[u][s].epoch
                   \/ driver'[u][s].epoch > lease[s].epoch /\ driver'[u][s].epoch \in Nat
        <4>1. CASE u = d
          BY <1>6, <2>0, <3>4, <4>1
        <4>2. CASE u # d
          BY <1>7, <3>4, <4>2
        <4> QED
          BY <4>1, <4>2
      <3>5. lease[s].epoch <= lease'[s].epoch
        BY <1>5
      <3> QED
        BY <1>1, <2>0, <3>1, <3>3, <3>4, <3>5, HeldKept
    <2> QED
      BY <2>1, <2>2
  <1>10. RunInv'
    BY <1>2 DEF RunInv
  <1> QED
    BY <1>3, <1>8, <1>9, <1>10 DEF IInv, HolderInv, Held

-----------------------------------------------------------------------------
(* A charge is recorded as a whole or ends the run. *)
LEMMA ChargedIs ==
    ASSUME NEW r \in RunRow, NEW t \in Nat, NEW c \in Nat, NEW n, n = Charged(r, t, c)
    PROVE  /\ n \in RunRow
           /\ \/ n.state = "failed" /\ n.tokens = r.tokens /\ n.cost = r.cost
              \/ n.state = r.state /\ n.tokens = r.tokens + t /\ n.cost = r.cost + c
  <1> DEFINE tokens == r.tokens + t
             cost == r.cost + c
  <1>1. tokens \in Nat /\ cost \in Nat
    BY DEF RunRow
  <1>2. CASE tokens > RunTokens \/ cost > RunCost
    <2>1. n = [r EXCEPT !.state = "failed"]
      BY <1>2 DEF Charged
    <2> QED
      BY <2>1 DEF RunRow
  <1>3. CASE ~(tokens > RunTokens \/ cost > RunCost)
    <2>1. n = [r EXCEPT !.tokens = tokens, !.cost = cost]
      BY <1>3 DEF Charged, RunRow
    <2> HIDE DEF tokens, cost
    <2>2. n \in RunRow /\ n.state = r.state /\ n.tokens = tokens /\ n.cost = cost
      BY <1>1, <2>1 DEF RunRow
    <2> QED
      BY <2>2 DEF tokens, cost
  <1> QED
    BY <1>2, <1>3

(* Storing a decision charges its price, or ends the run. *)
LEMMA RunAfterDecisionIs ==
    ASSUME TypeOK, NEW a, NEW t \in Nat, NEW n, n = RunAfterDecision(a, t)
    PROVE  /\ n \in RunRow /\ n.state \in {run.state, "failed"} /\ n.cost = run.cost
           /\ \/ n.tokens = run.tokens + t
              \/ n.state = "failed" /\ n.tokens = run.tokens
  <1> DEFINE r == Charged(run, t, 0)
  <1>1. run \in RunRow /\ run.cost \in Nat /\ run.cost + 0 = run.cost
    BY Rows1 DEF RunRow
  <1>2. /\ r \in RunRow
        /\ \/ r.state = "failed" /\ r.tokens = run.tokens /\ r.cost = run.cost
           \/ r.state = run.state /\ r.tokens = run.tokens + t /\ r.cost = run.cost
    <2>1. \A c \in Nat : \A x : x = Charged(run, t, c) => /\ x \in RunRow
                 /\ \/ x.state = "failed" /\ x.tokens = run.tokens /\ x.cost = run.cost
                    \/ x.state = run.state /\ x.tokens = run.tokens + t /\ x.cost = run.cost + c
      BY <1>1, ChargedIs
    <2> QED
      BY <1>1, <2>1
  <1>3. n = r \/ n = [r EXCEPT !.state = "failed"]
    BY DEF RunAfterDecision
  <1> HIDE DEF r
  <1>4. /\ n \in RunRow /\ n.tokens = r.tokens /\ n.cost = r.cost /\ n.state \in {r.state, "failed"}
    BY <1>2, <1>3 DEF RunRow
  <1>5. r.state \in {run.state, "failed"}
    BY <1>2
  <1>6. n.state # "failed" => n.state = r.state /\ r.state # "failed"
    BY <1>4
  <1> QED
    BY <1>2, <1>3, <1>4, <1>5, <1>6 DEF RunRow

(* The order in which the acceptance charges what its batch has cost. *)
Order(d) == 1..Cardinality(Valid(d))
Listed(d) == SetToSeq(Valid(d))
ChargedUp(d, it) ==
    \A T \in SUBSET Order(d) :
        it[T] = IF T = {} THEN run
                ELSE Charged(it[T \ {LastOf(T)}], 0, driver[d][Listed(d)[LastOf(T)]].cost)


(* The seeds of a batch that are still held are finitely many. *)
LEMMA ValidFinite ==
    ASSUME NEW d
    PROVE  /\ IsFiniteSet(Valid(d)) /\ Valid(d) \subseteq Seed
           /\ DOMAIN Listed(d) = Order(d) /\ IsFiniteSet(Order(d))
           /\ \A i \in Order(d) : Listed(d)[i] \in Valid(d)
           /\ \A i \in Order(d) : \A j \in Order(d) : Listed(d)[i] = Listed(d)[j] => i = j
           /\ \A s \in Valid(d) : \E i \in Order(d) : Listed(d)[i] = s
  <1>1. Valid(d) \subseteq Seed
    BY DEF Valid, Held
  <1>2. IsFiniteSet(Valid(d))
    BY <1>1, BoundaryAssumption, FS_Subset
  <1>3. /\ Cardinality(Valid(d)) \in Nat
        /\ Listed(d) \in [Order(d) -> Valid(d)]
        /\ \A i \in Order(d) : \A j \in Order(d) : Listed(d)[i] = Listed(d)[j] => i = j
        /\ \A s \in Valid(d) : \E i \in Order(d) : Listed(d)[i] = s
    BY <1>2, SetToSeqLists DEF Order, Listed
  <1>4. IsFiniteSet(Order(d))
    BY <1>3, FS_Interval DEF Order
  <1> QED
    BY <1>1, <1>2, <1>3, <1>4

(* The same as a recursive function, the way FoldSeq defines it. *)
ChargedBy(d, it) ==
    it = [s \in SUBSET (DOMAIN Listed(d)) |->
            IF s = {} THEN run
            ELSE LET x == CHOOSE x \in s : TRUE
                 IN  Charged(it[s \ {x}], 0, driver[d][Listed(d)[x]].cost)]

(* What the run is after the acceptance of a batch. *)
LEMMA AcceptRun ==
    ASSUME TypeOK, NEW d \in Driver, Accept(d)
    PROVE  \E it \in [SUBSET Order(d) -> RunRow] : ChargedUp(d, it) /\ run' = it[Order(d)]
  <1>1. run' = (CHOOSE it : ChargedBy(d, it))[DOMAIN Listed(d)]
    BY Zenon DEF Accept, FoldSeq, FoldFunction, FoldFunctionOnSet, MapThenFoldSet, ChargedBy, Listed
  <1>2. DOMAIN Listed(d) = Order(d) /\ IsFiniteSet(Order(d))
        /\ \A i \in Order(d) : Listed(d)[i] \in Seed
    BY ValidFinite
  <1>3. run \in RunRow /\ \A s \in Seed : driver[d][s].cost \in Nat
    BY Rows1 DEF HeldRow
  <1> DEFINE G == [p \in Order(d) \X RunRow |-> Charged(p[2], 0, driver[d][Listed(d)[p[1]]].cost)]
             P == [T \in SUBSET Order(d) |-> LastOf(T)]
  <1>4. G \in [Order(d) \X RunRow -> RunRow]
    <2>1. \A r \in RunRow : \A c \in Nat : Charged(r, 0, c) \in RunRow
      BY ChargedIs
    <2> QED
      BY <1>2, <1>3, <2>1
  <1>5. \A i \in Order(d) : \A r \in RunRow : G[<<i, r>>] = Charged(r, 0, driver[d][Listed(d)[i]].cost)
    OBVIOUS
  <1>6. \A T \in SUBSET Order(d) : T # {} => P[T] \in T /\ P[T] = LastOf(T)
    BY DEF LastOf
  <1> HIDE DEF G, P
  <1>7. Picks(P, Order(d))
    BY <1>6 DEF Picks
  <1>8. PICK it \in [SUBSET Order(d) -> RunRow] : IsFold(P, G, run, Order(d), it)
    BY <1>2, <1>3, <1>4, <1>7, FoldExists
  <1>9. ChargedUp(d, it)
    <2> SUFFICES ASSUME NEW T \in SUBSET Order(d)
                 PROVE  it[T] = IF T = {} THEN run
                                ELSE Charged(it[T \ {LastOf(T)}], 0, driver[d][Listed(d)[LastOf(T)]].cost)
      BY DEF ChargedUp
    <2>1. CASE T = {}
      BY <1>8, <2>1 DEF IsFold, Round
    <2>2. CASE T # {}
      <3>1. LastOf(T) \in Order(d) /\ P[T] = LastOf(T) /\ it[T \ {LastOf(T)}] \in RunRow
        BY <1>6, <2>2
      <3>2. it[T] = G[<<LastOf(T), it[T \ {LastOf(T)}]>>]
        BY <1>8, <2>2, <3>1 DEF IsFold, Round
      <3> QED
        BY <1>5, <2>2, <3>1, <3>2
    <2> QED
      BY <2>1, <2>2
  <1>10. ChargedBy(d, it)
    BY <1>2, <1>9 DEF ChargedBy, ChargedUp, LastOf
  <1> DEFINE chosen == CHOOSE x : ChargedBy(d, x)
  <1>11. ChargedBy(d, chosen)
    BY <1>10, Zenon
  <1>12. run' = chosen[Order(d)]
    BY <1>1, <1>2
  <1> HIDE DEF chosen
  <1>13. ChargedUp(d, chosen)
    BY <1>2, <1>11 DEF ChargedBy, ChargedUp, LastOf
  <1>14. chosen = [T \in SUBSET Order(d) |-> chosen[T]]
    BY <1>2, <1>11 DEF ChargedBy
  <1>15. \A T \in SUBSET Order(d) : chosen[T] = it[T]
    <2> DEFINE Bad == {T \in SUBSET Order(d) : chosen[T] # it[T]}
    <2>1. ASSUME Bad # {} PROVE FALSE
      <3>0. Bad \in SUBSET (SUBSET Order(d))
        OBVIOUS
      <3> HIDE DEF Bad
      <3>1. PICK T \in Bad : \A x \in T : T \ {x} \notin Bad
        BY <1>2, <2>1, <3>0, SmallestSet
      <3>2. T \in SUBSET Order(d) /\ chosen[T] # it[T]
        BY DEF Bad
      <3>3. T # {}
        BY <1>9, <1>13, <3>2 DEF ChargedUp
      <3>4. LastOf(T) \in T
        BY <3>3 DEF LastOf
      <3>5. chosen[T \ {LastOf(T)}] = it[T \ {LastOf(T)}]
        BY <3>1, <3>2, <3>4 DEF Bad
      <3> QED
        BY <1>9, <1>13, <3>2, <3>3, <3>5 DEF ChargedUp
    <2> QED
      BY <2>1
  <1>16. chosen[Order(d)] = it[Order(d)]
    BY <1>15
  <1> QED
    BY <1>9, <1>12, <1>16

(* Charging costs ends the run or leaves its state. *)
LEMMA AcceptRunIs ==
    ASSUME TypeOK, NEW d \in Driver, Accept(d)
    PROVE  run' \in RunRow /\ run'.state \in {run.state, "failed"}
  <1>1. PICK it \in [SUBSET Order(d) -> RunRow] : ChargedUp(d, it) /\ run' = it[Order(d)]
    BY AcceptRun
  <1>2. \A i \in Order(d) : driver[d][Listed(d)[i]].cost \in Nat
    <2>1. \A i \in Order(d) : Listed(d)[i] \in Seed
      BY ValidFinite
    <2> QED
      BY <2>1, Rows1 DEF HeldRow
  <1> DEFINE Bad == {T \in SUBSET Order(d) : it[T].state \notin {run.state, "failed"}}
  <1>3. ASSUME Bad # {} PROVE FALSE
    <2>0. Bad \in SUBSET (SUBSET Order(d)) /\ IsFiniteSet(Order(d))
      BY ValidFinite
    <2> HIDE DEF Bad
    <2>1. PICK T \in Bad : \A x \in T : T \ {x} \notin Bad
      BY <1>3, <2>0, SmallestSet
    <2>2. T \in SUBSET Order(d) /\ it[T].state \notin {run.state, "failed"}
      BY DEF Bad
    <2>3. T # {}
      BY <1>1, <2>2 DEF ChargedUp
    <2>4. LastOf(T) \in T /\ LastOf(T) \in Order(d)
      BY <2>2, <2>3 DEF LastOf
    <2> DEFINE rest == it[T \ {LastOf(T)}]
               c == driver[d][Listed(d)[LastOf(T)]].cost
    <2>5. rest \in RunRow /\ rest.state \in {run.state, "failed"} /\ c \in Nat
      BY <1>2, <2>1, <2>2, <2>4 DEF Bad
    <2>6. it[T] = Charged(rest, 0, c)
      BY <1>1, <2>2, <2>3 DEF ChargedUp
    <2> HIDE DEF rest, c
    <2>7. it[T].state \in {rest.state, "failed"}
      BY <2>5, <2>6, ChargedIs
    <2> QED
      BY <2>2, <2>5, <2>7
  <1> QED
    BY <1>1, <1>3

-----------------------------------------------------------------------------
(* A decision is stored: the holder's step is prepared, whoever else waits. *)
LEMMA DecideKeeps ==
    ASSUME IInv, NEW d \in Driver, NEW s \in Seed, Decide(d, s)
    PROVE  IInv'
  <1>1. TypeOK /\ driver \in [Driver -> [Seed -> HeldRow]] /\ run \in RunRow /\ SeedInv(s)
    BY Rows1 DEF IInv
  <1>2. UNCHANGED <<plan, task, lease, loop, lapsed, backedOff, overdue, faults>>
        /\ driver[d][s].stage = "decide" /\ Holder(d, s)
        /\ steps[s][Current(s)].owner = driver[d][s].epoch
    BY DEF Decide, clock, Holds, Undecided
  <1>3. PICK a \in Action, tokens \in Tokens :
                  /\ Decided(s, a, tokens) \in StepRow
                  /\ Decided(s, a, tokens).status = "prepared"
                  /\ Decided(s, a, tokens).owner = steps[s][Current(s)].owner
                  /\ steps'[s] = [steps[s] EXCEPT ![Current(s)] = Decided(s, a, tokens)]
                  /\ \A x \in Seed \ {s} : steps'[x] = steps[x]
                  /\ steps' \in [Seed -> Seq(StepRow)]
                  /\ run' = RunAfterDecision(a, tokens)
                  /\ Reaches(d, s, IF run'.state = "failed" \/ OverLoopBudget(s, a, tokens)
                                   THEN "refused" ELSE "execute")
    BY <1>1, DecideEffect
  <1>4. tokens \in Nat
    BY BoundaryAssumption
  <1>5. run' \in RunRow /\ run'.state \in {run.state, "failed"}
    BY <1>1, <1>3, <1>4, RunAfterDecisionIs
  <1> DEFINE stage == IF run'.state = "failed" \/ OverLoopBudget(s, a, tokens) THEN "refused" ELSE "execute"
             old == driver[d][s]
             r == [old EXCEPT !.stage = stage]
             new == Decided(s, a, tokens)
  <1>6. stage \in {"refused", "execute"}
    OBVIOUS
  <1>7. driver' = [driver EXCEPT ![d][s] = r]
    BY <1>1, <1>3 DEF Reaches
  <1>n. /\ new \in StepRow /\ new.status = "prepared" /\ new.owner = steps[s][Current(s)].owner
        /\ steps'[s] = [steps[s] EXCEPT ![Current(s)] = new]
    BY <1>3
  <1> HIDE DEF stage, new
  <1>8. r \in HeldRow /\ r.epoch = driver[d][s].epoch /\ r.stage = stage
    <2>1. old \in HeldRow
      BY <1>1
    <2> HIDE DEF old
    <2>2. r \in HeldRow /\ r.epoch = old.epoch /\ r.stage = stage
      BY <1>6, <2>1 DEF HeldRow
    <2> QED
      BY <2>2 DEF old
  <1> HIDE DEF r, old
  <1>9. steps'[s][Current(s)'] = new
    <2>1. Waiting(s) /\ Current(s) \in 1..Len(steps[s])
      BY <1>1, <1>2, HolderWaits
    <2>2. Len(steps'[s]) = Len(steps[s])
      BY <1>1, <1>n, <2>1, RowReplaced
    <2>3. steps'[s][Current(s)] = new
      BY <1>1, <1>n, <2>1, RowReplaced
    <2> QED
      BY <2>2, <2>3 DEF Current
  <1>10. driver' \in [Driver -> [Seed -> HeldRow]] /\ \A o \in Driver : HolderInv(o)'
    <2>1. /\ steps'[s][Current(s)'].owner = driver[d][s].epoch
          /\ r.stage = "decide" => steps'[s][Current(s)'].status = "deciding"
          /\ r.stage \in {"execute", "success"} => steps'[s][Current(s)'].status = "prepared"
      BY <1>2, <1>6, <1>8, <1>9, <1>n
    <2>2. r.stage # "idle" /\ driver[d][s].stage # "idle"
      BY <1>2, <1>6, <1>8
    <2> QED
      BY <1>1, <1>2, <1>3, <1>7, <1>8, <2>1, <2>2, HeldChanged DEF IInv
  <1>11. TypeOK'
    BY <1>1, <1>2, <1>3, <1>5, <1>10, Rows1, Rows1Next
  <1>12. \A x \in Seed : SeedInv(x)'
    <2> TAKE x \in Seed
    <2>1. CASE x = s
      BY <1>1, <2>1, SeedDecide
    <2>2. CASE x # s
      BY <1>2, <1>3, <2>2, SeedUntouched DEF IInv
    <2> QED
      BY <2>1, <2>2
  <1>13. RunInv'
    BY <1>2, <1>5, RunKept DEF IInv
  <1> QED
    BY <1>10, <1>11, <1>12, <1>13 DEF IInv

(* A batch is accepted: what it still held is settled, retried or given up. *)
LEMMA AcceptKeeps ==
    ASSUME IInv, NEW d \in Driver, Accept(d)
    PROVE  IInv'
  <1>1. TypeOK /\ driver \in [Driver -> [Seed -> HeldRow]] /\ lease \in [Seed -> LeaseRow]
        /\ task \in [Seed -> TaskRow] /\ loop \in [Seed -> LoopRow] /\ steps \in [Seed -> Seq(StepRow)]
        /\ lapsed \subseteq Seed
    BY Rows1 DEF IInv
  <1>2. UNCHANGED <<plan, backedOff, overdue, faults>> /\ lapsed' \subseteq Seed
    BY <1>1 DEF Accept
  <1>3. run' \in RunRow /\ run'.state \in {run.state, "failed"}
    BY <1>1, AcceptRunIs
  <1>4. ASSUME NEW s \in Seed
        PROVE  SeedInv(s)' /\ loop'[s] \in LoopRow /\ steps'[s] \in Seq(StepRow) /\ task'[s] \in TaskRow
    <2>1. CASE s \in Valid(d)
      BY <1>1, <2>1, SeedAccept DEF IInv
    <2>2. CASE s \notin Valid(d)
      <3>1. loop'[s] = loop[s] /\ steps'[s] = steps[s] /\ task'[s] = task[s]
        BY <1>1, <2>2, AcceptEffect
      <3> QED
        BY <1>1, <3>1, SeedUntouched DEF IInv
    <2> QED
      BY <2>1, <2>2
  <1>5. ASSUME NEW s \in Seed
        PROVE  /\ lease'[s] \in LeaseRow /\ lease'[s].epoch = lease[s].epoch
               /\ lease'[s].claimed /\ lease'[s].open => s \notin Valid(d) /\ lease'[s] = lease[s]
    <2> DEFINE old == lease[s]
    <2>1. old \in LeaseRow
      BY <1>1
    <2>2. /\ s \in Valid(d) => lease'[s] = [old EXCEPT !.claimed = FALSE, !.open = FALSE]
          /\ s \notin Valid(d) => lease'[s] = old \/ lease'[s] = [old EXCEPT !.open = FALSE]
      BY <1>1, AcceptEffect
    <2> HIDE DEF old
    <2>3. /\ lease'[s] \in LeaseRow /\ lease'[s].epoch = old.epoch
          /\ lease'[s].claimed /\ lease'[s].open => s \notin Valid(d) /\ lease'[s] = old
      BY <2>1, <2>2 DEF LeaseRow
    <2> QED
      BY <2>3 DEF old
  <1>6. TypeOK'
    <2>1. loop' = [s \in Seed |-> loop'[s]] /\ steps' = [s \in Seed |-> steps'[s]]
          /\ task' = [s \in Seed |-> task'[s]] /\ lease' = [s \in Seed |-> lease'[s]]
      BY DEF Accept
    <2>2. loop' \in [Seed -> LoopRow] /\ steps' \in [Seed -> Seq(StepRow)]
          /\ task' \in [Seed -> TaskRow] /\ lease' \in [Seed -> LeaseRow]
      BY <1>4, <1>5, <2>1
    <2>3. Free \in HeldRow
      BY DEF Free, HeldRow
    <2>4. driver' \in [Driver -> [Seed -> HeldRow]]
      BY <1>1, <2>3 DEF Accept
    <2> QED
      BY <1>1, <1>2, <1>3, <2>2, <2>4, Rows1, Rows1Next
  <1>7. ASSUME NEW o \in Driver, NEW s \in Seed, driver'[o][s].stage # "idle" PROVE HeldInv(o, s)'
    <2>0. driver'[d][s] = Free /\ \A u \in Driver \ {d} : driver'[u] = driver[u]
      BY <1>1, AcceptEffect
    <2>1. o # d
      BY <1>7, <2>0 DEF Free
    <2>2. driver'[o][s] = driver[o][s] /\ HeldInv(o, s)
      BY <1>7, <2>0, <2>1 DEF IInv, HolderInv, Held
    <2>3. Holder(o, s)' => Holder(o, s) /\ steps'[s] = steps[s]
      <3>1. s \notin Valid(d) => task'[s] = task[s] /\ steps'[s] = steps[s]
        BY <1>1, AcceptEffect
      <3> QED
        BY <1>5, <2>2, <3>1 DEF Holder
    <2>4. \A u \in Driver \ {o} : driver'[u][s].stage # "idle" =>
             driver[u][s].stage # "idle" /\ driver'[u][s].epoch = driver[u][s].epoch
      BY <2>0 DEF Free
    <2>5. lease'[s].epoch \in Nat /\ lease[s].epoch <= lease'[s].epoch
      BY <1>5 DEF LeaseRow
    <2> QED
      BY <1>1, <2>2, <2>3, <2>4, <2>5, HeldKept
  <1>8. RunInv'
    <2> SUFFICES ASSUME run'.state = "analyzing", NEW s \in plan.seeds PROVE Closed(loop'[s])
      BY <1>2 DEF RunInv, Closed
    <2>1. run.state = "analyzing"
      BY <1>3
    <2>2. Closed(loop[s])
      BY <2>1 DEF IInv, RunInv
    <2>3. s \in Seed
      BY <1>1, Rows1
    <2>4. s \notin Valid(d)
      <3>1. s \in Valid(d) => Holder(d, s)
        BY DEF Valid
      <3> QED
        BY <1>1, <2>2, <2>3, <3>1, HolderWaits DEF IInv
    <2>5. loop'[s] = loop[s]
      BY <1>1, <2>3, <2>4, AcceptEffect
    <2> QED
      BY <2>2, <2>5
  <1> QED
    BY <1>4, <1>6, <1>7, <1>8 DEF IInv, HolderInv, Held

-----------------------------------------------------------------------------
(* Nothing is held and nothing is closed at first. *)
LEMMA InitKeeps ==
    ASSUME Init
    PROVE  IInv
  <1>1. \A s \in Seed : loop[s] = NoLoop /\ steps[s] = <<>> /\ task[s].state = "pending"
    BY DEF Init
  <1>2. TypeOK
    <2>1. run \in RunRow
      BY DEF Init, RunRow
    <2>2. plan \in [version : Nat, seeds : SUBSET Seed]
      BY BoundaryAssumption DEF Init
    <2>3. task \in [Seed -> TaskRow] /\ lease \in [Seed -> LeaseRow]
      BY DEF Init, TaskRow, LeaseRow
    <2>4. loop \in [Seed -> LoopRow] /\ steps \in [Seed -> Seq(StepRow)]
      <3>1. NoLoop \in LoopRow
        BY DEF NoLoop, LoopRow
      <3> QED
        BY <3>1 DEF Init
    <2>5. driver \in [Driver -> [Seed -> HeldRow]]
      BY DEF Init, Free, HeldRow
    <2>6. lapsed \subseteq Seed /\ backedOff \subseteq Seed /\ overdue \in BOOLEAN /\ faults \in Nat
      BY DEF Init
    <2> QED
      BY <2>1, <2>2, <2>3, <2>4, <2>5, <2>6, Rows1
  <1>3. ASSUME NEW s \in Seed PROVE SeedInv(s)
    <2>1. IsFiniteSet({}) /\ Cardinality({} \ {SeedFocus}) = 0
      <3>1. {} \ {SeedFocus} = {}
        OBVIOUS
      <3> QED
        BY <3>1, FS_EmptySet
    <2>2. loop[s].count = 0 /\ loop[s].next = 0 /\ loop[s].status = "none" /\ loop[s].foci = {}
          /\ loop[s].directions = 0 /\ loop[s].coverage = {} /\ steps[s] = <<>> /\ Len(steps[s]) = 0
      BY <1>1 DEF NoLoop
    <2>3. ~Waiting(s) /\ ~Closed(loop[s])
      BY <2>2 DEF Waiting, Closed
    <2>4. MaxDirections \in Nat
      BY BoundaryAssumption
    <2>5. CountInv(s) /\ RowInv(s) /\ CoverInv(s)
      BY <2>2 DEF CountInv, RowInv, CoverInv
    <2>6. FocusInv(s) /\ TaskInv(s)
      BY <1>1, <2>1, <2>2, <2>3, <2>4 DEF FocusInv, TaskInv
    <2> QED
      BY <2>5, <2>6 DEF SeedInv
  <1>4. \A d \in Driver : Held(d) = {}
    BY DEF Init, Held, Free
  <1>5. RunInv
    BY DEF Init, RunInv
  <1> QED
    BY <1>2, <1>3, <1>4, <1>5 DEF IInv, HolderInv

(* Every step keeps the invariant. *)
LEMMA NextKeeps ==
    ASSUME IInv, [Next]_vars
    PROVE  IInv'
  <1>1. CASE UNCHANGED vars
    <2>1. UNCHANGED <<run, plan, task, lease, loop, steps, driver, lapsed, backedOff, overdue, faults>>
      BY <1>1 DEF vars, store, clock
    <2>2. TypeOK'
      BY <2>1, Rows1, Rows1Next DEF IInv
    <2>3. \A s \in Seed : SeedInv(s)'
      BY <2>1, SeedsUntouched DEF IInv
    <2>4. \A d \in Driver : HolderInv(d)'
      BY <2>1, HoldersKept DEF IInv
    <2>5. RunInv'
      BY <2>1, RunKept DEF IInv
    <2> QED
      BY <2>2, <2>3, <2>4, <2>5 DEF IInv
  <1>2. CASE \E d \in Driver : Dispatch(d)
    BY <1>2, DispatchKeeps
  <1>3. CASE \E d \in Driver : Terminate(d)
    BY <1>3, TerminateKeeps
  <1>3a. CASE \E d \in Driver : GuardTerminate(d)
    BY <1>3a, GuardTerminateKeeps
  <1>4. CASE \E d \in Driver, s \in Seed : Decide(d, s)
    BY <1>4, DecideKeeps
  <1>5. CASE \E d \in Driver, s \in Seed : DecideFails(d, s) \/ DecideTooLate(d, s)
    BY <1>5, DecideFailsKeeps
  <1>6. CASE \E d \in Driver, s \in Seed : Execute(d, s)
    BY <1>6, ExecuteKeeps
  <1>7. CASE \E d \in Driver, s \in Seed : Fence(d, s)
    BY <1>7, FenceKeeps
  <1>8. CASE \E d \in Driver : Accept(d)
    BY <1>8, AcceptKeeps
  <1>9. CASE Join
    BY <1>9, JoinKeeps
  <1>10. CASE \E s \in Seed : Replan(s)
    BY <1>10, ReplanKeeps
  <1>11. CASE \/ \E d \in Driver : Crash(d)
              \/ \E s \in Seed : LeaseLapses(s)
              \/ \E s \in Seed : BackoffElapses(s)
              \/ DeadlinePasses
    BY <1>11, EnvironmentKeeps
  <1> QED
    BY <1>1, <1>2, <1>3, <1>3a, <1>4, <1>5, <1>6, <1>7, <1>8, <1>9, <1>10, <1>11 DEF Next

(* The invariant holds throughout. *)
THEOREM Inductive == Spec => []IInv
  BY InitKeeps, NextKeeps, PTL DEF Spec

(* Every variable keeps its type. *)
THEOREM TypeCorrect == Spec => []TypeOK
  <1>1. IInv => TypeOK
    BY DEF IInv
  <1> QED
    BY <1>1, Inductive, PTL

(* The rows of a seed agree with one another, and the result of the newest *)
(* holder of its lease fits the stored step.                               *)
THEOREM RowsAgree == Spec => []StepsCoherent
  <1>1. IInv => StepsCoherent
    <2> SUFFICES ASSUME IInv PROVE StepsCoherent
      OBVIOUS
    <2>1. \A s \in Seed :
         /\ loop[s].count = loop[s].next
         /\ \A i \in 1..Len(steps[s]) :
              (steps[s][i].status = "accepted") <=> (i <= loop[s].count)
         /\ loop[s].count <= Len(steps[s]) /\ Len(steps[s]) <= loop[s].count + 1
         /\ loop[s].directions = Cardinality(loop[s].foci \ {SeedFocus})
         /\ loop[s].directions <= MaxDirections
         /\ (task[s].state = "succeeded") <=> Closed(loop[s])
      BY DEF IInv, SeedInv, CountInv, FocusInv, TaskInv
    <2>2. \A d \in Driver : \A s \in Held(d) : Holder(d, s) =>
         /\ Len(steps[s]) = loop[s].count + 1
         /\ steps[s][Current(s)].owner = driver[d][s].epoch
         /\ Holds(d, s, "execute") \/ Holds(d, s, "success") =>
              steps[s][Current(s)].status = "prepared"
      <3> SUFFICES ASSUME NEW d \in Driver, NEW s \in Held(d), Holder(d, s)
                   PROVE  /\ Len(steps[s]) = loop[s].count + 1
                          /\ steps[s][Current(s)].owner = driver[d][s].epoch
                          /\ Holds(d, s, "execute") \/ Holds(d, s, "success") =>
                               steps[s][Current(s)].status = "prepared"
        OBVIOUS
      <3>1. HeldInv(d, s) /\ s \in Seed
        BY DEF IInv, HolderInv, Held
      <3>2. Waiting(s)
        BY <3>1, HolderWaits DEF IInv
      <3> QED
        BY <3>1, <3>2 DEF HeldInv, Waiting
    <2> QED
      BY <2>1, <2>2 DEF StepsCoherent
  <1> QED
    BY <1>1, Inductive, PTL

(* A loop completes only with an accepted query for each capability its    *)
(* seed requires, and the run is analysed only with every loop closed.     *)
THEOREM CoverageIsEarned == Spec => []CoverageEarned
  <1>1. IInv => CoverageEarned
    BY DEF IInv, SeedInv, CoverInv, RunInv, CoverageEarned
  <1> QED
    BY <1>1, Inductive, PTL

-----------------------------------------------------------------------------
(* What a step may never do to the rows of a seed. *)
Kept(s) ==
    /\ \A i \in 1..Len(steps[s]) :
         /\ i <= Len(steps'[s])
         /\ steps[s][i].action # Nothing =>
              /\ steps'[s][i].action = steps[s][i].action
              /\ steps'[s][i].tokens = steps[s][i].tokens
         /\ steps[s][i].status = "accepted" => steps'[s][i] = steps[s][i]
    /\ Closed(loop[s]) => loop'[s] = loop[s]

(* Rows that do not change are kept. *)
LEMMA KeptWhole ==
    ASSUME TypeOK, NEW s \in Seed, loop'[s] = loop[s], steps'[s] = steps[s]
    PROVE  Kept(s)
  <1>1. Len(steps[s]) \in Nat
    BY Rows1
  <1> QED
    BY <1>1 DEF Kept

(* One waiting row is replaced, by one with the action it had, if any. *)
LEMMA KeptReplaced ==
    ASSUME TypeOK, NEW s \in Seed, SeedInv(s), Waiting(s), NEW r \in StepRow,
           steps'[s] = [steps[s] EXCEPT ![Current(s)] = r],
           steps[s][Current(s)].action # Nothing =>
               r.action = steps[s][Current(s)].action /\ r.tokens = steps[s][Current(s)].tokens,
           Closed(loop[s]) => loop'[s] = loop[s]
    PROVE  Kept(s)
  <1>1. Len(steps[s]) \in Nat
    BY Rows1
  <1>2. Current(s) \in 1..Len(steps[s]) /\ steps[s][Current(s)].status # "accepted"
    BY WaitingStep
  <1>3. Len(steps'[s]) = Len(steps[s])
    BY RowReplaced
  <1>4. steps'[s][Current(s)] = r
    <2>1. steps[s] \in Seq(StepRow)
      BY Rows1
    <2> QED
      BY <1>2, <2>1
  <1>5. \A i \in 1..Len(steps'[s]) : i \in 1..Len(steps[s]) /\ (i # Current(s) => steps'[s][i] = steps[s][i])
    BY RowReplaced
  <1>6. ASSUME NEW i \in 1..Len(steps[s])
        PROVE  /\ i <= Len(steps'[s])
               /\ steps[s][i].action # Nothing =>
                    /\ steps'[s][i].action = steps[s][i].action
                    /\ steps'[s][i].tokens = steps[s][i].tokens
               /\ steps[s][i].status = "accepted" => steps'[s][i] = steps[s][i]
    <2>1. CASE i = Current(s)
      BY <1>1, <1>2, <1>3, <1>4, <2>1
    <2>2. CASE i # Current(s)
      BY <1>1, <1>3, <1>5, <2>2
    <2> QED
      BY <2>1, <2>2
  <1> QED
    BY <1>6 DEF Kept

(* A claim resumes the step that waits, or adds one. *)
LEMMA KeptByDispatch ==
    ASSUME IInv, NEW d \in Driver, Dispatch(d), NEW s \in Seed
    PROVE  Kept(s)
  <1>1. TypeOK /\ SeedInv(s) /\ steps[s] \in Seq(StepRow) /\ Len(steps[s]) \in Nat
        /\ lease[s].epoch \in Nat /\ loop[s].count \in Nat
    BY Rows1 DEF IInv, LeaseRow, LoopRow
  <1>2. CASE s \notin Ready
    BY <1>1, <1>2, DispatchEffect, KeptWhole
  <1>3. CASE s \in Ready
    <2>1. ~Closed(loop[s])
      BY <1>1, <1>3, ReadySeeds DEF SeedInv, TaskInv
    <2>2. CASE s \in ClosedNow
      <3>1. steps'[s] = steps[s]
        BY <1>1, <2>2, DispatchEffect
      <3> QED
        BY <1>1, <2>1, <3>1 DEF Kept
    <2>3. CASE s \in Claimed
      <3> DEFINE e == lease[s].epoch + 1
                 r == Resumed(s, e)
      <3>1. e \in Nat
        BY <1>1
      <3> HIDE DEF e
      <3>2. /\ r \in StepRow
            /\ Waiting(s) =>
                 /\ r.action = steps[s][Current(s)].action
                 /\ r.tokens = steps[s][Current(s)].tokens
        BY <1>1, <3>1, ResumedStep
      <3>3. steps'[s] = WithStep(s, r)
        BY <1>1, <2>3, DispatchEffect DEF e
      <3> HIDE DEF r
      <3>w. TypeOK /\ SeedInv(s) /\ r \in StepRow
        BY <1>1, <3>2
      <3>a. steps'[s][loop[s].count + 1] = r /\ Len(steps'[s]) = loop[s].count + 1
        BY <3>3, <3>w, StepAdded
      <3>b. \A i \in 1..Len(steps[s]) : i # loop[s].count + 1 => steps'[s][i] = steps[s][i]
        <4>1. \A i \in 1..Len(steps[s]) : i # loop[s].count + 1 => WithStep(s, r)[i] = steps[s][i]
          BY <3>w, StepAdded, Zenon
        <4> QED
          BY <3>3, <4>1
      <3>4. /\ steps'[s][loop[s].count + 1] = r
            /\ \A i \in 1..Len(steps[s]) : i # loop[s].count + 1 => steps'[s][i] = steps[s][i]
            /\ Len(steps'[s]) = loop[s].count + 1
        BY <3>a, <3>b
      <3>5. /\ Len(steps[s]) <= loop[s].count + 1
            /\ \A i \in 1..Len(steps[s]) : (steps[s][i].status = "accepted") <=> (i <= loop[s].count)
        BY <1>1 DEF SeedInv, CountInv
      <3>6. ASSUME NEW i \in 1..Len(steps[s])
            PROVE  /\ i <= Len(steps'[s])
                   /\ steps[s][i].action # Nothing =>
                        /\ steps'[s][i].action = steps[s][i].action
                        /\ steps'[s][i].tokens = steps[s][i].tokens
                   /\ steps[s][i].status = "accepted" => steps'[s][i] = steps[s][i]
        <4>1. CASE i = loop[s].count + 1
          <5>1. Waiting(s) /\ Current(s) = i
            BY <1>1, <3>5, <4>1 DEF Waiting, Current
          <5>2. steps[s][i].status # "accepted"
            BY <1>1, <3>5, <4>1
          <5> QED
            BY <1>1, <3>2, <3>4, <4>1, <5>1, <5>2
        <4>2. CASE i # loop[s].count + 1
          BY <1>1, <3>4, <3>5, <4>2
        <4> QED
          BY <4>1, <4>2
      <3> QED
        BY <2>1, <3>6 DEF Kept
    <2> QED
      BY <1>3, <2>2, <2>3 DEF Claimed
  <1> QED
    BY <1>2, <1>3

(* A decision replaces a step that had none. *)
LEMMA KeptByDecide ==
    ASSUME IInv, NEW d \in Driver, NEW s \in Seed, Decide(d, s), NEW x \in Seed
    PROVE  Kept(x)
  <1>1. TypeOK /\ SeedInv(s) /\ Holder(d, s) /\ loop' = loop /\ steps[s][Current(s)].status = "deciding"
    BY DEF IInv, Decide, Undecided
  <1>2. PICK a \in Action, tokens \in Tokens :
                  /\ Decided(s, a, tokens) \in StepRow
                  /\ steps'[s] = [steps[s] EXCEPT ![Current(s)] = Decided(s, a, tokens)]
                  /\ \A y \in Seed \ {s} : steps'[y] = steps[y]
    BY <1>1, DecideEffect
  <1>3. CASE x = s
    <2>1. Waiting(s) /\ Current(s) \in 1..Len(steps[s])
      BY <1>1, HolderWaits
    <2>2. steps[s][Current(s)].action = Nothing
      BY <1>1, <2>1 DEF SeedInv, RowInv
    <2> QED
      BY <1>1, <1>2, <1>3, <2>1, <2>2, KeptReplaced
  <1>4. CASE x # s
    BY <1>1, <1>2, <1>4, KeptWhole
  <1> QED
    BY <1>3, <1>4

(* An acceptance touches the steps that wait, of loops that are open. *)
LEMMA KeptByAccept ==
    ASSUME IInv, NEW d \in Driver, Accept(d), NEW s \in Seed
    PROVE  Kept(s)
  <1>1. TypeOK /\ SeedInv(s)
    BY DEF IInv
  <1>2. CASE s \in Valid(d)
    <2>1. steps'[s] = [steps[s] EXCEPT ![Current(s)] = StepAfter(d, s)] /\ Holder(d, s)
      BY <1>1, <1>2, AcceptEffect
    <2>2. Waiting(s) /\ ~Closed(loop[s])
      BY <1>1, <2>1, HolderWaits
    <2>3. /\ StepAfter(d, s) \in StepRow
          /\ StepAfter(d, s).action = steps[s][Current(s)].action
          /\ StepAfter(d, s).tokens = steps[s][Current(s)].tokens
      BY <1>1, <2>2, StepAfterIs
    <2> QED
      BY <1>1, <2>1, <2>2, <2>3, KeptReplaced
  <1>3. CASE s \notin Valid(d)
    BY <1>1, <1>3, AcceptEffect, KeptWhole
  <1> QED
    BY <1>2, <1>3

(* The other actions store nothing about the seeds. *)
Silent ==
    \/ \E d \in Driver : Terminate(d)
    \/ \E d \in Driver : GuardTerminate(d)
    \/ \E d \in Driver, s \in Seed : DecideFails(d, s)
    \/ \E d \in Driver, s \in Seed : DecideTooLate(d, s)
    \/ \E d \in Driver, s \in Seed : Execute(d, s)
    \/ \E d \in Driver, s \in Seed : Fence(d, s)
    \/ Join
    \/ \E s \in Seed : Replan(s)
    \/ \E d \in Driver : Crash(d)
    \/ \E s \in Seed : LeaseLapses(s)
    \/ \E s \in Seed : BackoffElapses(s)
    \/ DeadlinePasses

(* They leave the usage of the run as it is. *)
LEMMA SilentStores ==
    ASSUME TypeOK, Silent
    PROVE  /\ loop' = loop /\ steps' = steps
           /\ run'.tokens = run.tokens /\ run'.cost = run.cost
           /\ run'.state # "failed" => run.state # "failed"
  <1>1. loop' = loop /\ steps' = steps
    BY DEF Silent, Terminate, GuardTerminate, DecideFails, DecideTooLate, Execute, Fence, Join,
           Replan, Crash, LeaseLapses, BackoffElapses, DeadlinePasses, store
  <1>2. \/ run' = run
        \/ run' = [run EXCEPT !.state = "failed"]
        \/ run.state = "researching" /\ run' = [run EXCEPT !.state = "analyzing"]
        \/ run.state = "analyzing" /\ run' = [run EXCEPT !.state = "researching", !.replans = @ + 1]
    BY DEF Silent, Terminate, GuardTerminate, DecideFails, DecideTooLate, Execute, Fence, Join,
           Replan, Crash, LeaseLapses, BackoffElapses, DeadlinePasses, store
  <1>3. run \in RunRow
    BY Rows1
  <1> QED
    BY <1>1, <1>2, <1>3 DEF RunRow

(* Every step is one of those, a dispatch, a decision or an acceptance. *)
LEMMA NextCases ==
    ASSUME Next
    PROVE  \/ Silent
           \/ \E d \in Driver : Dispatch(d)
           \/ \E d \in Driver, s \in Seed : Decide(d, s)
           \/ \E d \in Driver : Accept(d)
  BY DEF Next, Silent

(* An action, once stored, is the one every later holder replays, an *)
(* accepted step never changes and a closed loop never moves again.  *)
THEOREM DecisionsAreKept == Spec => DecisionKept
  <1>1. ASSUME IInv, Next, NEW s \in Seed PROVE Kept(s)
    <2>0. TypeOK
      BY <1>1 DEF IInv
    <2>1. CASE Silent
      BY <2>0, <2>1, SilentStores, KeptWhole
    <2>2. CASE \E d \in Driver : Dispatch(d)
      BY <1>1, <2>2, KeptByDispatch
    <2>3. CASE \E d \in Driver, x \in Seed : Decide(d, x)
      BY <1>1, <2>3, KeptByDecide
    <2>4. CASE \E d \in Driver : Accept(d)
      BY <1>1, <2>4, KeptByAccept
    <2> QED
      BY <1>1, <2>1, <2>2, <2>3, <2>4, NextCases
  <1>2. IInv /\ [Next]_vars => [\A s \in Seed : Kept(s)]_vars
    BY <1>1
  <1>3. DecisionKept <=> [][\A s \in Seed : Kept(s)]_vars
    BY DEF DecisionKept, Kept
  <1> QED
    BY <1>2, <1>3, Inductive, PTL DEF Spec

-----------------------------------------------------------------------------
(* The usage: what steps st record for a set of rows, as the model's sums *)
(* compute it, and as a function of the row.                              *)
TokenFold(st, S, it) ==
    it = [s \in SUBSET S |-> IF s = {} THEN 0
                             ELSE LET x == CHOOSE x \in s : TRUE
                                  IN  st[x[1]][x[2]].tokens + it[s \ {x}]]
CostFold(st, S, it) ==
    it = [s \in SUBSET S |-> IF s = {} THEN 0
                             ELSE LET x == CHOOSE x \in s : TRUE
                                  IN  st[x[1]][x[2]].cost + it[s \ {x}]]
TokensOf(st, S) == (CHOOSE it : TokenFold(st, S, it))[S]
CostOf(st, S) == (CHOOSE it : CostFold(st, S, it))[S]

Price(st) == [p \in Seed \X Nat |-> IF p[2] \in 1..Len(st[p[1]]) THEN st[p[1]][p[2]].tokens ELSE 0]
Fee(st) == [p \in Seed \X Nat |-> IF p[2] \in 1..Len(st[p[1]]) THEN st[p[1]][p[2]].cost ELSE 0]

RowsOf(st) == UNION {{<<s, i>> : i \in 1..Len(st[s])} : s \in Seed}
Upto(s, n) == {<<s, i>> : i \in 1..n}

(* The rows of all seeds are finitely many. *)
LEMMA RowsFinite ==
    ASSUME NEW st \in [Seed -> Seq(StepRow)]
    PROVE  /\ IsFiniteSet(RowsOf(st)) /\ RowsOf(st) \subseteq Seed \X Nat
           /\ \A s \in Seed : \A i : <<s, i>> \in RowsOf(st) <=> i \in 1..Len(st[s])
  <1>1. \A s \in Seed : Len(st[s]) \in Nat
    OBVIOUS
  <1>2. \A n \in Nat : IsFiniteSet(1..n)
    BY FS_Interval
  <1>3. RowsOf(st) = {p \in Seed \X Nat : p[2] \in 1..Len(st[p[1]])}
    BY <1>1 DEF RowsOf
  <1>4. \A s \in Seed : IsFiniteSet({s} \X (1..Len(st[s])))
    BY <1>1, <1>2, FS_Product, FS_Singleton
  <1> DEFINE Parts == {{s} \X (1..Len(st[s])) : s \in Seed}
  <1>5. IsFiniteSet(Parts)
    <2> DEFINE f == [s \in Seed |-> {s} \X (1..Len(st[s]))]
    <2>1. f \in Surjection(Seed, Parts)
      BY DEF Surjection
    <2> HIDE DEF f, Parts
    <2> QED
      BY <2>1, BoundaryAssumption, FS_Surjection
  <1>6. \A T \in Parts : IsFiniteSet(T)
    BY <1>4
  <1>7. IsFiniteSet(UNION Parts)
    BY <1>5, <1>6, FS_UNION
  <1>8. RowsOf(st) \subseteq UNION Parts
    BY <1>1, <1>3
  <1>9. IsFiniteSet(RowsOf(st))
    BY <1>7, <1>8, FS_Subset
  <1> QED
    BY <1>1, <1>3, <1>9

(* Every row has a price and a fee, both natural numbers. *)
LEMMA PricesTyped ==
    ASSUME NEW st \in [Seed -> Seq(StepRow)]
    PROVE  /\ \A p \in Seed \X Nat : Price(st)[p] \in Nat /\ Fee(st)[p] \in Nat
           /\ \A s \in Seed : \A i \in 1..Len(st[s]) :
                 Price(st)[<<s, i>>] = st[s][i].tokens /\ Fee(st)[<<s, i>>] = st[s][i].cost
           /\ \A s \in Seed : \A i \in Nat : i \notin 1..Len(st[s]) =>
                 Price(st)[<<s, i>>] = 0 /\ Fee(st)[<<s, i>>] = 0
  <1>1. \A s \in Seed : \A i \in 1..Len(st[s]) : st[s][i] \in StepRow
    OBVIOUS
  <1>2. \A s \in Seed : \A i \in 1..Len(st[s]) : st[s][i].tokens \in Nat /\ st[s][i].cost \in Nat
    BY <1>1 DEF StepRow
  <1> QED
    BY <1>2 DEF Price, Fee

(* The model's sums are sums. *)
LEMMA TokensSum ==
    ASSUME NEW st \in [Seed -> Seq(StepRow)], NEW S \in SUBSET RowsOf(st)
    PROVE  IsSum(Price(st), S, TokensOf(st, S))
  <1> DEFINE f == Price(st)
  <1>1. IsFiniteSet(S) /\ \A p \in S : f[p] \in Nat
    BY RowsFinite, PricesTyped, FS_Subset
  <1>2. \A p \in S : f[p] = st[p[1]][p[2]].tokens
    BY RowsFinite, PricesTyped
  <1> HIDE DEF f
  <1>3. PICK it \in [SUBSET S -> Nat] : SumsUp(f, S, it)
    BY <1>1, SumExists
  <1>4. TokenFold(st, S, it)
    BY <1>2, <1>3 DEF TokenFold, SumsUp, LastOf
  <1> DEFINE chosen == CHOOSE x : TokenFold(st, S, x)
  <1>5. TokenFold(st, S, chosen)
    BY <1>4, Zenon
  <1>6. TokensOf(st, S) = chosen[S]
    BY DEF TokensOf
  <1> HIDE DEF chosen
  <1>7. SumsUp(f, S, chosen)
    BY <1>2, <1>5 DEF TokenFold, SumsUp, LastOf
  <1> QED
    BY <1>6, <1>7 DEF IsSum, f

(* The same for the costs. *)
LEMMA CostSum ==
    ASSUME NEW st \in [Seed -> Seq(StepRow)], NEW S \in SUBSET RowsOf(st)
    PROVE  IsSum(Fee(st), S, CostOf(st, S))
  <1> DEFINE f == Fee(st)
  <1>1. IsFiniteSet(S) /\ \A p \in S : f[p] \in Nat
    BY RowsFinite, PricesTyped, FS_Subset
  <1>2. \A p \in S : f[p] = st[p[1]][p[2]].cost
    BY RowsFinite, PricesTyped
  <1> HIDE DEF f
  <1>3. PICK it \in [SUBSET S -> Nat] : SumsUp(f, S, it)
    BY <1>1, SumExists
  <1>4. CostFold(st, S, it)
    BY <1>2, <1>3 DEF CostFold, SumsUp, LastOf
  <1> DEFINE chosen == CHOOSE x : CostFold(st, S, x)
  <1>5. CostFold(st, S, chosen)
    BY <1>4, Zenon
  <1>6. CostOf(st, S) = chosen[S]
    BY DEF CostOf
  <1> HIDE DEF chosen
  <1>7. SumsUp(f, S, chosen)
    BY <1>2, <1>5 DEF CostFold, SumsUp, LastOf
  <1> QED
    BY <1>6, <1>7 DEF IsSum, f

(* The sums of the model, now and after the step. *)
LEMMA TotalsAre ==
    /\ \A S : TotalTokens(S) = TokensOf(steps, S) /\ TotalCost(S) = CostOf(steps, S)
    /\ TotalTokens(Rows) = TokensOf(steps, Rows) /\ TotalCost(Rows) = CostOf(steps, Rows)
    /\ Rows = RowsOf(steps)
  <1>1. \A S : TotalTokens(S) = TokensOf(steps, S)
    BY Zenon DEF TotalTokens, MapThenSumSet, MapThenFoldSet, TokenFold, TokensOf
  <1>2. \A S : TotalCost(S) = CostOf(steps, S)
    BY Zenon DEF TotalCost, MapThenSumSet, MapThenFoldSet, CostFold, CostOf
  <1>3. Rows = RowsOf(steps)
    BY DEF Rows, RowsOf
  <1> QED
    BY <1>1, <1>2, <1>3

(* The same after a step. *)
LEMMA TotalsNext ==
    /\ TotalTokens(Rows)' = TokensOf(steps', RowsOf(steps'))
    /\ TotalCost(Rows)' = CostOf(steps', RowsOf(steps'))
    /\ \A s : TotalTokens(Billed(s))' = TokensOf(steps', Billed(s)')
    /\ \A s : TotalCost(Billed(s))' = CostOf(steps', Billed(s)')
  <1>1. Rows' = RowsOf(steps')
    BY DEF Rows, RowsOf
  <1>2. TotalTokens(Rows)' = TokensOf(steps', Rows')
    BY Zenon DEF TotalTokens, MapThenSumSet, MapThenFoldSet, TokenFold, TokensOf
  <1>3. TotalCost(Rows)' = CostOf(steps', Rows')
    BY Zenon DEF TotalCost, MapThenSumSet, MapThenFoldSet, CostFold, CostOf
  <1>4. \A s : TotalTokens(Billed(s))' = TokensOf(steps', Billed(s)')
    BY Zenon DEF TotalTokens, MapThenSumSet, MapThenFoldSet, TokenFold, TokensOf
  <1>5. \A s : TotalCost(Billed(s))' = CostOf(steps', Billed(s)')
    BY Zenon DEF TotalCost, MapThenSumSet, MapThenFoldSet, CostFold, CostOf
  <1> QED
    BY <1>1, <1>2, <1>3, <1>4, <1>5

(* The billed rows of a seed are its first ones. *)
Paid(st, lp, s) == IF Closed(lp[s]) THEN Len(st[s]) ELSE lp[s].count
BilledIn(st, lp, s) ==
    {p \in RowsOf(st) : p[1] = s /\ (st[s][p[2]].status = "accepted" \/ Closed(lp[s]))}
(* They are as many as the loop was charged for. *)
LEMMA BilledAre ==
    ASSUME NEW st \in [Seed -> Seq(StepRow)], NEW lp \in [Seed -> LoopRow], NEW s \in Seed,
           \A i \in 1..Len(st[s]) : (st[s][i].status = "accepted") <=> (i <= lp[s].count),
           lp[s].count <= Len(st[s])
    PROVE  /\ BilledIn(st, lp, s) = Upto(s, Paid(st, lp, s))
           /\ Paid(st, lp, s) \in Nat /\ Paid(st, lp, s) <= Len(st[s])
           /\ Upto(s, Paid(st, lp, s)) \subseteq RowsOf(st)
  <1>1. Len(st[s]) \in Nat /\ lp[s] \in LoopRow
    OBVIOUS
  <1>2. lp[s].count \in Nat
    BY <1>1 DEF LoopRow
  <1> DEFINE n == Paid(st, lp, s)
  <1>3. n \in Nat /\ n <= Len(st[s])
    BY <1>1, <1>2 DEF Paid
  <1>4. \A p \in RowsOf(st) : p = <<p[1], p[2]>>
    BY RowsFinite
  <1>5. \A i : <<s, i>> \in RowsOf(st) <=> i \in 1..Len(st[s])
    BY RowsFinite
  <1>6. \A i \in 1..Len(st[s]) : (st[s][i].status = "accepted" \/ Closed(lp[s])) <=> i <= n
    BY <1>1, <1>2 DEF Paid
  <1> HIDE DEF n
  <1>7. ASSUME NEW p PROVE p \in BilledIn(st, lp, s) => p \in Upto(s, n)
    <2> SUFFICES ASSUME p \in BilledIn(st, lp, s) PROVE p \in Upto(s, n)
      OBVIOUS
    <2>1. p \in RowsOf(st) /\ p = <<s, p[2]>> /\ (st[s][p[2]].status = "accepted" \/ Closed(lp[s]))
      BY <1>4 DEF BilledIn
    <2>2. p[2] \in 1..Len(st[s])
      BY <1>5, <2>1
    <2>3. p[2] \in 1..n
      BY <1>1, <1>3, <1>6, <2>1, <2>2
    <2> QED
      BY <2>1, <2>3 DEF Upto
  <1>8. ASSUME NEW i \in 1..n PROVE <<s, i>> \in BilledIn(st, lp, s) /\ <<s, i>> \in RowsOf(st)
    <2>1. i \in 1..Len(st[s]) /\ i <= n
      BY <1>1, <1>3
    <2> QED
      BY <1>5, <1>6, <2>1 DEF BilledIn
  <1>9. BilledIn(st, lp, s) = Upto(s, n) /\ Upto(s, n) \subseteq RowsOf(st)
    BY <1>7, <1>8 DEF Upto
  <1> QED
    BY <1>3, <1>9 DEF n

(* They are the billed rows of the model, now and after the step. *)
LEMMA BilledIs ==
    /\ \A s : Billed(s) = BilledIn(steps, loop, s)
    /\ \A s : Billed(s)' = BilledIn(steps', loop', s)
  <1>1. \A s : Billed(s) = BilledIn(steps, loop, s)
    BY DEF Billed, BilledIn, Rows, RowsOf, Closed
  <1>2. \A s : Billed(s)' = BilledIn(steps', loop', s)
    BY DEF Billed, BilledIn, Rows, RowsOf, Closed
  <1> QED
    BY <1>1, <1>2

-----------------------------------------------------------------------------
(* The accounts: of the run against t and c in total, of one loop. *)
RunUsage(r, t, c) ==
    /\ r.tokens <= t /\ r.cost <= c
    /\ r.state # "failed" => r.tokens = t /\ r.cost = c
LoopUsage(st, lp, s) ==
    /\ lp[s].tokens = TokensOf(st, BilledIn(st, lp, s))
    /\ lp[s].cost = CostOf(st, BilledIn(st, lp, s))
Counted(st, lp, s) ==
    /\ \A i \in 1..Len(st[s]) : (st[s][i].status = "accepted") <=> (i <= lp[s].count)
    /\ lp[s].count <= Len(st[s])

(* The accounts say what the model's property says, now and after the step. *)
LEMMA AccountsAre ==
    /\ UsageAccounted <=>
          /\ RunUsage(run, TokensOf(steps, RowsOf(steps)), CostOf(steps, RowsOf(steps)))
          /\ \A s \in Seed : LoopUsage(steps, loop, s)
    /\ UsageAccounted' <=>
          /\ RunUsage(run', TokensOf(steps', RowsOf(steps')), CostOf(steps', RowsOf(steps')))
          /\ \A s \in Seed : LoopUsage(steps', loop', s)
  <1>1. UsageAccounted <=>
          /\ RunUsage(run, TokensOf(steps, RowsOf(steps)), CostOf(steps, RowsOf(steps)))
          /\ \A s \in Seed : LoopUsage(steps, loop, s)
    <2>1. UsageAccounted <=>
            /\ RunUsage(run, TotalTokens(Rows), TotalCost(Rows))
            /\ \A s \in Seed : loop[s].tokens = TotalTokens(Billed(s)) /\ loop[s].cost = TotalCost(Billed(s))
      BY DEF UsageAccounted, RunUsage
    <2> QED
      BY <2>1, TotalsAre, BilledIs DEF LoopUsage
  <1>2. UsageAccounted' <=>
          /\ RunUsage(run', TokensOf(steps', RowsOf(steps')), CostOf(steps', RowsOf(steps')))
          /\ \A s \in Seed : LoopUsage(steps', loop', s)
    <2>1. UsageAccounted' <=>
            /\ RunUsage(run', TotalTokens(Rows)', TotalCost(Rows)')
            /\ \A s \in Seed : /\ loop'[s].tokens = TotalTokens(Billed(s))'
                               /\ loop'[s].cost = TotalCost(Billed(s))'
      BY DEF UsageAccounted, RunUsage
    <2> QED
      BY <2>1, TotalsNext, BilledIs DEF LoopUsage
  <1> QED
    BY <1>1, <1>2

(* A loop is charged for one more of its rows, or for none. *)
LEMMA LoopCharged ==
    ASSUME NEW st \in [Seed -> Seq(StepRow)], NEW nt \in [Seed -> Seq(StepRow)],
           NEW lp \in [Seed -> LoopRow], NEW np \in [Seed -> LoopRow], NEW s \in Seed,
           Counted(st, lp, s), Counted(nt, np, s), LoopUsage(st, lp, s),
           NEW n, n = Paid(st, lp, s),
           \A i \in 1..n : nt[s][i].tokens = st[s][i].tokens /\ nt[s][i].cost = st[s][i].cost,
           \/ /\ Paid(nt, np, s) = n
              /\ np[s].tokens = lp[s].tokens /\ np[s].cost = lp[s].cost
           \/ /\ Paid(nt, np, s) = n + 1
              /\ np[s].tokens = lp[s].tokens + nt[s][n + 1].tokens
              /\ np[s].cost = lp[s].cost + nt[s][n + 1].cost
    PROVE  LoopUsage(nt, np, s)
  <1> DEFINE m == Paid(nt, np, s)
             S == Upto(s, n)
             T == Upto(s, m)
  <1>1. /\ BilledIn(st, lp, s) = S /\ n \in Nat /\ n <= Len(st[s]) /\ S \subseteq RowsOf(st)
    BY BilledAre DEF Counted
  <1>2. /\ BilledIn(nt, np, s) = T /\ m \in Nat /\ m <= Len(nt[s]) /\ T \subseteq RowsOf(nt)
    BY BilledAre DEF Counted
  <1>3. /\ IsSum(Price(st), S, lp[s].tokens) /\ IsSum(Fee(st), S, lp[s].cost)
    BY <1>1, TokensSum, CostSum DEF LoopUsage
  <1>4. /\ IsSum(Price(nt), T, TokensOf(nt, T)) /\ IsSum(Fee(nt), T, CostOf(nt, T))
    BY <1>2, TokensSum, CostSum
  <1>5. Len(st[s]) \in Nat /\ Len(nt[s]) \in Nat /\ m \in {n, n + 1}
    OBVIOUS
  <1>6. \A p \in S : Price(st)[p] = Price(nt)[p] /\ Fee(st)[p] = Fee(nt)[p]
    <2>1. \A i \in 1..n : /\ Price(st)[<<s, i>>] = Price(nt)[<<s, i>>]
                          /\ Fee(st)[<<s, i>>] = Fee(nt)[<<s, i>>]
      <3> TAKE i \in 1..n
      <3>1. i \in 1..Len(st[s]) /\ i \in 1..Len(nt[s])
        BY <1>1, <1>2, <1>5
      <3> QED
        BY <3>1, PricesTyped
    <2> QED
      BY <2>1 DEF Upto
  <1>7. S \subseteq Seed \X Nat /\ T \subseteq Seed \X Nat /\ IsFiniteSet(S) /\ IsFiniteSet(T)
    BY <1>1, <1>2, RowsFinite, FS_Subset
  <1>8. \A p \in Seed \X Nat : Price(nt)[p] \in Nat /\ Fee(nt)[p] \in Nat
    BY PricesTyped
  <1>9. CASE m = n
    <2>1. T = S /\ np[s].tokens = lp[s].tokens /\ np[s].cost = lp[s].cost
      BY <1>1, <1>9
    <2>2. TokensOf(nt, T) = lp[s].tokens
      <3> DEFINE f == Price(st)
                 g == Price(nt)
                 x == TokensOf(nt, T)
                 y == lp[s].tokens
      <3>1. IsFiniteSet(S) /\ (\A p \in S : f[p] = g[p]) /\ IsSum(f, S, y) /\ IsSum(g, S, x)
        BY <1>3, <1>4, <1>6, <1>7, <2>1
      <3> HIDE DEF S, T, f, g, x, y
      <3>2. x = y
        BY <3>1, SumUnique
      <3> QED
        BY <3>2 DEF x, y
    <2>3. CostOf(nt, T) = lp[s].cost
      <3> DEFINE f == Fee(st)
                 g == Fee(nt)
                 x == CostOf(nt, T)
                 y == lp[s].cost
      <3>1. IsFiniteSet(S) /\ (\A p \in S : f[p] = g[p]) /\ IsSum(f, S, y) /\ IsSum(g, S, x)
        BY <1>3, <1>4, <1>6, <1>7, <2>1
      <3> HIDE DEF S, T, f, g, x, y
      <3>2. x = y
        BY <3>1, SumUnique
      <3> QED
        BY <3>2 DEF x, y
    <2> QED
      BY <1>2, <2>1, <2>2, <2>3 DEF LoopUsage
  <1>10. CASE m = n + 1
    <2> DEFINE q == <<s, n + 1>>
    <2>1. T = S \cup {q} /\ q \notin S
      BY <1>1, <1>10 DEF Upto
    <2>2. Price(nt)[q] = nt[s][n + 1].tokens /\ Fee(nt)[q] = nt[s][n + 1].cost
      <3>1. n + 1 \in 1..Len(nt[s])
        BY <1>1, <1>2, <1>10
      <3> QED
        BY <3>1, PricesTyped
    <2>3. np[s].tokens = lp[s].tokens + Price(nt)[q] /\ np[s].cost = lp[s].cost + Fee(nt)[q]
      BY <1>1, <1>10, <2>2
    <2>0. lp[s].tokens \in Nat /\ lp[s].cost \in Nat /\ Price(nt)[q] \in Nat /\ Fee(nt)[q] \in Nat
      <3>1. lp[s] \in LoopRow
        OBVIOUS
      <3>2. q \in Seed \X Nat
        BY <1>1
      <3> QED
        BY <1>8, <3>1, <3>2 DEF LoopRow
    <2> HIDE DEF q
    <2>4. TokensOf(nt, T) = lp[s].tokens + Price(nt)[q]
      <3> DEFINE f == Price(st)
                 g == Price(nt)
                 x == TokensOf(nt, T)
                 y == lp[s].tokens
      <3>0. \A p \in T : g[p] \in Nat
        BY <1>7, <1>8
      <3>1. IsFiniteSet(S) /\ (\A p \in S : f[p] = g[p]) /\ IsSum(f, S, y) /\ IsSum(g, T, x)
            /\ (\A p \in S : g[p] \in Nat) /\ q \notin S
        BY <1>3, <1>4, <1>6, <1>7, <2>1, <3>0
      <3>2. y \in Nat /\ g[q] \in Nat
        BY <2>0
      <3> HIDE DEF S, T, f, g, x, y
      <3>3. PICK z : IsSum(g, S, z)
        <4>1. \A p \in S : g[p] \in Nat
          BY <3>1
        <4>2. PICK it \in [SUBSET S -> Nat] : SumsUp(g, S, it)
          BY <3>1, <4>1, SumExists
        <4> QED
          BY <4>2 DEF IsSum
      <3>4. z = y
        BY <3>1, <3>3, SumUnique
      <3>a. IsFiniteSet(S) /\ q \notin S /\ IsSum(g, T, x)
        BY <3>1
      <3>b. NatOn(g, T) /\ T = S \cup {q}
        BY <2>1, <3>0 DEF NatOn
      <3>5. x = g[q] + z
        BY <3>3, <3>a, <3>b, SumAdds
      <3>6. x = y + g[q]
        BY <3>2, <3>4, <3>5
      <3> QED
        BY <3>6 DEF x, y, g
    <2>5. CostOf(nt, T) = lp[s].cost + Fee(nt)[q]
      <3> DEFINE f == Fee(st)
                 g == Fee(nt)
                 x == CostOf(nt, T)
                 y == lp[s].cost
      <3>0. \A p \in T : g[p] \in Nat
        BY <1>7, <1>8
      <3>1. IsFiniteSet(S) /\ (\A p \in S : f[p] = g[p]) /\ IsSum(f, S, y) /\ IsSum(g, T, x)
            /\ (\A p \in S : g[p] \in Nat) /\ q \notin S
        BY <1>3, <1>4, <1>6, <1>7, <2>1, <3>0
      <3>2. y \in Nat /\ g[q] \in Nat
        BY <2>0
      <3> HIDE DEF S, T, f, g, x, y
      <3>3. PICK z : IsSum(g, S, z)
        <4>1. \A p \in S : g[p] \in Nat
          BY <3>1
        <4>2. PICK it \in [SUBSET S -> Nat] : SumsUp(g, S, it)
          BY <3>1, <4>1, SumExists
        <4> QED
          BY <4>2 DEF IsSum
      <3>4. z = y
        BY <3>1, <3>3, SumUnique
      <3>a. IsFiniteSet(S) /\ q \notin S /\ IsSum(g, T, x)
        BY <3>1
      <3>b. NatOn(g, T) /\ T = S \cup {q}
        BY <2>1, <3>0 DEF NatOn
      <3>5. x = g[q] + z
        BY <3>3, <3>a, <3>b, SumAdds
      <3>6. x = y + g[q]
        BY <3>2, <3>4, <3>5
      <3> QED
        BY <3>6 DEF x, y, g
    <2> QED
      BY <1>2, <2>3, <2>4, <2>5 DEF LoopUsage
  <1> QED
    BY <1>5, <1>9, <1>10

(* The invariant in the form that the accounts need. *)
LEMMA CountedAll ==
    ASSUME IInv, NEW s \in Seed
    PROVE  /\ steps \in [Seed -> Seq(StepRow)] /\ loop \in [Seed -> LoopRow] /\ Counted(steps, loop, s)
           /\ TypeOK /\ SeedInv(s)
  BY Rows1 DEF IInv, SeedInv, CountInv, Counted

(* The same after a step. *)
LEMMA CountedNext ==
    ASSUME IInv', NEW s \in Seed
    PROVE  /\ steps' \in [Seed -> Seq(StepRow)] /\ loop' \in [Seed -> LoopRow]
           /\ Counted(steps', loop', s)
  BY Rows1Next DEF IInv, SeedInv, CountInv, Counted

(* A seed whose billed rows and accounts stay. *)
LEMMA LoopUsageKept ==
    ASSUME IInv, IInv', NEW s \in Seed, LoopUsage(steps, loop, s),
           NEW n, n = Paid(steps, loop, s), Paid(steps', loop', s) = n,
           \A i \in 1..n : steps'[s][i].tokens = steps[s][i].tokens /\ steps'[s][i].cost = steps[s][i].cost,
           loop'[s].tokens = loop[s].tokens, loop'[s].cost = loop[s].cost
    PROVE  LoopUsage(steps', loop', s)
  BY CountedAll, CountedNext, LoopCharged

(* A seed that is left alone. *)
LEMMA LoopUsageUntouched ==
    ASSUME IInv, IInv', NEW s \in Seed, LoopUsage(steps, loop, s),
           loop'[s] = loop[s], steps'[s] = steps[s]
    PROVE  LoopUsage(steps', loop', s)
  <1>1. Paid(steps', loop', s) = Paid(steps, loop, s)
    BY DEF Paid
  <1> QED
    BY <1>1, LoopUsageKept

-----------------------------------------------------------------------------
(* More rows with neither price nor fee cost nothing. *)
LEMMA RowsCarry ==
    ASSUME NEW st \in [Seed -> Seq(StepRow)], NEW nt \in [Seed -> Seq(StepRow)],
           RowsOf(st) \subseteq RowsOf(nt),
           \A p \in Seed \X Nat : Price(nt)[p] = Price(st)[p] /\ Fee(nt)[p] = Fee(st)[p]
    PROVE  TokensOf(nt, RowsOf(nt)) = TokensOf(st, RowsOf(st)) /\ CostOf(nt, RowsOf(nt)) = CostOf(st, RowsOf(st))
  <1> DEFINE S == RowsOf(st)
             T == RowsOf(nt)
  <1>1. IsFiniteSet(T) /\ S \in SUBSET T /\ T \subseteq Seed \X Nat /\ T \in SUBSET T /\ S \in SUBSET S
    BY RowsFinite
  <1>2. /\ IsSum(Price(st), S, TokensOf(st, S)) /\ IsSum(Fee(st), S, CostOf(st, S))
        /\ IsSum(Price(nt), T, TokensOf(nt, T)) /\ IsSum(Fee(nt), T, CostOf(nt, T))
    BY <1>1, TokensSum, CostSum
  <1>3. \A p \in T \ S : Price(nt)[p] = 0 /\ Fee(nt)[p] = 0
    <2> TAKE p \in T \ S
    <2>1. p \in Seed \X Nat /\ p = <<p[1], p[2]>> /\ p[1] \in Seed /\ p[2] \in Nat
      BY <1>1
    <2>2. p[2] \notin 1..Len(st[p[1]])
      BY <2>1, RowsFinite
    <2>3. Price(st)[p] = 0 /\ Fee(st)[p] = 0
      BY <2>1, <2>2, PricesTyped
    <2> QED
      BY <2>1, <2>3
  <1>4. NatOn(Price(nt), T) /\ NatOn(Fee(nt), T)
    BY <1>1, PricesTyped DEF NatOn
  <1>5. SameOn(Price(st), Price(nt), S) /\ SameOn(Fee(st), Fee(nt), S)
    BY <1>1 DEF SameOn
  <1> HIDE DEF S, T
  <1>6. TokensOf(nt, T) = TokensOf(st, S)
    <2> DEFINE f == Price(st)
               g == Price(nt)
    <2>1. NatOn(g, T) /\ SameOn(f, g, S) /\ IsSum(f, S, TokensOf(st, S)) /\ IsSum(g, T, TokensOf(nt, T))
          /\ \A p \in T \ S : g[p] = 0
      BY <1>2, <1>3, <1>4, <1>5
    <2> HIDE DEF f, g
    <2> QED
      BY <1>1, <2>1, SumIgnoresZeros
  <1>7. CostOf(nt, T) = CostOf(st, S)
    <2> DEFINE f == Fee(st)
               g == Fee(nt)
    <2>1. NatOn(g, T) /\ SameOn(f, g, S) /\ IsSum(f, S, CostOf(st, S)) /\ IsSum(g, T, CostOf(nt, T))
          /\ \A p \in T \ S : g[p] = 0
      BY <1>2, <1>3, <1>4, <1>5
    <2> HIDE DEF f, g
    <2> QED
      BY <1>1, <2>1, SumIgnoresZeros
  <1> QED
    BY <1>6, <1>7 DEF S, T

(* A dispatch adds steps that have cost nothing yet, and closes a loop only *)
(* when all its steps are accepted.                                         *)
LEMMA UsageDispatch ==
    ASSUME IInv, IInv', UsageAccounted, NEW d \in Driver, Dispatch(d)
    PROVE  UsageAccounted'
  <1>1. /\ TypeOK /\ run' = run
        /\ steps \in [Seed -> Seq(StepRow)] /\ steps' \in [Seed -> Seq(StepRow)]
        /\ loop \in [Seed -> LoopRow] /\ lease \in [Seed -> LeaseRow]
    BY Rows1, Rows1Next DEF IInv, Dispatch
  <1>2. ASSUME NEW s \in Seed
        PROVE  /\ Len(steps[s]) <= Len(steps'[s])
               /\ \A i \in 1..Len(steps[s]) : steps'[s][i].tokens = steps[s][i].tokens
                                              /\ steps'[s][i].cost = steps[s][i].cost
               /\ \A i \in 1..Len(steps'[s]) : i \notin 1..Len(steps[s]) =>
                      steps'[s][i].tokens = 0 /\ steps'[s][i].cost = 0
    <2>0. TypeOK /\ SeedInv(s) /\ Len(steps[s]) \in Nat /\ lease[s].epoch + 1 \in Nat /\ loop[s].count \in Nat
      BY <1>1 DEF IInv, LeaseRow, LoopRow
    <2>1. CASE s \notin Claimed
      <3>1. steps'[s] = steps[s]
        BY <2>0, <2>1, DispatchEffect DEF Claimed
      <3> QED
        BY <2>0, <3>1
    <2>2. CASE s \in Claimed
      <3> DEFINE r == Resumed(s, lease[s].epoch + 1)
                 k == loop[s].count + 1
      <3>1. /\ r \in StepRow
            /\ r.action = Nothing => r.tokens = 0
            /\ ~Waiting(s) => r.action = Nothing /\ r.cost = 0
            /\ Waiting(s) => /\ r.tokens = steps[s][Current(s)].tokens
                             /\ r.cost = steps[s][Current(s)].cost
        BY <2>0, ResumedStep
      <3>2. steps'[s] = WithStep(s, r)
        BY <2>0, <2>2, DispatchEffect
      <3> HIDE DEF r
      <3>3. Len(WithStep(s, r)) = k /\ WithStep(s, r)[k] = r /\ Len(steps[s]) <= Len(WithStep(s, r))
        BY <2>0, <3>1, StepAdded
      <3>4. \A i \in 1..Len(steps[s]) : i # loop[s].count + 1 => WithStep(s, r)[i] = steps[s][i]
        BY <2>0, <3>1, StepAdded, Zenon
      <3>5. loop[s].count <= Len(steps[s]) /\ Len(steps[s]) <= loop[s].count + 1
        BY <2>0 DEF SeedInv, CountInv
      <3>6. k \in 1..Len(steps[s]) => Waiting(s) /\ Current(s) = k
        BY <2>0, <3>5 DEF Waiting, Current
      <3>7. \A i \in 1..Len(steps'[s]) : i \notin 1..Len(steps[s]) => i = k /\ ~Waiting(s)
        BY <2>0, <3>2, <3>3, <3>5 DEF Waiting
      <3> HIDE DEF k
      <3>8. \A i \in 1..Len(steps[s]) : i # k => steps'[s][i] = steps[s][i]
        BY <3>2, <3>4 DEF k
      <3> QED
        BY <3>1, <3>2, <3>3, <3>6, <3>7, <3>8
    <2> QED
      BY <2>1, <2>2
  <1>3. TokensOf(steps', RowsOf(steps')) = TokensOf(steps, RowsOf(steps))
        /\ CostOf(steps', RowsOf(steps')) = CostOf(steps, RowsOf(steps))
    <2> DEFINE st == steps
               nt == steps'
    <2>1. st \in [Seed -> Seq(StepRow)] /\ nt \in [Seed -> Seq(StepRow)]
      BY <1>1
    <2>2. \A s \in Seed : /\ Len(st[s]) \in Nat /\ Len(nt[s]) \in Nat /\ Len(st[s]) <= Len(nt[s])
                          /\ \A i \in 1..Len(st[s]) : nt[s][i].tokens = st[s][i].tokens /\ nt[s][i].cost = st[s][i].cost
                          /\ \A i \in 1..Len(nt[s]) : i \notin 1..Len(st[s]) => nt[s][i].tokens = 0 /\ nt[s][i].cost = 0
      BY <1>1, <1>2
    <2> HIDE DEF st, nt
    <2>3. ASSUME NEW s \in Seed, NEW i \in Nat
          PROVE  Price(nt)[<<s, i>>] = Price(st)[<<s, i>>] /\ Fee(nt)[<<s, i>>] = Fee(st)[<<s, i>>]
      <3>1. CASE i \in 1..Len(st[s])
        <4>1. i \in 1..Len(nt[s])
          BY <2>2, <3>1
        <4> QED
          BY SMTT(30), <2>1, <2>2, <3>1, <4>1, PricesTyped
      <3>2. CASE i \notin 1..Len(st[s]) /\ i \in 1..Len(nt[s])
        <4>1. nt[s][i].tokens = 0 /\ nt[s][i].cost = 0
          BY <2>2, <3>2
        <4> QED
          BY <2>1, <3>2, <4>1, PricesTyped
      <3>3. CASE i \notin 1..Len(st[s]) /\ i \notin 1..Len(nt[s])
        BY SMTT(30), <2>1, <3>3, PricesTyped
      <3> QED
        BY <3>1, <3>2, <3>3
    <2>4. \A p \in Seed \X Nat : Price(nt)[p] = Price(st)[p] /\ Fee(nt)[p] = Fee(st)[p]
      BY <2>3
    <2>5. RowsOf(st) \subseteq RowsOf(nt)
      <3> SUFFICES ASSUME NEW p \in RowsOf(st) PROVE p \in RowsOf(nt)
        OBVIOUS
      <3>1. p = <<p[1], p[2]>> /\ p[1] \in Seed
        BY <2>1, RowsFinite
      <3>2. p[2] \in 1..Len(st[p[1]])
        BY <2>1, <3>1, RowsFinite
      <3>3. p[2] \in 1..Len(nt[p[1]])
        BY <2>2, <3>1, <3>2
      <3> QED
        BY <2>1, <3>1, <3>3, RowsFinite
    <2>6. TokensOf(nt, RowsOf(nt)) = TokensOf(st, RowsOf(st)) /\ CostOf(nt, RowsOf(nt)) = CostOf(st, RowsOf(st))
      BY <2>1, <2>4, <2>5, RowsCarry
    <2> QED
      BY <2>6 DEF st, nt
  <1>4. ASSUME NEW s \in Seed PROVE LoopUsage(steps', loop', s)
    <2>0. LoopUsage(steps, loop, s) /\ SeedInv(s)
      BY AccountsAre DEF IInv
    <2>1. CASE s \notin Ready
      <3>1. loop'[s] = loop[s] /\ steps'[s] = steps[s]
        BY <1>1, <2>1, DispatchEffect
      <3> QED
        BY <2>0, <3>1, LoopUsageUntouched
    <2>2. CASE s \in Ready
      <3> DEFINE n == Paid(steps, loop, s)
      <3>1. ~Closed(loop[s]) /\ n = loop[s].count
        <4>1. ~Closed(loop[s])
          BY <1>1, <2>0, <2>2, ReadySeeds DEF SeedInv, TaskInv
        <4> QED
          BY <4>1 DEF Paid
      <3>2. /\ Ensured(s) \in LoopRow
            /\ Ensured(s).count = loop[s].count /\ Ensured(s).tokens = loop[s].tokens
            /\ Ensured(s).cost = loop[s].cost
            /\ loop[s].status # "none" => Ensured(s) = loop[s]
            /\ loop[s].status = "none" => Ensured(s).status = "active" /\ steps[s] = <<>> /\ loop[s] = NoLoop
        BY <1>1, <2>0, EnsuredLoop
      <3>3. loop[s].count <= Len(steps[s]) /\ Len(steps[s]) <= loop[s].count + 1
            /\ loop[s].count \in Nat /\ Len(steps[s]) \in Nat
        BY <1>1, <2>0 DEF SeedInv, CountInv, LoopRow
      <3>4. /\ loop'[s].tokens = loop[s].tokens /\ loop'[s].cost = loop[s].cost
            /\ Paid(steps', loop', s) = n
        <4>1. CASE s \in ClosedNow
          <5>1. loop'[s] = [Ensured(s) EXCEPT !.status = "exhausted"] /\ steps'[s] = steps[s]
            BY <1>1, <4>1, DispatchEffect
          <5>2. loop'[s].tokens = loop[s].tokens /\ loop'[s].cost = loop[s].cost /\ loop'[s].status = "exhausted"
            BY <3>2, <5>1 DEF LoopRow
          <5>3. ~Waiting(s)
            <6>1. CASE loop[s].status = "none"
              BY <3>2, <6>1 DEF NoLoop, Waiting
            <6>2. CASE loop[s].status # "none"
              BY <2>0, <3>1, <3>2, <4>1, <6>2 DEF ClosedNow, SeedInv, TaskInv
            <6> QED
              BY <6>1, <6>2
          <5>4. Len(steps[s]) = loop[s].count
            BY <3>3, <5>3 DEF Waiting
          <5> QED
            BY <3>1, <5>1, <5>2, <5>4 DEF Paid, Closed
        <4>2. CASE s \in Claimed
          <5>1. loop'[s] = Ensured(s)
            BY <1>1, <4>2, DispatchEffect
          <5>2. ~Closed(loop'[s])
            BY <3>1, <3>2, <5>1 DEF Closed
          <5> QED
            BY <3>1, <3>2, <5>1, <5>2 DEF Paid
        <4> QED
          BY <2>2, <4>1, <4>2 DEF Claimed
      <3>5. \A i \in 1..n : steps'[s][i].tokens = steps[s][i].tokens /\ steps'[s][i].cost = steps[s][i].cost
        BY <1>2, <3>1, <3>3
      <3> HIDE DEF n
      <3>6. n = Paid(steps, loop, s)
        BY DEF n
      <3> QED
        BY <2>0, <3>4, <3>5, <3>6, LoopUsageKept
    <2> QED
      BY <2>1, <2>2
  <1> QED
    BY <1>1, <1>3, <1>4, AccountsAre

(* The actions that store nothing. *)
LEMMA UsageSilent ==
    ASSUME IInv, IInv', UsageAccounted, Silent
    PROVE  UsageAccounted'
  <1>1. /\ loop' = loop /\ steps' = steps
        /\ run'.tokens = run.tokens /\ run'.cost = run.cost
        /\ run'.state # "failed" => run.state # "failed"
    BY SilentStores DEF IInv
  <1> QED
    BY <1>1, AccountsAre DEF RunUsage

-----------------------------------------------------------------------------
(* One row of one seed is not what it was. *)
OnlyRow(st, nt, s, k) ==
    /\ k \in 1..Len(st[s]) /\ Len(nt[s]) = Len(st[s])
    /\ \A i \in 1..Len(st[s]) : i # k => nt[s][i] = st[s][i]
    /\ \A x \in Seed \ {s} : nt[x] = st[x]

(* Rows that stay are the same set of rows. *)
LEMMA RowsStay ==
    ASSUME NEW st \in [Seed -> Seq(StepRow)], NEW nt \in [Seed -> Seq(StepRow)],
           \A s \in Seed : Len(nt[s]) = Len(st[s])
    PROVE  RowsOf(nt) = RowsOf(st)
  BY DEF RowsOf

(* The price of one row changes, and so do the totals. *)
LEMMA RowPriced ==
    ASSUME NEW st \in [Seed -> Seq(StepRow)], NEW nt \in [Seed -> Seq(StepRow)],
           NEW s \in Seed, NEW k, OnlyRow(st, nt, s, k), nt[s][k].cost = st[s][k].cost
    PROVE  /\ TokensOf(st, RowsOf(st)) + nt[s][k].tokens = TokensOf(nt, RowsOf(nt)) + st[s][k].tokens
           /\ CostOf(nt, RowsOf(nt)) = CostOf(st, RowsOf(st))
           /\ TokensOf(nt, RowsOf(nt)) \in Nat /\ TokensOf(st, RowsOf(st)) \in Nat
  <1> DEFINE S == RowsOf(st)
             p0 == <<s, k>>
  <1>1. RowsOf(nt) = S
    BY RowsStay DEF OnlyRow
  <1>2. IsFiniteSet(S) /\ S \subseteq Seed \X Nat /\ S \in SUBSET S /\ p0 \in S
    BY RowsFinite DEF OnlyRow
  <1>3. /\ IsSum(Price(st), S, TokensOf(st, S)) /\ IsSum(Fee(st), S, CostOf(st, S))
        /\ IsSum(Price(nt), S, TokensOf(nt, S)) /\ IsSum(Fee(nt), S, CostOf(nt, S))
    BY <1>1, <1>2, TokensSum, CostSum
  <1>4. \A p \in S : (p = p0 \/ Price(st)[p] = Price(nt)[p]) /\ Fee(st)[p] = Fee(nt)[p]
    <2> TAKE p \in S
    <2>1. p = <<p[1], p[2]>> /\ p[1] \in Seed
      BY <1>2
    <2>2. p[2] \in 1..Len(st[p[1]])
      BY <2>1, RowsFinite
    <2>3. p[2] \in 1..Len(nt[p[1]])
      BY <2>1, <2>2 DEF OnlyRow
    <2>4. /\ Price(st)[p] = st[p[1]][p[2]].tokens /\ Price(nt)[p] = nt[p[1]][p[2]].tokens
          /\ Fee(st)[p] = st[p[1]][p[2]].cost /\ Fee(nt)[p] = nt[p[1]][p[2]].cost
      <3> DEFINE x == p[1]
                 i == p[2]
      <3>1. x \in Seed /\ i \in 1..Len(st[x]) /\ i \in 1..Len(nt[x]) /\ p = <<x, i>>
        BY <2>1, <2>2, <2>3
      <3> HIDE DEF x, i
      <3>2. /\ Price(st)[<<x, i>>] = st[x][i].tokens /\ Price(nt)[<<x, i>>] = nt[x][i].tokens
            /\ Fee(st)[<<x, i>>] = st[x][i].cost /\ Fee(nt)[<<x, i>>] = nt[x][i].cost
        BY <3>1, PricesTyped
      <3> QED
        BY <3>1, <3>2 DEF x, i
    <2>5. CASE p = p0
      BY <2>4, <2>5
    <2>6. CASE p # p0
      <3>1. nt[p[1]][p[2]] = st[p[1]][p[2]]
        BY <2>1, <2>2, <2>6 DEF OnlyRow
      <3> QED
        BY <2>4, <3>1
    <2> QED
      BY <2>5, <2>6
  <1>5. NatOn(Price(st), S) /\ NatOn(Price(nt), S) /\ NatOn(Fee(st), S)
    BY <1>2, PricesTyped DEF NatOn
  <1>6. Price(st)[p0] = st[s][k].tokens /\ Price(nt)[p0] = nt[s][k].tokens
    BY PricesTyped DEF OnlyRow
  <1> HIDE DEF S, p0
  <1>7. TokensOf(st, S) + Price(nt)[p0] = TokensOf(nt, S) + Price(st)[p0]
    <2> DEFINE f == Price(st)
               g == Price(nt)
    <2>1. NatOn(f, S) /\ NatOn(g, S) /\ IsSum(f, S, TokensOf(st, S)) /\ IsSum(g, S, TokensOf(nt, S))
          /\ \A p \in S : p = p0 \/ f[p] = g[p]
      BY <1>3, <1>4, <1>5
    <2> HIDE DEF f, g
    <2>2. TokensOf(st, S) + g[p0] = TokensOf(nt, S) + f[p0]
      BY <1>2, <2>1, SumUpdate
    <2> QED
      BY <2>2 DEF f, g
  <1>8. CostOf(nt, S) = CostOf(st, S)
    <2> DEFINE f == Fee(st)
               g == Fee(nt)
    <2>1. IsSum(f, S, CostOf(st, S)) /\ IsSum(g, S, CostOf(nt, S)) /\ \A p \in S : f[p] = g[p]
      BY <1>3, <1>4
    <2> HIDE DEF f, g
    <2> QED
      BY <1>2, <2>1, SumUnique
  <1>9. TokensOf(nt, S) \in Nat /\ TokensOf(st, S) \in Nat
    <2> DEFINE f == Price(st)
               g == Price(nt)
    <2>1. IsSum(f, S, TokensOf(st, S)) /\ IsSum(g, S, TokensOf(nt, S))
          /\ \A p \in S : f[p] \in Nat /\ g[p] \in Nat
      BY <1>3, <1>5 DEF NatOn
    <2> HIDE DEF f, g
    <2> QED
      BY <1>2, <2>1, SumIsNat
  <1> QED
    BY <1>1, <1>6, <1>7, <1>8, <1>9 DEF S

(* A stored decision is charged to the run, and to no loop yet. *)
LEMMA UsageDecide ==
    ASSUME IInv, IInv', UsageAccounted, NEW d \in Driver, NEW s \in Seed, Decide(d, s)
    PROVE  UsageAccounted'
  <1>1. /\ TypeOK /\ SeedInv(s) /\ Holder(d, s) /\ loop' = loop
        /\ steps[s][Current(s)].status = "deciding"
        /\ steps \in [Seed -> Seq(StepRow)] /\ steps' \in [Seed -> Seq(StepRow)]
        /\ Len(steps[s]) \in Nat /\ run \in RunRow /\ loop[s].count \in Nat
    BY Rows1, Rows1Next DEF IInv, Decide, Undecided, LoopRow
  <1>2. PICK a \in Action, tokens \in Tokens :
                  /\ Decided(s, a, tokens) \in StepRow
                  /\ Decided(s, a, tokens).tokens = tokens
                  /\ Decided(s, a, tokens).cost = steps[s][Current(s)].cost
                  /\ steps'[s] = [steps[s] EXCEPT ![Current(s)] = Decided(s, a, tokens)]
                  /\ \A y \in Seed \ {s} : steps'[y] = steps[y]
                  /\ run' = RunAfterDecision(a, tokens)
    BY <1>1, DecideEffect
  <1>3. tokens \in Nat
    BY BoundaryAssumption
  <1>4. /\ Waiting(s) /\ Current(s) \in 1..Len(steps[s]) /\ Current(s) = loop[s].count + 1
        /\ ~Closed(loop[s])
    BY <1>1, HolderWaits
  <1>5. steps[s][Current(s)].tokens = 0
    BY <1>1, <1>4 DEF SeedInv, RowInv
  <1>6. /\ OnlyRow(steps, steps', s, Current(s))
        /\ steps'[s][Current(s)].tokens = tokens /\ steps'[s][Current(s)].cost = steps[s][Current(s)].cost
    <2> DEFINE r == Decided(s, a, tokens)
               w == steps'[s]
    <2>1. r \in StepRow /\ w = [steps[s] EXCEPT ![Current(s)] = r]
      BY <1>2
    <2>2. w[Current(s)] = r
      BY <1>1, <1>2, <1>4
    <2> HIDE DEF r, w
    <2>3. Len(w) = Len(steps[s])
      BY <1>1, <1>4, <2>1, RowReplaced
    <2>4. \A i \in 1..Len(w) : i \in 1..Len(steps[s]) /\ (i # Current(s) => w[i] = steps[s][i])
      BY <1>1, <1>4, <2>1, RowReplaced
    <2>5. Len(steps'[s]) = Len(steps[s])
          /\ \A i \in 1..Len(steps[s]) : i # Current(s) => steps'[s][i] = steps[s][i]
      BY <2>3, <2>4 DEF w
    <2>6. steps'[s][Current(s)].tokens = tokens /\ steps'[s][Current(s)].cost = steps[s][Current(s)].cost
      BY <1>2, <2>2 DEF r, w
    <2> QED
      BY <1>2, <1>4, <2>5, <2>6 DEF OnlyRow
  <1> DEFINE n == TokensOf(steps, RowsOf(steps))
             m == TokensOf(steps', RowsOf(steps'))
             c == CostOf(steps, RowsOf(steps))
  <1>7. n + tokens = m + 0 /\ CostOf(steps', RowsOf(steps')) = c /\ m \in Nat /\ n \in Nat
    <2> DEFINE st == steps
               nt == steps'
               k == Current(s)
    <2>1. st \in [Seed -> Seq(StepRow)] /\ nt \in [Seed -> Seq(StepRow)] /\ OnlyRow(st, nt, s, k)
          /\ nt[s][k].cost = st[s][k].cost /\ nt[s][k].tokens = tokens /\ st[s][k].tokens = 0
      BY <1>1, <1>5, <1>6
    <2> HIDE DEF st, nt, k
    <2>2. /\ TokensOf(st, RowsOf(st)) + nt[s][k].tokens = TokensOf(nt, RowsOf(nt)) + st[s][k].tokens
          /\ CostOf(nt, RowsOf(nt)) = CostOf(st, RowsOf(st))
          /\ TokensOf(nt, RowsOf(nt)) \in Nat /\ TokensOf(st, RowsOf(st)) \in Nat
      BY <2>1, RowPriced
    <2>3. /\ TokensOf(st, RowsOf(st)) + tokens = TokensOf(nt, RowsOf(nt)) + 0
          /\ CostOf(nt, RowsOf(nt)) = CostOf(st, RowsOf(st))
          /\ TokensOf(nt, RowsOf(nt)) \in Nat /\ TokensOf(st, RowsOf(st)) \in Nat
      BY <2>1, <2>2
    <2> QED
      BY <2>3 DEF st, nt
  <1>8. /\ run'.state \in {run.state, "failed"} /\ run'.cost = run.cost
        /\ \/ run'.tokens = run.tokens + tokens
           \/ run'.state = "failed" /\ run'.tokens = run.tokens
    BY <1>1, <1>2, <1>3, RunAfterDecisionIs
  <1>9. RunUsage(run, n, c)
    BY AccountsAre
  <1> HIDE DEF n, m, c
  <1>10. RunUsage(run', m, c)
    <2>1. run.tokens \in Nat
      BY <1>1 DEF RunRow
    <2>2. run.tokens <= n /\ run.cost <= c /\ (run.state # "failed" => run.tokens = n /\ run.cost = c)
      BY <1>9 DEF RunUsage
    <2>3. n + tokens = m
      BY <1>7
    <2>4. run'.tokens <= m /\ run'.cost <= c
      BY <1>3, <1>7, <1>8, <2>1, <2>2, <2>3
    <2>5. run'.state # "failed" => run'.tokens = m /\ run'.cost = c
      BY <1>8, <2>2, <2>3
    <2> QED
      BY <2>4, <2>5 DEF RunUsage
  <1>11. ASSUME NEW x \in Seed PROVE LoopUsage(steps', loop', x)
    <2>0. LoopUsage(steps, loop, x) /\ loop'[x] = loop[x]
      BY <1>1, AccountsAre
    <2>1. CASE x = s
      <3> DEFINE paid == Paid(steps, loop, s)
      <3>1. paid = loop[s].count /\ Paid(steps', loop', s) = paid
        BY <1>1, <1>4 DEF Paid
      <3>2. \A i \in 1..paid : steps'[s][i].tokens = steps[s][i].tokens /\ steps'[s][i].cost = steps[s][i].cost
        <4>1. \A i \in 1..loop[s].count : i \in 1..Len(steps[s]) /\ i # Current(s)
          BY <1>1, <1>4
        <4> QED
          BY <1>6, <3>1, <4>1 DEF OnlyRow
      <3> HIDE DEF paid
      <3>3. paid = Paid(steps, loop, s) /\ LoopUsage(steps, loop, s)
            /\ loop'[s].tokens = loop[s].tokens /\ loop'[s].cost = loop[s].cost
        BY <2>0, <2>1 DEF paid
      <3> QED
        BY <2>1, <3>1, <3>2, <3>3, LoopUsageKept
    <2>2. CASE x # s
      BY <1>2, <2>0, <2>2, LoopUsageUntouched
    <2> QED
      BY <2>1, <2>2
  <1>12. RunUsage(run', TokensOf(steps', RowsOf(steps')), CostOf(steps', RowsOf(steps')))
    BY <1>7, <1>10 DEF m
  <1> QED
    BY <1>11, <1>12, AccountsAre

-----------------------------------------------------------------------------
(* The fees once the first members T of a batch's order were charged. *)
FeeUpTo(d, T) ==
    [p \in Seed \X Nat |->
        IF p[2] = Current(p[1]) /\ \E i \in T : Listed(d)[i] = p[1]
        THEN Fee(steps)[p] + driver[d][p[1]].cost ELSE Fee(steps)[p]]

(* Whoever of the batch is charged has a row to charge it for. *)
LEMMA ListedRows ==
    ASSUME IInv, NEW d \in Driver, NEW i \in Order(d)
    PROVE  /\ Listed(d)[i] \in Valid(d) /\ Listed(d)[i] \in Seed
           /\ Current(Listed(d)[i]) \in Nat
           /\ <<Listed(d)[i], Current(Listed(d)[i])>> \in RowsOf(steps)
           /\ driver[d][Listed(d)[i]].cost \in Nat
  <1> DEFINE s == Listed(d)[i]
  <1>1. s \in Valid(d) /\ s \in Seed
    BY ValidFinite
  <1> HIDE DEF s
  <1>2. Holder(d, s) /\ SeedInv(s) /\ TypeOK
    BY <1>1 DEF Valid, IInv
  <1>3. Current(s) \in 1..Len(steps[s]) /\ steps \in [Seed -> Seq(StepRow)] /\ driver[d][s] \in HeldRow
    BY <1>1, <1>2, HolderWaits, Rows1
  <1>4. Len(steps[s]) \in Nat
    BY <1>1, <1>3
  <1>5. <<s, Current(s)>> \in RowsOf(steps) /\ Current(s) \in Nat
    BY <1>1, <1>3, <1>4, RowsFinite
  <1>6. driver[d][s].cost \in Nat
    BY <1>3 DEF HeldRow
  <1> QED
    BY <1>1, <1>5, <1>6 DEF s

(* All fees stay natural numbers. *)
LEMMA FeesTyped ==
    ASSUME IInv, NEW d \in Driver, NEW T \in SUBSET Order(d)
    PROVE  \A p \in Seed \X Nat : FeeUpTo(d, T)[p] \in Nat
  <1>1. steps \in [Seed -> Seq(StepRow)] /\ \A s \in Seed : driver[d][s] \in HeldRow
    BY Rows1 DEF IInv
  <1>2. \A s \in Seed : driver[d][s].cost \in Nat
    BY <1>1 DEF HeldRow
  <1>3. \A p \in Seed \X Nat : Fee(steps)[p] \in Nat
    BY <1>1, PricesTyped
  <1> QED
    BY <1>2, <1>3 DEF FeeUpTo

(* One more member of the batch changes one fee. *)
LEMMA FeeCharged ==
    ASSUME IInv, NEW d \in Driver, NEW T \in SUBSET Order(d), NEW x \in T,
           NEW s, s = Listed(d)[x], NEW q, q = <<s, Current(s)>>,
           NEW f, f = FeeUpTo(d, T \ {x}), NEW g, g = FeeUpTo(d, T)
    PROVE  /\ q \in RowsOf(steps) /\ driver[d][s].cost \in Nat
           /\ g[q] = f[q] + driver[d][s].cost
           /\ \A p \in RowsOf(steps) : p = q \/ f[p] = g[p]
  <1>1. x \in Order(d)
    OBVIOUS
  <1>2. s \in Seed /\ q \in RowsOf(steps) /\ Current(s) \in Nat /\ driver[d][s].cost \in Nat
    BY <1>1, ListedRows
  <1>3. \A i \in T : Listed(d)[i] = s => i = x
    BY <1>1, ValidFinite
  <1>4. FeeUpTo(d, T)[q] = Fee(steps)[q] + driver[d][s].cost
    BY <1>2 DEF FeeUpTo
  <1>5. FeeUpTo(d, T \ {x})[q] = Fee(steps)[q]
    BY <1>2, <1>3 DEF FeeUpTo
  <1>6. ASSUME NEW p \in RowsOf(steps), p # q PROVE FeeUpTo(d, T \ {x})[p] = FeeUpTo(d, T)[p]
    <2>1. p \in Seed \X Nat /\ p = <<p[1], p[2]>>
      <3>1. steps \in [Seed -> Seq(StepRow)]
        BY Rows1 DEF IInv
      <3>2. p \in Seed \X Nat
        BY <3>1, RowsFinite
      <3> QED
        BY <3>2
    <2>2. p[2] = Current(p[1]) => p[1] # s
      BY <1>6, <2>1
    <2>3. p[2] = Current(p[1]) => ((\E i \in T : Listed(d)[i] = p[1]) <=> (\E i \in T \ {x} : Listed(d)[i] = p[1]))
      BY <2>2
    <2> QED
      BY <2>1, <2>3 DEF FeeUpTo
  <1> QED
    BY <1>2, <1>4, <1>5, <1>6

(* The run carries what was charged so far, or was ended for an overrun. *)
LEMMA ChargesAdd ==
    ASSUME IInv, NEW d \in Driver, NEW it \in [SUBSET Order(d) -> RunRow], ChargedUp(d, it),
           NEW t \in Nat, RunUsage(run, t, CostOf(steps, RowsOf(steps)))
    PROVE  \A n : IsSum(FeeUpTo(d, Order(d)), RowsOf(steps), n) => RunUsage(it[Order(d)], t, n)
  <1> DEFINE R == RowsOf(steps)
             Bad == {T \in SUBSET Order(d) : \E n : IsSum(FeeUpTo(d, T), R, n) /\ ~RunUsage(it[T], t, n)}
  <1>0. steps \in [Seed -> Seq(StepRow)] /\ run \in RunRow
    BY Rows1 DEF IInv
  <1>1. IsFiniteSet(R) /\ R \subseteq Seed \X Nat /\ R \in SUBSET R
    BY <1>0, RowsFinite
  <1>2. ASSUME Bad # {} PROVE FALSE
    <2>0. Bad \in SUBSET (SUBSET Order(d)) /\ IsFiniteSet(Order(d))
      BY ValidFinite
    <2> HIDE DEF Bad
    <2>1. PICK T \in Bad : \A x \in T : T \ {x} \notin Bad
      BY <1>2, <2>0, SmallestSet
    <2>2. PICK n : T \in SUBSET Order(d) /\ IsSum(FeeUpTo(d, T), R, n) /\ ~RunUsage(it[T], t, n)
      BY DEF Bad
    <2>3. CASE T = {}
      <3> DEFINE f == Fee(steps)
                 g == FeeUpTo(d, T)
                 c == CostOf(steps, R)
      <3>1. IsSum(f, R, c) /\ IsSum(g, R, n)
        BY <1>0, <1>1, <2>2, CostSum
      <3>2. \A p \in R : f[p] = g[p]
        BY <1>1, <2>3 DEF FeeUpTo
      <3> HIDE DEF f, g, R, c
      <3>3. n = c
        BY <1>1, <3>1, <3>2, SumUnique
      <3>4. it[T] = run
        BY <2>2, <2>3 DEF ChargedUp
      <3> QED
        BY <2>2, <3>3, <3>4 DEF c, R
    <2>4. CASE T # {}
      <3> DEFINE x == LastOf(T)
                 U == T \ {x}
                 s == Listed(d)[x]
                 q == <<s, Current(s)>>
                 f == FeeUpTo(d, U)
                 g == FeeUpTo(d, T)
                 c == driver[d][s].cost
      <3>1. x \in T /\ U \in SUBSET Order(d)
        BY <2>2, <2>4 DEF LastOf
      <3>2. /\ q \in R /\ c \in Nat /\ g[q] = f[q] + c
            /\ \A p \in R : p = q \/ f[p] = g[p]
        <4>1. /\ s = Listed(d)[x] /\ q = <<s, Current(s)>> /\ c = driver[d][s].cost
              /\ f = FeeUpTo(d, T \ {x}) /\ g = FeeUpTo(d, T) /\ x \in T /\ T \in SUBSET Order(d)
          BY <2>2, <3>1
        <4> HIDE DEF x, U, s, q, f, g, c
        <4> QED
          BY <4>1, FeeCharged
      <3>3. (\A p \in R : f[p] \in Nat) /\ (\A p \in R : g[p] \in Nat)
        BY <1>1, <2>2, <3>1, FeesTyped
      <3>4. it[T] = Charged(it[U], 0, c) /\ it[U] \in RunRow
        BY <2>2, <2>4, <3>1 DEF ChargedUp
      <3>5. IsSum(g, R, n) /\ U \notin Bad
        BY <2>1, <2>2, <3>1
      <3> HIDE DEF R, x, s, q, f, g, c
      <3>6. PICK m : IsSum(f, R, m)
        <4>1. PICK jt \in [SUBSET R -> Nat] : SumsUp(f, R, jt)
          BY <1>1, <3>3, SumExists
        <4> QED
          BY <4>1 DEF IsSum
      <3>7. RunUsage(it[U], t, m)
        BY <3>1, <3>5, <3>6 DEF Bad, f
      <3>8. m \in Nat /\ n \in Nat
        BY <1>1, <3>3, <3>5, <3>6, SumIsNat
      <3>9. m + g[q] = n + f[q]
        <4>1. NatOn(f, R) /\ NatOn(g, R)
          BY <3>3 DEF NatOn
        <4> QED
          BY <1>1, <3>2, <3>5, <3>6, <4>1, SumUpdate
      <3>10. n = m + c
        BY <3>2, <3>3, <3>8, <3>9
      <3> HIDE DEF U
      <3> DEFINE new == it[T]
                 rest == it[U]
      <3>11. new = Charged(rest, 0, c) /\ rest \in RunRow /\ RunUsage(rest, t, m)
        BY <3>4, <3>7
      <3> HIDE DEF new, rest
      <3>12. \/ new.state = "failed" /\ new.tokens = rest.tokens /\ new.cost = rest.cost
             \/ new.state = rest.state /\ new.tokens = rest.tokens + 0 /\ new.cost = rest.cost + c
        BY <3>2, <3>11, ChargedIs
      <3>13. rest.tokens \in Nat /\ rest.cost \in Nat
        BY <3>11 DEF RunRow
      <3>14. RunUsage(new, t, n)
        BY <3>2, <3>8, <3>10, <3>11, <3>12, <3>13 DEF RunUsage
      <3> QED
        BY <2>2, <3>14 DEF new
    <2> QED
      BY <2>3, <2>4
  <1>3. Order(d) \in SUBSET Order(d)
    OBVIOUS
  <1> QED
    BY <1>2, <1>3

(* The rows as the acceptance leaves them: their fees, and nothing else. *)
LEMMA AcceptedRows ==
    ASSUME IInv, IInv', NEW d \in Driver, Accept(d), NEW s \in Seed
    PROVE  /\ Len(steps'[s]) = Len(steps[s]) /\ Len(steps[s]) \in Nat
           /\ \A i \in 1..Len(steps[s]) :
                 /\ steps'[s][i].tokens = steps[s][i].tokens
                 /\ steps'[s][i].cost = steps[s][i].cost
                       + IF s \in Valid(d) /\ i = Current(s) THEN driver[d][s].cost ELSE 0
                 /\ s \in Valid(d) /\ i = Current(s) => steps'[s][i] = StepAfter(d, s)
  <1>1. TypeOK /\ SeedInv(s) /\ steps[s] \in Seq(StepRow) /\ Len(steps[s]) \in Nat
    BY Rows1 DEF IInv
  <1>2. \A i \in 1..Len(steps[s]) : steps[s][i].cost \in Nat
    <2>1. \A i \in 1..Len(steps[s]) : steps[s][i] \in StepRow
      BY <1>1
    <2> QED
      BY <2>1 DEF StepRow
  <1>3. CASE s \in Valid(d)
    <2> DEFINE r == StepAfter(d, s)
               w == steps'[s]
    <2>1. w = [steps[s] EXCEPT ![Current(s)] = r] /\ Holder(d, s)
      BY <1>1, <1>3, AcceptEffect
    <2>2. Waiting(s) /\ Current(s) \in 1..Len(steps[s])
      BY <1>1, <2>1, HolderWaits
    <2>3. r \in StepRow /\ r.tokens = steps[s][Current(s)].tokens
          /\ r.cost = steps[s][Current(s)].cost + driver[d][s].cost
      BY <1>1, <2>2, StepAfterIs
    <2> HIDE DEF r, w
    <2>4. w[Current(s)] = r
      BY <1>1, <2>1, <2>2
    <2>5. Len(w) = Len(steps[s])
      BY <1>1, <2>1, <2>2, <2>3, RowReplaced
    <2>6. \A i \in 1..Len(w) : i \in 1..Len(steps[s]) /\ (i # Current(s) => w[i] = steps[s][i])
      BY <1>1, <2>1, <2>2, <2>3, RowReplaced
    <2>7. ASSUME NEW i \in 1..Len(steps[s])
          PROVE  /\ w[i].tokens = steps[s][i].tokens
                 /\ w[i].cost = steps[s][i].cost + IF i = Current(s) THEN driver[d][s].cost ELSE 0
                 /\ i = Current(s) => w[i] = r
      <3>1. CASE i = Current(s)
        BY <2>3, <2>4, <3>1
      <3>2. CASE i # Current(s)
        BY <1>2, <2>5, <2>6, <3>2
      <3> QED
        BY <3>1, <3>2
    <2> QED
      BY <1>1, <1>3, <2>5, <2>7 DEF w, r
  <1>4. CASE s \notin Valid(d)
    <2>1. steps'[s] = steps[s]
      BY <1>1, <1>4, AcceptEffect
    <2> QED
      BY <1>1, <1>2, <1>4, <2>1
  <1> QED
    BY <1>3, <1>4

(* The run is charged what the calls of the batch have cost. *)
LEMMA UsageAcceptRun ==
    ASSUME IInv, IInv', NEW d \in Driver, Accept(d),
           RunUsage(run, TokensOf(steps, RowsOf(steps)), CostOf(steps, RowsOf(steps)))
    PROVE  RunUsage(run', TokensOf(steps', RowsOf(steps')), CostOf(steps', RowsOf(steps')))
  <1> DEFINE st == steps
             nt == steps'
             R == RowsOf(steps)
             t == TokensOf(steps, R)
             all == FeeUpTo(d, Order(d))
  <1>1. st \in [Seed -> Seq(StepRow)] /\ nt \in [Seed -> Seq(StepRow)] /\ TypeOK
    BY Rows1, Rows1Next DEF IInv
  <1>2. RowsOf(nt) = R
    <2>1. \A s \in Seed : Len(nt[s]) = Len(st[s])
      BY AcceptedRows
    <2> QED
      BY <1>1, <2>1, RowsStay
  <1>3. IsFiniteSet(R) /\ R \subseteq Seed \X Nat /\ R \in SUBSET R
    BY <1>1, RowsFinite
  <1>4. ASSUME NEW p \in R
        PROVE  Price(nt)[p] = Price(st)[p] /\ Fee(nt)[p] = all[p]
    <2> DEFINE s == p[1]
               i == p[2]
    <2>1. p \in Seed \X Nat /\ p = <<s, i>> /\ s \in Seed
      BY <1>3
    <2>2. i \in 1..Len(st[s]) /\ i \in 1..Len(nt[s])
      BY <1>1, <1>2, <2>1, RowsFinite
    <2>3. /\ Price(st)[p] = st[s][i].tokens /\ Price(nt)[p] = nt[s][i].tokens
          /\ Fee(st)[p] = st[s][i].cost /\ Fee(nt)[p] = nt[s][i].cost
      <3>1. /\ st \in [Seed -> Seq(StepRow)] /\ nt \in [Seed -> Seq(StepRow)]
            /\ s \in Seed /\ i \in 1..Len(st[s]) /\ i \in 1..Len(nt[s]) /\ p = <<s, i>>
        BY <1>1, <2>1, <2>2
      <3> HIDE DEF s, i, st, nt
      <3>2. /\ Price(st)[<<s, i>>] = st[s][i].tokens /\ Price(nt)[<<s, i>>] = nt[s][i].tokens
            /\ Fee(st)[<<s, i>>] = st[s][i].cost /\ Fee(nt)[<<s, i>>] = nt[s][i].cost
        BY <3>1, PricesTyped
      <3> QED
        BY <3>1, <3>2
    <2>4. /\ nt[s][i].tokens = st[s][i].tokens
          /\ nt[s][i].cost = st[s][i].cost + IF s \in Valid(d) /\ i = Current(s) THEN driver[d][s].cost ELSE 0
      BY <2>1, <2>2, AcceptedRows
    <2>5. s \in Valid(d) <=> \E j \in Order(d) : Listed(d)[j] = s
      BY ValidFinite
    <2>6. Fee(st)[p] \in Nat
      BY <1>1, <2>1, PricesTyped
    <2>7. all[p] = IF i = Current(s) /\ s \in Valid(d) THEN Fee(st)[p] + driver[d][s].cost ELSE Fee(st)[p]
      BY <2>1, <2>5 DEF FeeUpTo
    <2> QED
      BY <2>3, <2>4, <2>6, <2>7
  <1>5. /\ IsSum(Price(st), R, t) /\ IsSum(Price(nt), R, TokensOf(nt, R))
        /\ IsSum(Fee(nt), R, CostOf(nt, R))
    BY <1>1, <1>2, <1>3, TokensSum, CostSum
  <1>6. t \in Nat /\ TokensOf(nt, R) = t
    <2> DEFINE f == Price(st)
               g == Price(nt)
    <2>1. IsSum(f, R, t) /\ IsSum(g, R, TokensOf(nt, R)) /\ (\A p \in R : f[p] = g[p]) /\ \A p \in R : f[p] \in Nat
      BY <1>1, <1>3, <1>4, <1>5, PricesTyped
    <2> HIDE DEF f, g, R, t
    <2>2. t \in Nat
      BY <1>3, <2>1, SumIsNat
    <2>3. t = TokensOf(nt, R)
      BY <1>3, <2>1, SumUnique
    <2> QED
      BY <2>2, <2>3
  <1>7. PICK it \in [SUBSET Order(d) -> RunRow] : ChargedUp(d, it) /\ run' = it[Order(d)]
    BY <1>1, AcceptRun
  <1>8. \A n : IsSum(all, R, n) => RunUsage(run', t, n)
    BY <1>6, <1>7, ChargesAdd
  <1>9. IsSum(all, R, CostOf(nt, R))
    <2> DEFINE f == Fee(nt)
    <2>1. IsSum(f, R, CostOf(nt, R)) /\ (\A p \in R : f[p] = all[p]) /\ \A p \in R : all[p] \in Nat
      <3>1. \A p \in R : all[p] \in Nat
        BY <1>3, FeesTyped
      <3> QED
        BY <1>4, <1>5, <3>1
    <2> HIDE DEF f, all, R
    <2>2. PICK jt \in [SUBSET R -> Nat] : SumsUp(all, R, jt)
      BY <1>3, <2>1, SumExists
    <2>3. IsSum(all, R, jt[R])
      BY <2>2 DEF IsSum
    <2>4. CostOf(nt, R) = jt[R]
      BY <1>3, <2>1, <2>3, SumUnique
    <2> QED
      BY <2>3, <2>4
  <1> QED
    BY <1>2, <1>6, <1>8, <1>9

(* What an accepted step costs its loop. *)
LEMMA AdvancedCharge ==
    ASSUME TypeOK, NEW s \in Seed, SeedInv(s), Waiting(s), NEW c \in Nat, NEW found \in BOOLEAN,
           steps[s][Current(s)].action # Nothing, NEW l, l = Advanced(s, c, found)
    PROVE  /\ l.count = loop[s].count + 1
           /\ l.tokens = loop[s].tokens + steps[s][Current(s)].tokens
           /\ l.cost = loop[s].cost + steps[s][Current(s)].cost + c
  <1> DEFINE a == steps[s][Current(s)].action
  <1>1. a = steps[s][Current(s)].action /\ a # Nothing
    OBVIOUS
  <1> HIDE DEF a
  <1>2. /\ l \in LoopRow
        /\ l.count = loop[s].count + 1 /\ l.next = loop[s].next + 1
        /\ l.foci = IF NewFocus(s, a) THEN loop[s].foci \cup {a.arg} ELSE loop[s].foci
        /\ l.directions = IF NewFocus(s, a) THEN loop[s].directions + 1 ELSE loop[s].directions
        /\ l.coverage = IF a.kind = "query" THEN loop[s].coverage \cup {a.arg} ELSE loop[s].coverage
        /\ l.evidence = (loop[s].evidence \/ found)
        /\ l.tokens = loop[s].tokens + steps[s][Current(s)].tokens
        /\ l.cost = loop[s].cost + steps[s][Current(s)].cost + c
        /\ l.status \in {"completed", "exhausted", "active"}
        /\ l.status = "completed" => GuardAccepts(s, a.arg)
    BY <1>1, AdvancedLoop
  <1> QED
    BY <1>2

(* A loop is charged the step that was accepted, or given up on. *)
LEMMA UsageAcceptLoop ==
    ASSUME IInv, IInv', NEW d \in Driver, Accept(d), NEW s \in Seed, LoopUsage(steps, loop, s)
    PROVE  LoopUsage(steps', loop', s)
  <1>1. TypeOK /\ SeedInv(s) /\ driver[d][s] \in HeldRow /\ loop[s].count \in Nat /\ loop[s] \in LoopRow
    BY Rows1 DEF IInv, LoopRow
  <1>2. CASE s \notin Valid(d)
    BY <1>1, <1>2, AcceptEffect, LoopUsageUntouched
  <1>3. CASE s \in Valid(d)
    <2> DEFINE h == driver[d][s]
               old == steps[s][Current(s)]
               n == loop[s].count
               l == loop'[s]
    <2>1. loop'[s] = LoopAfter(d, s) /\ Holder(d, s) /\ h.stage \in {"success", "transient", "refused"}
      BY <1>1, <1>3, AcceptEffect
    <2>2. /\ Waiting(s) /\ ~Closed(loop[s]) /\ Current(s) \in 1..Len(steps[s]) /\ Current(s) = n + 1
          /\ Len(steps[s]) = n + 1 /\ old \in StepRow
      BY <1>1, <2>1, HolderWaits DEF Waiting
    <2>3. n = Paid(steps, loop, s)
      BY <2>2 DEF Paid
    <2>4. /\ Len(steps'[s]) = Len(steps[s])
          /\ \A i \in 1..n : steps'[s][i].tokens = steps[s][i].tokens /\ steps'[s][i].cost = steps[s][i].cost
      <3>1. \A i \in 1..n : i \in 1..Len(steps[s]) /\ i # Current(s)
        BY <1>1, <2>2
      <3>2. \A i \in 1..Len(steps[s]) : i \in 1..Len(steps[s]) => steps[s][i] \in StepRow
        BY <1>1, Rows1
      <3>3. \A i \in 1..Len(steps[s]) : steps[s][i].cost \in Nat
        BY <3>2 DEF StepRow
      <3>4. \A i \in 1..n : /\ steps'[s][i].tokens = steps[s][i].tokens
                            /\ steps'[s][i].cost = steps[s][i].cost + 0
        BY <3>1, AcceptedRows
      <3> QED
        BY <3>1, <3>3, <3>4, AcceptedRows
    <2>5. /\ steps'[s][n + 1].tokens = old.tokens
          /\ steps'[s][n + 1].cost = old.cost + h.cost
      BY <1>3, <2>2, AcceptedRows
    <2>6. h.cost \in Nat /\ h.found \in BOOLEAN /\ old.cost \in Nat /\ old.tokens \in Nat
          /\ loop[s].tokens \in Nat /\ loop[s].cost \in Nat
      BY <1>1, <2>2 DEF HeldRow, StepRow, LoopRow
    <2>7. \/ /\ Paid(steps', loop', s) = n
             /\ l.tokens = loop[s].tokens /\ l.cost = loop[s].cost
          \/ /\ Paid(steps', loop', s) = n + 1
             /\ l.tokens = loop[s].tokens + steps'[s][n + 1].tokens
             /\ l.cost = loop[s].cost + steps'[s][n + 1].cost
      <3>1. CASE h.stage = "success"
        <4>1. l = Advanced(s, h.cost, h.found)
          BY <2>1, <3>1 DEF LoopAfter
        <4>2. old.action # Nothing
          <5>1. old.status = "prepared"
            BY <1>3, <2>1, <3>1 DEF IInv, HolderInv, HeldInv, Valid, Holds
          <5> QED
            BY <1>1, <2>2, <5>1 DEF SeedInv, RowInv
        <4> HIDE DEF l, h
        <4>3. /\ l.count = n + 1 /\ l.tokens = loop[s].tokens + old.tokens
              /\ l.cost = loop[s].cost + old.cost + h.cost
          <5>1. TypeOK /\ SeedInv(s) /\ Waiting(s) /\ h.cost \in Nat /\ h.found \in BOOLEAN
                /\ steps[s][Current(s)].action # Nothing
            BY <1>1, <2>2, <2>6, <4>2
          <5> HIDE DEF old, n
          <5>2. /\ l.count = loop[s].count + 1
                /\ l.tokens = loop[s].tokens + steps[s][Current(s)].tokens
                /\ l.cost = loop[s].cost + steps[s][Current(s)].cost + h.cost
            BY <4>1, <5>1, AdvancedCharge
          <5> QED
            BY <5>2 DEF old, n
        <4>4. Paid(steps', loop', s) = n + 1
          BY <2>2, <2>4, <4>3 DEF Paid, l
        <4> QED
          BY <2>5, <2>6, <4>3, <4>4
      <3>2. CASE h.stage # "success" /\ Retries(s, h.stage)
        <4>1. l = loop[s]
          BY <2>1, <3>2 DEF LoopAfter
        <4>2. Paid(steps', loop', s) = n
          BY <2>2, <4>1 DEF Paid
        <4> QED
          BY <4>1, <4>2
      <3>3. CASE h.stage # "success" /\ ~Retries(s, h.stage)
        <4>1. l = GivenUp(s, h.cost)
          BY <2>1, <3>3 DEF LoopAfter
        <4> HIDE DEF l, h
        <4>2. /\ GivenUp(s, h.cost).status = "exhausted"
              /\ GivenUp(s, h.cost).tokens = loop[s].tokens + old.tokens
              /\ GivenUp(s, h.cost).cost = loop[s].cost + old.cost + h.cost
          BY <1>1, <2>2, <2>6, GivenUpLoop
        <4>3. Paid(steps', loop', s) = n + 1
          BY <2>2, <2>4, <4>1, <4>2 DEF Paid, Closed, l
        <4> QED
          BY <2>5, <2>6, <4>1, <4>2, <4>3
      <3> QED
        BY <3>1, <3>2, <3>3
    <2> HIDE DEF n
    <2>8. /\ steps \in [Seed -> Seq(StepRow)] /\ loop \in [Seed -> LoopRow] /\ Counted(steps, loop, s)
          /\ steps' \in [Seed -> Seq(StepRow)] /\ loop' \in [Seed -> LoopRow] /\ Counted(steps', loop', s)
      BY CountedAll, CountedNext
    <2> QED
      BY <2>3, <2>4, <2>7, <2>8, LoopCharged
  <1> QED
    BY <1>2, <1>3

(* The acceptance of a batch charges its seeds' loops and the run alike. *)
LEMMA UsageAccept ==
    ASSUME IInv, IInv', UsageAccounted, NEW d \in Driver, Accept(d)
    PROVE  UsageAccounted'
  BY AccountsAre, UsageAcceptRun, UsageAcceptLoop

-----------------------------------------------------------------------------
(* Nothing was charged at first, and there is nothing to charge. *)
LEMMA UsageInit ==
    ASSUME Init
    PROVE  UsageAccounted
  <1>1. IInv /\ steps \in [Seed -> Seq(StepRow)] /\ loop \in [Seed -> LoopRow]
    BY InitKeeps, Rows1 DEF IInv
  <1>2. \A s \in Seed : steps[s] = <<>> /\ loop[s] = NoLoop
    BY DEF Init
  <1>3. RowsOf(steps) = {}
    <2>1. \A s \in Seed : Len(steps[s]) = 0
      BY <1>2
    <2> QED
      BY <2>1 DEF RowsOf
  <1>4. TokensOf(steps, {}) = 0 /\ CostOf(steps, {}) = 0
    <2> DEFINE f == Price(steps)
               g == Fee(steps)
               E == {}
    <2>1. IsSum(f, E, TokensOf(steps, E)) /\ IsSum(g, E, CostOf(steps, E))
      BY <1>1, <1>3, TokensSum, CostSum
    <2>2. IsFiniteSet(E) /\ (\A p \in E : f[p] \in Nat) /\ (\A p \in E : g[p] \in Nat)
      BY FS_EmptySet
    <2>3. E = {}
      OBVIOUS
    <2> HIDE DEF f, g, E
    <2>4. TokensOf(steps, E) = 0 /\ CostOf(steps, E) = 0
      BY <2>1, <2>2, <2>3, SumIsNat
    <2> QED
      BY <2>3, <2>4
  <1>5. \A s \in Seed : BilledIn(steps, loop, s) = {}
    BY <1>3 DEF BilledIn
  <1>6. run.tokens = 0 /\ run.cost = 0 /\ \A s \in Seed : loop[s].tokens = 0 /\ loop[s].cost = 0
    BY <1>2 DEF Init, NoLoop
  <1> QED
    BY <1>3, <1>4, <1>5, <1>6, AccountsAre DEF RunUsage, LoopUsage

(* Usage is accepted exactly once: the run was charged what its steps      *)
(* record, a loop its accepted steps and the one it was given up on,       *)
(* however often a step was replayed.                                      *)
THEOREM UsageIsAccounted == Spec => []UsageAccounted
  <1>1. Init => IInv /\ UsageAccounted
    BY InitKeeps, UsageInit
  <1>2. ASSUME IInv, UsageAccounted, [Next]_vars PROVE (IInv /\ UsageAccounted)'
    <2>1. IInv'
      BY <1>2, NextKeeps
    <2>2. CASE UNCHANGED vars
      <3>1. steps' = steps /\ loop' = loop /\ run' = run
        BY <2>2 DEF vars, store
      <3> QED
        BY <1>2, <2>1, <3>1, AccountsAre
    <2>3. CASE Silent
      BY <1>2, <2>1, <2>3, UsageSilent
    <2>4. CASE \E d \in Driver : Dispatch(d)
      BY <1>2, <2>1, <2>4, UsageDispatch
    <2>5. CASE \E d \in Driver, s \in Seed : Decide(d, s)
      BY <1>2, <2>1, <2>5, UsageDecide
    <2>6. CASE \E d \in Driver : Accept(d)
      BY <1>2, <2>1, <2>6, UsageAccept
    <2> QED
      BY <1>2, <2>1, <2>2, <2>3, <2>4, <2>5, <2>6, NextCases
  <1> QED
    BY <1>1, <1>2, PTL DEF Spec
=============================================================================
