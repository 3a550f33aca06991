# A verification of the agents workspace

This directory holds TLA+ models of the three Python packages of the workspace,
`agents_orchestration`, `agents_memory` and `agents_rag`: what their durable
state may become under concurrency, crashes and failing providers, which
properties TLC checks on small instances, and what TLAPS proves for every
instance. `PROJECT.json` relates each definition to the lines it models.

Paths below are abbreviated: `A/` is `src/agents_orchestration/src/agents_orchestration/`,
`M/` is `src/agents_memory/src/agents_memory/`, `R/` is `src/agents_rag/src/agents_rag/`.

## 1. The system

### agents_orchestration: durable research runs

| component | state | operations | hard behaviour | what makes it correct |
|---|---|---|---|---|
| task runtime (`A/runtime/tick.py`, `core.py`, `lease.py`, `recovery.py`, `attempt.py`, `watch.py`) | `tasks`, `attempts`, `leases` and the runs row in SQLite; a dispatched batch in process memory | a tick: recover, readmit retries, dispatch a batch, execute it, accept its outcomes; `watch` ticks run after run | two transactions with an execution between them, several processes, lapsed leases, late results, crashes | one accepted attempt per task, fencing by lease epoch, dependencies first, nothing dispatched is lost (but for the sweep of another run's tick) |
| run lifecycle (`A/orchestration/coordinator.py`, `phases.py`, `A/application/service.py`, `A/domain/lifecycle.py`) | the runs row (state, `state_version`, plan version, counters), phase history | `advance()`: load, ask a provider, load again, commit; pause, resume, cancel | answers that come back after the run has moved, idle budget, ticks that know no run state | no stale answer takes effect, commands stand, a drive of the run returns |
| human gates (`A/orchestration/gates.py`, `gate_responses.py`) | `gates` | open, answer, cancel on drift | a gate bound to a version or candidate that has changed; two gates for one version | only what a human approved is executed, one decision per version |
| plan acceptance and replan (`A/orchestration/planner.py`, `replan.py`, `focused_replan.py`, `A/domain/plan.py`) | `plan_versions`, tasks and dependencies of each version | accept, supersede, promote tasks, validate | a candidate rewritten while it is being approved | replan budget, immutable boundary |
| agent-loop research (`A/runtime/tick.py` 329-1213, `A/orchestration/research_agent_loop.py`, `A/domain/research_loop.py`) | loops, steps, directions, evidence | prepare, decide, persist the action, execute, accept, close | three transactions per step, replays of a prepared action, two budgets, a batch whose slowest call lets the others' leases lapse | usage is charged once, a decision is kept, coverage is earned, every seed is done in the end |
| sufficiency, review, completion (`A/orchestration/sufficiency.py`, `report.py`, `goal.py`, the model ports) | none | one call of a model, a verdict | answers that name no verdict, calls that fail | each verdict leads where the budgets allow |
| branches and join (`A/orchestration/branches.py`, `multi_source_handler.py`, `A/domain/evidence.py`) | none | pure fan-out and join | partial and conflicting evidence | the join is independent of order |
| capabilities, workers, adapters (`A/capabilities`, `A/workers`, `A/adapters`) | none | selection, one call each | failing providers | the cheapest eligible capability |
| durable store (`A/runtime/persistence`) | SQLite | compare-and-set saves, unit of work | write skew | versions are compared |
| composition, CLI, configuration, observability | none | wiring, output | - | - |

### agents_memory: long-term memory

| component | state | operations | hard behaviour | what makes it correct |
|---|---|---|---|---|
| write and store (`M/pipeline/write.py`, `M/storage/coordinator.py`, `repository.py`, `vector.py`, `M/retrieval/lookup.py`) | SQLite: memories, relations, requests, outbox; Chroma: derived index | write, delete, repair, rebuild | plans made without a lock, an index that lags behind, retries that overlap their first call, failures one operation at a time | no active memory drops out of index and outbox, a request takes effect once, a memory has one successor, the index can be trusted after a success |
| pending resolution (`M/processing/reconciliation.py`, `deferred.py`, `pending.py`) | `pending_resolutions` | defer, resolve, expire, make obsolete, clean up | items, candidates and memories read before the models are asked and used after; sweep, clean-up and other writes in between | an item that ends without an answer leaves nothing behind, and ends for a cause |
| decisions (`M/processing/decision.py`, `candidate.py`, `temporal.py`) | none | pure | - | total and deterministic |
| recall (`M/pipeline/recall.py`, `M/recall`) | process memory only (a log of recalls) | twelve stages: intent, index, SQL reads, relations, filter, scores, groups, selection, last check | no transaction spans the stages; the index lags behind; parts fail and the answer degrades | closed lanes stay closed, nothing is missed, nothing is told twice or quoted after its deletion |
| providers, service, CLI | none | calls, wiring | failing providers | - |

### agents_rag: retrieval over a directory

| component | state | operations | hard behaviour | what makes it correct |
|---|---|---|---|---|
| incremental ingest (`R/pipeline/ingest.py`, `R/ingestion`) | registry, five stores written one after the other, BM25 in memory until the end | scan, diff, new, update, move, delete | edits during a run, exceptions and crashes between any two writes, order of actions | registry and indexes agree but for what a fault caught halfway, updates leave no gap, undisturbed runs settle the tree |
| indexes, image store (`R/indexing`) | Chroma, BM25, parents, images | put and delete per document | images shared by documents | an indexed image can be fetched |
| parsing, cleaning, chunking | none | fallback chain, chunks | failing parsers | nothing is lost between chunks |
| query, generation, citation | none | stateless | - | fusion, budgets |
| CLI, evaluation, configuration | none | wiring | - | - |

How they interact: the orchestrator calls memory and RAG through adapters, as
capabilities of a research task; they share no state. Inside each package the
processes meet only in SQLite (and, in the other two, in Chroma and files), so
a model of a package is a model of its store, of the process memory that lives
from one transaction to the next, and of the calls in between.

## 2. Modules

| module | models | abstracts |
|---|---|---|
| `TaskRuntime` | one store of runs, tasks, attempts and leases, ticked by several drivers | provider calls to their outcome, time to what is compared with it |
| `TaskOutcomes` | the promise of the task runtime: each task is decided once, for good, dependencies first | attempts, leases, drivers, time |
| `TaskRuntimeProofs` | theorems about `TaskRuntime` | - |
| `RunLifecycle` | one run: the coordinator, its phases and their verdicts, plans, gates, commands and ticks | the tasks to counts, the contents of provider answers to the verdict they give |
| `RunLifecycleProofs` | theorems about `RunLifecycle` | - |
| `AgentLoop` | the research loops of the seeds of an agent-loop plan: dispatch, decision, execution, acceptance, join and replan | actions to what the guard and the budgets look at |
| `AgentLoopProofs` | theorems about `AgentLoop` | - |
| `MemoryStore` | SQLite, the outbox and Chroma of the memory, used by several calls | one scope and type, what the models answer |
| `MemoryStoreProofs` | theorems about `MemoryStore` | - |
| `SequenceLemmas` | what `FlattenSeq`, folds over finite sets, sums and `SetToSeq` return, for the proofs about `MemoryStore`, `AgentLoop` and `PendingResolution` | - |
| `PendingResolution` | the deferred event assertions and the writes that reconsider them | an assertion to the message that states it, times to being past the expiry |
| `PendingResolutionProofs` | theorems about `PendingResolution` | - |
| `Recall` | one recall, stage by stage, among writers | similarity, utility and scores to any choice |
| `RecallProofs` | theorems about `Recall` | - |
| `RagIngest` | one ingest process, its five stores and the directory being edited | a content to a name that is also its `doc_id` |
| `RagIngestProofs` | theorems about `RagIngest` | - |

`MC<module>` gives each of them values for TLC. `RunLifecycle` contains the
tick as the lifecycle sees it, `TaskRuntime` and `AgentLoop` are that tick in
full for the two kinds of plan; `PendingResolution` is the planning half of a
write whose storing half is `MemoryStore`. They are checked apart: composed,
each would only multiply the other's states, and what one takes from the other
(a task is held or not, a commit applies or rolls back) is an action of both.

### TaskRuntime

Every claim of a task opens one lease epoch and one attempt, so `leases[t]` and
`attempts[t]` are sequences by epoch. `Dispatch` is the whole first transaction
of `tick()`: the sweep of lapsed leases of all runs, the requeueing of the
ticked run's tasks, the readmission of elapsed retries, the selection by depth
and the new leases and attempts. When nothing is ready the code leaves without
a commit, so there is no such step. `Accept` is the whole second transaction:
all outcomes of the batch, each validated against lease and attempt
(`Accepted`), the retry decision (`StateAfter`), the lease and the budget.
`Terminate` is the tick of a run over its budget or deadline. `Pause`, `Resume`
and `Cancel` come from other processes. `driver` is what a process holds between
the transactions; `Crash` loses it. Wall-clock time is three sets of flags:
`lapsed`, `backedOff`, `overdue`. A task is `Stranded` when it is dispatched and
has no active lease: no result for it is accepted, and no sweep finds it.

Not in the module: agent-loop tasks (`AgentLoop`), plan versions (a run keeps
one plan; `RunLifecycle` has the others), and workers' internals.

### RunLifecycle

`call[d]` is the local state of `drive_run` in driver `d`: `out` of any drive,
`idle` between two advances, or inside `advance()`. A drive goes on after
PROGRESSED and after an IDLE that asks for it (`more`), and returns on TERMINAL,
BLOCKED, any other IDLE and an exception (`AtRest`, `Return`); `GiveUp` is the
end of `max_advances`, or a command that asks for one advance. `Begin` is the first
load with its early returns, `Answer` the provider's answer together with the
second load and the classification as stale, the `Commit...` actions and
`Observe` the transaction each disposition ends in, `RollBack` the exceptions
of the compare-and-set saves. `CommitReplan` has every end of a replan: the new
plan is stored; the validator refuses it, or the plan of that version has another
boundary, whereupon the ValueError rolls all of it back, the idle observation
included, and leaves the drive. What a handler may answer is computed from what
its models may say: `PortAnswers` (a call that fails or does not parse idles),
`SufficiencyVerdict`, `ReviewVerdict` with `VerdictAnswer`, and `Completion`
with `Ending` for the finalizer. The tick inside the research phase is
`TickTerminate`, `TickDispatch` and `TickAccept`; it reads the run again and may
find one that has moved. `TickAccept` bumps the version once per held task, as
the code does per consumed usage. The `Respond...` actions are the paths of
`respond_gate`, in the order the code tries them: drift, closed or lapsed,
stale binding, continuation.

Choices: dependencies, leases and slow holders are TaskRuntime's; the plan
version captured in `CapturedVersions` moves only with the state version and is
not kept apart; `approval_required` is an option of a process's composition, False
by default, so `ApprovalRequired` is the set of drivers that have it. Left out: the reconciliation of legacy task rows,
gate answers that `resolve_gate_continuation` cannot map, and the exhausted-replan
branch of the gap answer (a gap gate is only bound while some budget is left).

### AgentLoop

`loop[s]` and `steps[s]` are the rows of a seed, `lease[s]` its newest lease and
attempt (an older holder is one whose `epoch` is smaller), `driver[d]` the batch
of a tick. `Ready` is the batch: the first `MaxConcurrency` of the `Runnable`
seeds in their `Rank`, by depth and id; a seed that the tick recovers and has no
room for is left pending or ready. `Dispatch` is the whole first transaction, with the closing of loops
that cannot pay for one more decision and the step each claim works on
(`Resumed`: a new one, or the unaccepted one the loop is at, whose stored action
is replayed). `Decide` is the model's answer together with the transaction that
stores it as PREPARED and charges its reasoning; `DecideFails`,
`DecideTooLate` and `Fence` are the ways a holder is left without a result;
`Execute` is the call of the capability. `Accept` is the whole third
transaction: every held seed, in any order of the charges, through
`Advanced` (with the `LoopGuard`), `Retries` and `GivenUp`. `Join` and `Replan`
are the phase around the loops, `Terminate` and `GuardTerminate` the two places
that end a run past its deadline or budget: the tick and, before it, the advance.

Abstracted: reasoning costs only tokens and a capability only money, so that
the two budgets are told apart; evidence is whether a loop has some of its own;
a query that repeats an earlier one, the wording of directions and the other
checks of `ActionValidator` on the text of an answer are refusals like any other
(`DecideFails`). Pause and cancel are RunLifecycle's.

### MemoryStore

`proc[p]` is what a call keeps in its local variables. `Write` is the lookup of
the request. Each candidate of a batch is two steps, as its lookup is two reads:
`Query` asks the index (`hits`), and `PlanCandidate` reads the active memories with
an outstanding operation (`Owed`) and plans a new memory with the memories it
replaces, chosen among what both found and the overlay of the batch. Others run
between the two. `Commit` is the one transaction. `ListOps`, `Fetch`, `Apply`, `Mark`
and `Finish` are `_finish_sync` (and the same loop for deletions), with every
read, network call and write a step of its own; the operations a call goes
through are the set `todo`, taken in the order of their ids (`Due`). `RebuildRead`, `RebuildScan` and
`RebuildStep` are `rebuild_index`, which `Rebuilders` may run beside any writer.
`Abort` ends a call anywhere.

Three history variables, which no action reads, keep what the two-step reads can
miss apart from everything else: `arrived[p]` is what was indexed since the query
of p's lookup, `fresh[p]` what became active since p's rebuild read the active
memories, `forgotten` what a rebuild took out of the index although it was fresh
(until it is indexed again).

Abstracted: one user, scope and type; SUPERSEDED and RETRACTED are both
`history`; a candidate that ends as NOOP or DEFER writes no memory, so it is no
plan here; `Stored` stands for memories of earlier requests whose operations are
long synchronised; the index query is not cut (every content is similar enough to
be among the hits). Each request id is always sent with one input.

### PendingResolution

`pending[i]` is a row; `proc[p]` what a write holds: its messages and
candidates, the open items as they were listed, the memories its plans have
claimed and the plans. `Begin` lists the items, `Reconcile` is one item
(expired, obsolete through a claim, without evidence, or decided on), with the
frames it may be composed of; `PlanCandidate` is one candidate no item has used,
a deferral of which joins a group of the same write (`Collected`). `Decide`
translates the answers of the identity resolver for every candidate memory into
the action of the event policy. `Commit` applies the plans in order or none.
`Sweep`, `Expire`, `Cleanup` and `Forget` are other processes.

Abstracted: one scope; a candidate carries the name of the message that states
it; items are listed in any order; `Cleanup` spares rows a running write has
read when `CleanupWaits` (the operator's cut-off date lies in the past).

### Recall

One action per stage. `Semantic` is the index, lane by lane (`Indexed`: what
the filter of a lane leaves in), `TimeReads` and `Coverage` the SQL reads
(`InTable`: the scope of a lane, compared exactly), `Relations` the one hop,
`Filter` the cut to the global limit and the load from SQLite, `Resolve` the
chains and the groups the event model makes of the rest, `Select` and `Recheck`
the answer. Failures that only degrade leave a code; those of the database end
the recall (`Fail`). `Replace`, `Delete` and `Sync` are the writers.

Abstracted: type and time filters, one query variant per lane, lanes read
together, at most two groups from the event model, one user who owns everything;
utility is the importance plus the size of the group.

### RagIngest

A member of `Content` is the content of a file and the document's identity.
`Start` loads the BM25 file, scans and diffs, `Pick` takes the next action. Every
write of a store is a step: `Clean` and `Drop` delete a document's chunks from
Chroma, BM25, the parent blocks, the image bytes and the image rows one after the
other (`done` counts them), `Build` writes bytes, rows, Chroma, BM25 and parents,
`Register`, `Unregister` and `Move` the registry. `Fail` is an exception anywhere
in a handler, before, between and after its writes: what is written stays and
the batch goes on. `Parse` reads the file again, as the parser does, so it may see
another content than was scanned; `NotParsed` is the parser that returns nothing,
for a content in `Unparsable` in this run and in every other. `Save` opens the BM25
file, which empties it, and `Dump` pickles into it; `Crash` loses the BM25 index in
memory, and between those two leaves a file that `LoadFails` finds on every later
run. `Edit` and `Rename` are the owner of the directory, at any time.

History variables, which no action reads: `cut` (documents a fault left half
written, until they are built or deleted again), `lost` (documents whose BM25
change a crash took), `raced` (documents whose file changed between scan and parse),
`quiet` and `calm` (the run is undisturbed; how many undisturbed runs in a row).

Abstracted: one namespace; at most one image per document; one store's chunks of
a document are written and deleted as a whole; the scan of the directory and the
diff are one step.

## 3. What TLC checks

### Task runtime

* **task_runtime**: a run with a root task and two that depend on it, two
  drivers, two attempts per task, one crash, one lease that lapses under a live
  holder, and a token budget; beside it in the store a run that is still being
  planned, so without tasks, whose deadline may pass: its ticks sweep the leases
  of the first (the drivers are symmetric). `AcceptedOnce`, `OneHolder`,
  `DependenciesFirst` and `RetryIsEarned` hold, every step is one of `TaskOutcomes`
  or a stutter (`ImplementsOutcomes`), and the one step that takes the lease of
  a dispatched task without requeueing it is a tick of the other run
  (`StrandedByOthersOnly`). Two drivers and one slow holder are enough for every
  pair of results of one task to race, the two dependent tasks make a batch, and
  a second crash repeats the first. That another run also dispatches tasks
  of its own is left to the theorems, which hold for any runs and tasks.

No progress of the runtime is claimed: what is stranded never settles, and of the
code's drivers none ticks for ever (`watch` leaves its loop when nothing is
dispatched, `drive_all` passes over the runs once, `drive_run` returns on IDLE).

### Run lifecycle

* **run_lifecycle**: two drivers that ask for approval, three proposals of which
  one has another boundary, two commands and two gate answers. `OnlyApprovedWork`,
  `ReportRestsOnResearch`, `OneDecisionPerVersion` and `CommandsStand` hold
  (without a budget). Drivers, and the proposals of one boundary, are symmetric.
  Two drivers are the fewest that open two gates for one version, two commands a
  pause and a resume around a late answer, two answers the decisions that could
  collide.
* **run_liveness**: one driver without approval that goes the whole way, with two
  proposals of different boundaries, replans that the validator accepts or
  refuses, revisions, an idle budget, a run budget, a crash and commands.
  `WithinBudgets` holds, and `DriveReturns`.
* **run_drives**: two drivers that ask for approval, two proposals of different
  boundaries, a command and a gate answer: `DriveReturns` for each, whatever the
  other does to the run. (The mutants differ: there a handler that never stops
  asking, here an idle budget that does not count.)

`DriveReturns` says that a drive, even without its cap on advances, returns unless
the run is paused: with a finished run, a gate, work it has to wait for, or an
exception. The fairness is only that of a process inside a drive, which takes its
next step (a loop without waits; provider calls and executions return). Nobody
is obliged to start a drive, to answer, to command, and no clock to run: that
is what `drive_run` does, and it does not come back by itself. So nothing is claimed
of a run that nobody drives, and in particular a rejected replan
(`replan.py:234`), which counts for no budget, ends its drive each time and may
be met again by the next one.

### Agent loop

* **agent_loop**: two drivers explore a seed of up to two steps and, after a
  replan, a second one. Either of two prices per decision and per call, so that
  loop and run budgets are met exactly, overrun and missed by one. One fault: a
  crash with a batch in hand, a lease that lapses under its holder, or a renewal
  that fails; one is enough for a step to be replayed by another driver while
  its first holder is still out. `UsageAccounted`, `StepsCoherent`,
  `CoverageEarned` and `DecisionKept` hold.
* **agent_settles**: one driver with a batch of two seeds, as many as a tick takes, two faults and a
  deadline, under `FairSpec`: `SeedsSettle`. A
  dispatch is strongly fair: this assumes a driver that ticks the run again after
  a fault or a backoff, which a single `watch` is not once it has found nothing to do.
  Calls return or time out, and leases and backoffs pass (weak fairness). No
  fairness of any answer is assumed: a model that never stops exhausts its loop.
* **agent_join** (violation): a seed whose loop is closed in a dispatch, for
  want of budget, succeeds without an accepted attempt; the next plan inherits
  it without a loop, and the join asks for one of the two.

### Memory

* **memory_store**: three calls by two processes, two requests of up to two
  plans, three memories of which one is stored before and the others may be deleted,
  temporary and permanent index errors, rebuilds among the writers.
  `IndexedOrOwed`: an active memory is in the index or has its upsert on record,
  unless a rebuild forgot it. `MissedOnlyMoved`: what a lookup misses of the active
  memories was indexed between its two reads, or forgotten; so a memory that nobody
  touches meanwhile is seen by every lookup. `SuccessIsIndexed`, `NoFork` and
  `CommittedOnce` hold. Two calls overlap and
  a third repairs what they left; a memory that is added, superseded and
  superseded again needs three memories. Without either exception the two
  properties are false, and they name no more than what the code loses.
* **memory_deleted** (violation): a deletion that clears the index while another
  call holds the record it is about to embed is undone by that call's upsert,
  after which nothing is outstanding and the deleted memory stays in the index.
* **pending**: two overlapping writes with up to two messages each reconsider an
  item that conflicts with a stored memory and may defer another, while items
  expire, are swept and cleaned up and the memory is deleted. A write handles at
  most three messages and items together (`MaxWork`). `ClosedUnanswered` and
  `ClosedForCause` hold.
* **recall**: three memories of different scopes, of which two may not be indexed
  yet, and a fourth that may replace one; four requests; one recoverable failure
  and two changes by writers. The limits are such that the global one and the
  number of groups cut, and the others do not. `ScopeKept`, `NothingMissed`,
  `EvidenceIsWhole` and `StillThere` hold. `NothingMissed` excepts memories that
  were synchronised between the query of the index and the coverage read: such a
  memory is in neither, and the answer still reports complete coverage.

No liveness of repair is claimed: of two concurrent finishers of one request
the last save wins, and a report of success may cover an operation marked FAILED
that no repair looks at again.

### Ingest

* **rag_ingest**: two paths, three contents of which two share an image and one
  cannot be parsed, three edits that may fall into a run, one exception and one
  crash, each between any two writes. `Aligned`: registry, Chroma, BM25, parents and
  images agree about every document but the one a fault caught between its own
  writes (until it is built or deleted again), its BM25 entry when a crash took it,
  and its text when its file changed under the run. `ImageRowsBacked`, with the same
  exception: every image row has its bytes, though both are written and deleted one
  after the other. `NoGap`: a document leaves Chroma only when its file is gone or
  its replacement is registered and searchable. `Settled`: after two undisturbed
  runs (one is not enough, see `MovedStaysIndexed` below) every file that can be
  parsed is registered at its path and in the indexes,
  unless a fault had caught it halfway, and nothing else is registered but an old
  version whose successor cannot be parsed. Three edits are the fewest for a copy, an
  edit of the original and a move to meet. No fairness is assumed: that someone runs
  the ingest twice is part of what `Settled` says, and a run whose BM25 file is cut
  off never starts, let alone undisturbed.
Deadlock is checked where the system never stops by itself. The runs with
`CHECK_DEADLOCK FALSE` may stop: runs end, and calls, commands, answers and
crashes are bounded.

Every property of a passing run has a mutant in `PROJECT.json`: a definition of
the module replaced by a variant with a plausible bug (kept next to it, marked
faulty), under which TLC finds the property violated.

### Properties the code does not have

Two are runs (`agent_join`, `memory_deleted`). The modules state eight more, which
an instance can be asked to check:

| property | fails because | to see it |
|---|---|---|
| `NoneStranded` (TaskRuntime) | `expire_stale` sweeps the leases of all runs and `recover` requeues the tasks of one (`recovery.py:33`): a tick of another run leaves a task DISPATCHED without an active lease, for good. With one run in the store it holds (`OneRunStrandsNone`) | the instance of task_runtime |
| `AttemptLimit` (TaskRuntime) | recovery requeues a task without looking at its attempts | `MaxAttempts = 1` and one crash |
| `CommandsStand` (RunLifecycle), with a budget | the accept transaction of a tick looks at no run state; an outcome over budget ends a run its user has paused or canceled | `Limited = TRUE` |
| `IndexFollows` (MemoryStore) | `rebuild_index` reads the active memories (`coordinator.py:322`) before the ids in the index (`:327`) and deletes the others (`:334`): a memory committed, indexed and marked SYNCED in between is in neither, and nothing is outstanding | the instance of memory_store |
| `ResolvedOnce` (PendingResolution) | RESOLVED may be saved over RESOLVED, so two writes each turn one item into a memory; `event-memory-resolution/spec.md:145` asks for one | the instance of pending |
| `CurrentAtTheEnd` (Recall) | the last check looks at which rows exist, not at their validity; `memory-recall-pipeline/spec.md:196` asks for both | the instance of recall |
| `MovedStaysIndexed` (RagIngest) | updates run before moves: when a document moves and another takes its old path, the update deletes its record before the move reads it (`ingest.py:152`, `:204`), and an undisturbed run ends with it in no store; the next run builds it again. `incremental-ingest/spec.md:40` asks for a move without reindexing | the instance of rag_ingest |
| `ImageRetrievable` (RagIngest) | a shared image is stored under the first document only and deleted with it (`ingest.py:174`, `:151`); `image-indexing/spec.md:40` has every `image_ref` retrievable | the instance of rag_ingest |

Met while modelling, and kept in the models rather than stated: a step that was
denied for its loop's budget is replayed, and paid for, after a crash; provider
calls whose process dies before they are stored are charged to nobody, though
`durable-orchestration-runtime/spec.md` asks for conservative accounting;
a crash while the BM25 index is saved leaves a file on which every later ingest
fails at once; an exception after a document's chunks are stored and before it is
registered leaves chunks that no later run removes once its file is gone;
pausing a paused run makes PAUSED the state to resume to; a proposal with
another boundary at a version that was rejected is refused for ever; evidence
that a pending item has consumed is lost when the decision is NOOP or the item
is obsolete, and of more than twenty open items the newest are never listed;
after the last check of a recall a replacement group is not checked again.

## 4. What is proved

### The task runtime

`TaskRuntimeProofs` proves, for every set of runs, tasks and drivers, every
dependency graph and every limit, from `TaskGraphAssumption` and
`PolicyAssumption` alone:

| theorem | statement |
|---|---|
| `Invariance` | `Spec => []IInv` |
| `TypeCorrect` | `Spec => []TypeOK` |
| `SingleAcceptance` | `Spec => []AcceptedOnce` |
| `LeaseFencing` | `Spec => []OneHolder` |
| `DependencyOrder` | `Spec => []DependenciesFirst` |
| `EarnedRetry` | `Spec => []RetryIsEarned` |
| `OnlyOthersStrand` | `Spec => StrandedByOthersOnly` |
| `Refinement` | `Spec => ImplementsOutcomes` |

None of the properties is inductive. That an attempt succeeds at most once
needs to know that a result arriving late is an attempt nobody decided, and that
two drivers never hold the same one (`HeldOK`); that fencing works needs the
rows of a task to agree (`RowsOK`): as many attempts as leases, only the last of
each may be open, an active lease has an open attempt, an open attempt a
dispatched task, and a task waiting for a retry ends in a failed attempt.
`RowsOK` is stated of three values and not of the variables, so that recovery,
opening and deciding an attempt are each a lemma about values
(`RecoveredRows`, `OpenedRows`, `DecidedRows`, `RejectedRows`), used in every
action they occur in: a dispatch is a recovery followed by an opening. There is
one lemma per action, and `Invariance` combines them. `OnlyOthersStrand` takes the
same cases: whatever a tick does to the tasks of its own run leaves none of them
dispatched without a lease, whichever other runs are in the store; that a store
with one run strands no task (`OneRunStrandsNone`) is its corollary. `Refinement` shows that a
dispatch and a recovery settle nothing (`RecoveryOutcome`) and that the accepted
results of a batch are one decision of `TaskOutcomes` (`AcceptDecides`).

### The run lifecycle

`RunLifecycleProofs` proves, for every set of drivers and proposals and every
policy, from `RunPolicyAssumption` alone:

| theorem | statement |
|---|---|
| `Invariance` | `Spec => []IInv` |
| `TypeCorrect` | `Spec => []TypeOK` |
| `ApprovedWork` | `Spec => []OnlyApprovedWork` |
| `ResearchFirst` | `Spec => []ReportRestsOnResearch` |
| `UniqueDecision` | `Spec => []OneDecisionPerVersion` |
| `Budgets` | `Spec => []WithinBudgets` |
| `CommandsAreObeyed` | with `Limited = FALSE`, `Spec => CommandsStand` |

The argument is the one `state_version` is there for. `IInv` says of every call
in process memory (`CallOK`) and every gate (`GateOK`) that it is of a version
the run has had and that, as long as the run still has that version, it is the
run the call or the gate was made for; only then does it say more: that an
answer fits that run's budgets and plan (`AnswerOK`), that an approval gate
asks for the next plan version, that no gate is bound to a stopped run. A step
either leaves the run alone (`RunStays`) or makes the version grow (`Aging`,
`RunMoves`), and then everything older loses its hold. `AnswersFit` shows that
every verdict of every handler fits the run it is given for, `Answered` that an
answer that takes effect leaves no other gate of its version to answer. That a
report rests on research needs, beside this, that a driver which still holds a
task is a witness against every later phase (`TickAcceptInv`). The hypothesis of
`CommandsAreObeyed` is what the code needs too, see the table above.

### The agent loop

`AgentLoopProofs` proves, for every number of drivers, every finite set of
seeds, every boundary, price list and limit, from `BoundaryAssumption` (the
boundary of a run names finitely many seeds) and `NothingAssumption` (an action
is not the value that stands for none):

| theorem | statement |
|---|---|
| `Inductive` | `Spec => []IInv` |
| `TypeCorrect` | `Spec => []TypeOK` |
| `RowsAgree` | `Spec => []StepsCoherent` |
| `CoverageIsEarned` | `Spec => []CoverageEarned` |
| `DecisionsAreKept` | `Spec => DecisionKept` |
| `UsageIsAccounted` | `Spec => []UsageAccounted` |

`IInv` has three parts. `SeedInv` is about the rows of one seed: the accepted
steps come first and there is at most one more (`CountInv`), a step without a
decision has neither action nor price (`RowInv`), and the foci, the task and the
coverage of the loop follow from its accepted steps. `HolderInv` is about a
result in the memory of a driver: its epoch is no other driver's, and while it
is the newest of an open lease, the stored step is owned by it and has come as
far as the result says; of a result whose lease has lapsed nothing more is
known, and nothing has to be, since acceptance compares the epochs. `RunInv` is that a run
is analysed only with the loops of its plan closed.

`UsageAccounted` compares what the run and the loops were charged with sums over
the stored steps. It is inductive given `IInv`; what makes its proof long is
that sums are folds. `SequenceLemmas` shows once that a sum over a finite set
exists, does not depend on the order, and how it changes with one member or one
value (`SumExists`, `SumTakesAny`, `SumAdds`, `SumUpdate`); every action then
changes one term. An acceptance changes one term for each seed of its batch and
charges the run seed by seed, in any order, so that its loop over the batch is
an invariant of its own.

### The memory

`MemoryStoreProofs` proves, for every set of processes, requests and memories
(finite) and any bound on batches and calls, from `MemoryStoreAssumption` alone:

| theorem | statement |
|---|---|
| `TruthInvariance` | `Spec => []TruthInv` |
| `TypeCorrect` | `Spec => []TypeOK` |
| `OneSuccessor` | `Spec => []NoFork` |
| `AppliedOnce` | `Spec => CommittedOnce` |
| `IndexInvariance` | `Spec => []IndexInv` |
| `NeverLost` | `Spec => []IndexedOrOwed` |
| `LookupMisses` | `Spec => []MissedOnlyMoved` |
| `SuccessHolds` | `Spec => []SuccessIsIndexed` |

There are two invariants, since SQLite can be trusted whatever happens to the
index. `TruthInv` is about the former. That a memory has one successor needs
that one with a successor is not active (`LinksOK`), that no two plans of a
batch name a target twice (`BatchOK`) and that an id handed out to a plan is
nobody else's (`FreshOK`): then the guard of the commit, that the target is
active or of the batch itself, is enough. What no step undoes is `Grows`; it
keeps what every other call relies on (`OthersCallOK`) and contains
`CommittedOnce`. `IndexInv` says that an active memory nobody forgot is indexed or
has an upsert on record, that a synchronised upsert of one is in the index
(`IndexOK`), and what each call knows (`SyncOK`): what it has indexed, which active
memories its lookup has among its hits, owed or arrived, and which its rebuild
keeps. The record an upsert carries is stale only if its memory is no longer
active, which is why a late upsert may undo a deletion (`memory_deleted`) and never
hides an active memory. Rebuilds run beside the writers here, so that what one
takes out of the index although it is active is fresh, and forgotten from then on.
None of the theorems has a hypothesis on the constants. The operations of a commit
are a `FlattenSeq`, a recursive function: `SequenceLemmas` shows what the proofs need
of it by the least position at which it could fail.

### Pending resolution

`PendingResolutionProofs` proves, for every set of writing processes, messages,
frames and memories, every finite set of items and every limit, from
`PendingResolutionAssumption` alone (finitely many items, since a write lists
them; the value for "no id" is no id; a frame gives each dimension a word):

| theorem | statement |
|---|---|
| `TypeCorrect` | `Spec => []TypeOK` |
| `ItemsCloseForCause` | `Spec => []ClosedForCause` |
| `NothingWithoutAnswer` | with `CleanupWaits`, `Spec => []ClosedUnanswered` |

`IInv` says of a stored row that its targets were all stored once, and that it
is obsolete only with a target that is history or deleted (`Dead`), which no
step undoes, and expired only past its time (`StoredInv`). Of a write it says
the same of the rows it has read and plans to save, with one difference: a plan
may rest on the write's own plans, on memories they are about to store and on
memories they are about to replace (`LocalInv`). That is where an item given up
through a claim gets its cause from: claimed memories are those a plan of the
same batch replaces, and the batch is committed as a whole. Every planning step
is shown to leave such locals (`Takes`); a commit is a left fold over the plans,
which `PlansApplied` turns into the states it goes through, and `AppliedInv`
holds of each: in particular no later plan brings a replaced memory back
(`OrderInv`), so that after the commit every replaced memory is `Dead`.

`NothingWithoutAnswer` needs `AnswerInv` besides: an item with an answer is
resolved or its row is deleted, and no running write holds a deleted row. The
save of a closed row keeps its status, so a second outcome does not apply
(`OneAnswered`). The hypothesis is that the clean-up spares rows which a write
under way has read, as a cut-off date before the start of the write does:
without it the row is gone, a plan of that write saves it again as obsolete, and
the answer of another write stays (TLC shows it with `CleanupWaits = FALSE`).

### Recall

`RecallProofs` proves, for every finite set of memories, every scope,
importance, request and limit and any number of failures and changes, from
`RecallAssumption` alone (a table has finitely many rows):

| theorem | statement |
|---|---|
| `TypeCorrect` | `Spec => []TypeOK` |
| `ScopesAreKept` | `Spec => []ScopeKept` |
| `NothingIsMissed` | with no more memories than `Quota` and `ReadLimit`, `Spec => []NothingMissed` |
| `WholeEvidence` | `Spec => []EvidenceIsWhole` |
| `CitedStillThere` | `Spec => StillThere` |

Each has an inductive invariant of its own next to the types. `ScopeInv` is that
whatever any path found, the relation hop included, is of a scope the open lanes
admit. `CoverInv` follows one
memory that is active from the start: it is in the index or has an operation
outstanding, and once the index was asked it is among the candidates or still
outstanding, unless it was synchronised in between; so the coverage read finds
it. The two hypotheses say that neither the index query nor the SQL read is cut,
without which a relevant memory may be missed by design; the run satisfies them.
`WholeInv` is that the groups are disjoint and that of two loaded memories of
which one replaced the other, both are in one group which the former does not
lead; the cut to the best groups and the last check only choose among these. `CitedStillThere` needs the types
only: the last read and the answer are one step.

### Ingest

`RagIngestProofs` proves, for every number of paths, set of contents and bound
on edits, exceptions and crashes, from `CorpusAssumption` and `NoneAssumption` (an
action is not the value that stands for none):

| theorem | statement |
|---|---|
| `Invariance` | `Spec => []IInv` |
| `TypeCorrect` | `Spec => []TypeOK` |
| `StoresAgree` | `Spec => []Aligned` |
| `ImagesBacked` | `Spec => []ImageRowsBacked` |
| `NeverAGap` | `Spec => NoGap` |

The invariant says which stores hold the document of the current stage after each
of its five writes, that every other document no fault has caught agrees, what each
stage of an action has done already, and that whatever is still to be built is
registered by nobody else. That the scan yields no two
actions that build one document (`DiffIsPending`) is what keeps a later action
from being met halfway by an earlier one. A fault adds the document of its stage to
`cut` and nothing else, so that what is shown of all others stands.

### Only model-checked

Every invariant and action property that a passing run checks is stated by a
theorem, but for `Settled`, which speaks of two runs in a row. Liveness
is not proved (`DriveReturns`, `SeedsSettle`): the prover handles neither fairness nor
ENABLED. Three theorems have a hypothesis on the constants beyond the assumptions
of their module (`CommandsAreObeyed`, `NothingWithoutAnswer`, `NothingIsMissed`), each
named in its table with the reason for it; a run satisfies it. Out of the prover's reach
are also RECURSIVE operators and the library's induction theorems. The modules
use none of the first; the folds of the commits and the accounts are handled
without the second, by the least position, or the smallest set, at which a claim
could fail.

What a proof shows is about the model. The correspondence of the model to the
code is the map of `PROJECT.json`, and what each module abstracts is in section 2.

## 5. Not modelled, and what could follow

1. The pure algorithms as operators against a reference definition over bounded
   inputs: the plan validator (whose cycle check looks at the graph's edges and
   not at `depends_on`, which readiness uses), the evidence join, the capability
   router, rank fusion and context building of the query pipeline, chunking.
   They keep no state, and unit tests reach them well.
2. The reconciliation of task rows of a plan version by name, and provider
   batches that reuse an analysis artifact.
3. An abstract specification of a pending item (open until one outcome, which
   stays), which `PendingResolution` implements where the clean-up waits, and a
   proof that `MemoryStore` implements a table of memories with one successor each.

Left out for good: language and embedding models, parsers and web search (their
answers and failures are open choices), prompts, serialisation, logging and
redaction, command-line parsing, configuration, and evaluation scripts. They
keep no state on which the properties above depend.
