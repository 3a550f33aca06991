---------------------------- MODULE MemoryStore ----------------------------
(***************************************************************************)
(* The long-term memory of agents_memory: SQLite holds the truth (memories, *)
(* the links of a superseded memory to its successor, one row per write     *)
(* request and the outbox of index operations), Chroma holds a derived      *)
(* index.  A write plans against both without a lock, commits its whole     *)
(* plan in one transaction and only then brings the index up to date, one   *)
(* operation at a time; retries, `sync repair`, `sync rebuild` and          *)
(* deletions do the same from other processes.                              *)
(*                                                                          *)
(* Abstracted: one scope and one type of memory; SUPERSEDED and RETRACTED   *)
(* are both "history"; a candidate that ends as NOOP or DEFER writes no     *)
(* memory and no index operation, so it is left out of the plan; what the   *)
(* extractor and the resolver answer is any choice of the targets found,    *)
(* every content being similar enough to be among the hits.                 *)
(*                                                                          *)
(* A lookup reads the index first and the operations on record after it; a  *)
(* rebuild reads the active memories first and the ids in the index after   *)
(* it.  What others do between the two reads is what both can miss, and the *)
(* history variables keep that apart from everything else.                  *)
(***************************************************************************)
EXTENDS Integers, FiniteSets, SequencesExt

CONSTANTS
    Process,        \* concurrent calls into the service
    Request,        \* request ids, each always sent with the same input
    Memory,         \* memory ids, handed out once each
    Stored,         \* memories written and synchronised by earlier requests
    MaxBatch,       \* plans of one request that write a memory
    MaxCalls,       \* calls into the service
    Errors,         \* how the index or the embedder may fail
    Deletable,      \* memories a user may delete
    Rebuilders      \* the processes that may run `sync rebuild`

ASSUME MemoryStoreAssumption ==
    /\ MaxBatch \in Nat \ {0}
    /\ MaxCalls \in Nat
    /\ IsFiniteSet(Memory)
    /\ Stored \subseteq Memory
    /\ Errors \subseteq {"unavailable", "mismatch"}
    /\ Deletable \subseteq Memory
    /\ Request \cap Memory = {}

VARIABLES
    memory,         \* the memories table: no row, active, history, deleted
    successor,      \* memory_relations: pairs of a memory and its successor
    requests,       \* write_requests: the saved report of each request
    ops,            \* index_operations, in the order of their ids
    index,          \* Chroma: the validity each entry was written with
    proc,           \* the locals of each call
    calls,          \* calls made so far, bounded by MaxCalls
    fresh,          \* history: memories that became active since a rebuild's read
    arrived,        \* history: memories indexed since the query of a lookup
    forgotten       \* history: fresh memories a rebuild took out of the index

vars == <<memory, successor, requests, ops, index, proc, calls, fresh, arrived, forgotten>>

None == "none"
Validity == {"none", "active", "history", "deleted"}
Report == {"none", "retryable", "failed", "success"}
Owner == Request \cup Memory            \* a deletion is a request of its own
Plan == [new : Memory, targets : Seq(Memory)]
Operation == [request : Owner, memory : Memory, kind : {"upsert", "delete"},
              status : {"pending", "failed", "synced"}]

Free == [pc |-> "idle", request |-> None, plans |-> <<>>, todo |-> {},
         hits |-> {}, seen |-> "none", error |-> "none", worst |-> "none",
         keep |-> {}, drop |-> {}]

Init ==
    /\ memory = [m \in Memory |-> IF m \in Stored THEN "active" ELSE "none"]
    /\ successor = {}
    /\ requests = [q \in Request |-> "none"]
    /\ ops = <<>>
    /\ index = [m \in Memory |-> IF m \in Stored THEN "active" ELSE "absent"]
    /\ proc = [p \in Process |-> Free]
    /\ calls = 0
    /\ fresh = [p \in Process |-> {}]
    /\ arrived = [p \in Process |-> {}]
    /\ forgotten = {}

-----------------------------------------------------------------------------
Active == {m \in Memory : memory[m] = "active"}
Outstanding(i) == ops[i].status # "synced"
OpsOf(q) == {i \in DOMAIN ops : ops[i].request = q}
NewOf(plans) == {plans[i].new : i \in DOMAIN plans}
TargetsOf(plans) == UNION {ToSet(plans[i].targets) : i \in DOMAIN plans}
Unused == {m \in Memory : memory[m] = "none" /\ \A p \in Process : m \notin NewOf(proc[p].plans)}
Rebuilding(p) == proc[p].pc \in {"scan", "rebuild"}

Upserts(i) == ops[i].kind = "upsert"

\* A faulty query: an upsert that failed once no longer counts as unsynchronised.
OwedPending ==
    {m \in Active : \E i \in DOMAIN ops :
        ops[i].memory = m /\ Upserts(i) /\ ops[i].status = "pending"}
\* list_unsynced_active_memories: the active memories with an outstanding upsert.
Owed == {m \in Active : \E i \in DOMAIN ops : ops[i].memory = m /\ Upserts(i) /\ Outstanding(i)}

\* What a lookup has found when it has read both: a hit that is superseded
\* before it is checked against SQLite may or may not be among it.
Found(p) == proc[p].hits \cup Owed

Ready(p) ==
    /\ proc[p].pc = "idle"
    /\ calls < MaxCalls

\* A call that goes through the operations of q that are outstanding now.
Syncing(q) ==
    [Free EXCEPT !.pc = "sync", !.request = q, !.todo = {i \in OpsOf(q) : Outstanding(i)}]

\* They are gone through in the order of their ids.
Due(p) == CHOOSE i \in proc[p].todo : \A j \in proc[p].todo : i <= j

Becomes(p, local) == proc' = [proc EXCEPT ![p] = local]

-----------------------------------------------------------------------------
\* A write of a request: a committed one only has its index work resumed, a
\* complete one is answered from its report (no step), a new one is planned.
Write(p, q) ==
    /\ Ready(p)
    /\ \/ /\ requests[q] = "none"
          /\ Becomes(p, [Free EXCEPT !.pc = "plan", !.request = q])
       \/ /\ requests[q] \in {"retryable", "failed"}
          /\ Becomes(p, Syncing(q))
    /\ UNCHANGED <<memory, successor, requests, ops, index>>

\* The lookup of a candidate starts in the index: of the entries written as
\* active, those SQLite has as active can still turn out to be matches.
Query(p) ==
    /\ proc[p].pc = "plan"
    /\ Len(proc[p].plans) < MaxBatch
    /\ Becomes(p, [proc[p] EXCEPT !.pc = "look", !.hits = {m \in Active : index[m] = "active"}])
    /\ UNCHANGED <<memory, successor, requests, ops, index>>

\* It ends with the memories that are not synchronised now.  The candidate is
\* to be remembered: a fresh id, and the memories it replaces among those
\* found, seen through the overlay of the batch.
PlanCandidate(p) ==
    LET plans == proc[p].plans
        overlay == (Found(p) \cup NewOf(plans)) \ TargetsOf(plans)
    IN /\ proc[p].pc = "look"
       /\ \E new \in Unused, replaced \in SUBSET overlay :
             \E targets \in SetToSeqs(replaced) :
                Becomes(p, [proc[p] EXCEPT !.pc = "plan", !.hits = {},
                              !.plans = Append(@, [new |-> new, targets |-> targets])])
       /\ UNCHANGED <<memory, successor, requests, ops, index>>

\* A faulty guard: a target that was superseded meanwhile is taken as well.
StillStored(plans) ==
    TargetsOf(plans) \subseteq {m \in Memory : memory[m] \in {"active", "history"}} \cup NewOf(plans)

\* UPDATE memories ... WHERE validity = 'active': each target of a plan must
\* still be active, or have been added by an earlier plan of the batch.
StillActive(plans) == TargetsOf(plans) \subseteq Active \cup NewOf(plans)

NeverReserved(q) == FALSE    \* faulty: the request row is not looked at
\* reserve_request: the insert fails when the request has a row.
Reserved(q) == requests[q] # "none"

Enqueued(q, m, kind) == [request |-> q, memory |-> m, kind |-> kind, status |-> "pending"]
OpsFor(q, plan) ==
    Append([i \in DOMAIN plan.targets |-> Enqueued(q, plan.targets[i], "delete")],
           Enqueued(q, plan.new, "upsert"))

\* The one transaction of a write.  A request that is reserved already or a
\* target that is no longer active rolls everything back; the caller may retry.
Commit(p) ==
    LET q == proc[p].request
        plans == proc[p].plans
    IN /\ proc[p].pc = "plan"
       /\ IF Reserved(q) \/ ~StillActive(plans)
            THEN /\ Becomes(p, Free)
                 /\ UNCHANGED <<memory, successor, requests, ops, index>>
            ELSE /\ memory' = [m \in Memory |->
                        IF m \in TargetsOf(plans) THEN "history"
                        ELSE IF m \in NewOf(plans) THEN "active" ELSE memory[m]]
                 /\ successor' = successor \cup
                        UNION {ToSet(plans[i].targets) \X {plans[i].new} : i \in DOMAIN plans}
                 /\ ops' = ops \o FlattenSeq([i \in DOMAIN plans |-> OpsFor(q, plans[i])])
                 /\ requests' = [requests EXCEPT ![q] = "retryable"]
                 /\ Becomes(p, [Free EXCEPT !.pc = "list", !.request = q])
                 /\ UNCHANGED index

\* A user deletes a memory and, with it, its links; the deletion enqueues its
\* own operation and goes on to carry it out.
Delete(p, m) ==
    /\ Ready(p)
    /\ m \in Deletable
    /\ memory[m] \in {"active", "history"}
    /\ memory' = [memory EXCEPT ![m] = "deleted"]
    /\ successor' = {link \in successor : m \notin {link[1], link[2]}}
    /\ ops' = Append(ops, Enqueued(m, m, "delete"))
    /\ Becomes(p, [Free EXCEPT !.pc = "sync", !.request = m, !.todo = {Len(ops) + 1}])
    /\ UNCHANGED <<requests, index>>

\* `sync repair` takes up a request that has outstanding operations, unless
\* its report says that retrying is of no use; deletions have no report.
Repair(p, q) ==
    /\ Ready(p)
    /\ \E i \in OpsOf(q) : Outstanding(i)
    /\ q \in Request => requests[q] = "retryable"
    /\ Becomes(p, Syncing(q))
    /\ UNCHANGED <<memory, successor, requests, ops, index>>

-----------------------------------------------------------------------------
\* Index synchronisation, outside any transaction.
ListOps(p) ==
    /\ proc[p].pc = "list"
    /\ Becomes(p, Syncing(proc[p].request))
    /\ UNCHANGED <<memory, successor, requests, ops, index>>

\* The record an upsert writes is read first; embedding it takes its time.
Fetch(p) ==
    /\ proc[p].pc = "sync"
    /\ proc[p].todo # {}
    /\ ops[Due(p)].kind = "upsert"
    /\ Becomes(p, [proc[p] EXCEPT !.pc = "apply", !.seen = memory[ops[Due(p)].memory]])
    /\ UNCHANGED <<memory, successor, requests, ops, index>>

\* A faulty upsert: it does not look whether the record is still there.
AppliedBlindly(op, seen) == IF op.kind = "delete" THEN "absent" ELSE seen

\* What the index holds for the memory of an operation once it is applied: an
\* upsert writes the record as it was read, or deletes the entry of a missing one.
Applied(op, seen) ==
    IF op.kind = "delete" \/ seen \notin {"active", "history"} THEN "absent" ELSE seen

Apply(p) ==
    LET op == ops[Due(p)]
    IN /\ proc[p].pc \in {"sync", "apply"}
       /\ proc[p].todo # {}
       /\ op.kind = (IF proc[p].pc = "apply" THEN "upsert" ELSE "delete")
       /\ \/ /\ index' = [index EXCEPT ![op.memory] = Applied(op, proc[p].seen)]
             /\ Becomes(p, [proc[p] EXCEPT !.pc = "mark", !.seen = "none"])
          \/ \E error \in Errors :
                /\ op.kind = "delete" => error # "mismatch"      \* raised by upserts only
                /\ Becomes(p, [proc[p] EXCEPT !.pc = "mark", !.seen = "none", !.error = error])
                /\ UNCHANGED index
       /\ UNCHANGED <<memory, successor, requests, ops>>

AlwaysSynced(error) == "synced"    \* faulty: the error is swallowed
\* mark_index_operation
StatusAfter(error) == IF error = "none" THEN "synced" ELSE "failed"

\* Whether one operation failed, and whether one failed for good.
Worst(worst, error) ==
    IF "mismatch" \in {worst, error} THEN "mismatch"
    ELSE IF "unavailable" \in {worst, error} THEN "unavailable" ELSE "none"

Mark(p) ==
    /\ proc[p].pc = "mark"
    /\ ops' = [ops EXCEPT ![Due(p)].status = StatusAfter(proc[p].error)]
    /\ Becomes(p, [proc[p] EXCEPT !.pc = "sync", !.todo = @ \ {Due(p)},
                      !.worst = Worst(@, proc[p].error), !.error = "none"])
    /\ UNCHANGED <<memory, successor, requests, index>>

ReportSuccess(worst) == "success"  \* faulty: the last operation alone decides
\* The report that is saved last: complete only when no operation failed.
ReportAfter(worst) ==
    CASE worst = "none" -> "success"
      [] worst = "unavailable" -> "retryable"
      [] worst = "mismatch" -> "failed"

Finish(p) ==
    /\ proc[p].pc = "sync"
    /\ proc[p].todo = {}
    /\ requests' = IF proc[p].request \in Request
                     THEN [requests EXCEPT ![proc[p].request] = ReportAfter(proc[p].worst)]
                     ELSE requests
    /\ Becomes(p, Free)
    /\ UNCHANGED <<memory, successor, ops, index>>

-----------------------------------------------------------------------------
\* `sync rebuild`: read the active memories, read the ids in the index, write
\* the former, delete the ids among the latter that were not active.  Nothing
\* keeps a writer from committing and indexing meanwhile.
RebuildRead(p) ==
    /\ Ready(p)
    /\ p \in Rebuilders
    /\ Becomes(p, [Free EXCEPT !.pc = "scan", !.keep = Active])
    /\ UNCHANGED <<memory, successor, requests, ops, index>>

StaleIds(keep) == {m \in Memory : index[m] # "absent"} \ keep

RebuildScan(p) ==
    /\ proc[p].pc = "scan"
    /\ IF proc[p].keep = {}
         THEN /\ index' = [m \in Memory |-> "absent"]
              /\ Becomes(p, Free)
         ELSE /\ Becomes(p, [proc[p] EXCEPT !.pc = "rebuild", !.drop = StaleIds(proc[p].keep)])
              /\ UNCHANGED index
    /\ UNCHANGED <<memory, successor, requests, ops>>

RebuildStep(p) ==
    /\ proc[p].pc = "rebuild"
    /\ \/ \E m \in proc[p].keep :
             /\ index' = [index EXCEPT ![m] = "active"]
             /\ Becomes(p, [proc[p] EXCEPT !.keep = @ \ {m}])
       \/ \E m \in proc[p].drop :
             /\ proc[p].keep = {}
             /\ index' = [index EXCEPT ![m] = "absent"]
             /\ Becomes(p, [proc[p] EXCEPT !.drop = @ \ {m}])
       \/ /\ proc[p].keep \cup proc[p].drop = {}
          /\ Becomes(p, Free)
          /\ UNCHANGED index
    /\ UNCHANGED <<memory, successor, requests, ops>>

\* A call ends early: an extractor, resolver, embedder or index failure while
\* planning, a locked database, or the process dies.
Abort(p) ==
    /\ proc[p].pc # "idle"
    /\ Becomes(p, Free)
    /\ UNCHANGED <<memory, successor, requests, ops, index>>

Call(p) ==
    \/ \E q \in Request : Write(p, q)
    \/ \E m \in Memory : Delete(p, m)
    \/ \E q \in Owner : Repair(p, q)
    \/ RebuildRead(p)

Step(p) ==
    \/ Query(p) \/ PlanCandidate(p) \/ Commit(p)
    \/ ListOps(p) \/ Fetch(p) \/ Apply(p) \/ Mark(p) \/ Finish(p)
    \/ RebuildScan(p) \/ RebuildStep(p)
    \/ Abort(p)

\* The history of a step of p: what became active under each rebuild, what was
\* indexed under each lookup, and what p as a rebuild took from the index that
\* had become active since its read and is not in the index again.
Remember(p) ==
    LET taken == {m \in fresh[p] : index[m] # "absent" /\ index'[m] = "absent"}
    IN /\ fresh' = [r \in Process |->
              IF Rebuilding(r)' THEN fresh[r] \cup (Active' \ Active) ELSE {}]
       /\ arrived' = [r \in Process |->
              IF proc'[r].pc = "look"
                THEN arrived[r] \cup {m \in Memory : index[m] # "active" /\ index'[m] = "active"}
                ELSE {}]
       /\ forgotten' = {m \in forgotten \cup taken : index'[m] # "active"}

Next ==
    \E p \in Process :
        /\ \/ Call(p) /\ calls' = calls + 1
           \/ Step(p) /\ UNCHANGED calls
        /\ Remember(p)

Spec == Init /\ [][Next]_vars
-----------------------------------------------------------------------------
TypeOK ==
    /\ memory \in [Memory -> Validity]
    /\ successor \subseteq Memory \X Memory
    /\ requests \in [Request -> Report]
    /\ ops \in Seq(Operation)
    /\ index \in [Memory -> {"absent", "active", "history"}]
    /\ calls \in 0..MaxCalls
    /\ \A p \in Process :
          /\ proc[p].pc \in {"idle", "plan", "look", "list", "sync", "apply", "mark", "scan", "rebuild"}
          /\ proc[p].request \in Owner \cup {None}
          /\ proc[p].plans \in Seq(Plan)
          /\ proc[p].todo \subseteq DOMAIN ops
          /\ proc[p].hits \cup proc[p].keep \cup proc[p].drop \subseteq Memory
    /\ fresh \in [Process -> SUBSET Memory]
    /\ arrived \in [Process -> SUBSET Memory]
    /\ forgotten \subseteq Memory

\* No active memory is lost to the index, whatever failed or died halfway: it
\* is indexed as active or its upsert is on record for a repair to find.  The
\* exception is a memory that was committed after a rebuild had read the
\* active ones, and that the rebuild then found in the index and took out.
IndexedOrOwed == \A m \in Active \ forgotten : index[m] = "active" \/ m \in Owed

\* A lookup that read the operations now would find every active memory but
\* those that moved from the operations to the index after its query, and
\* those a rebuild has forgotten: failed and dead calls hide nothing.
MissedOnlyMoved ==
    \A p \in Process : proc[p].pc = "look" =>
        Active \ Found(p) \subseteq arrived[p] \cup forgotten

\* What a request reported as synchronised is in the index for as long as it
\* is the current truth, whoever else worked on the same operations, and
\* whatever rebuilds ran but for the memories they have forgotten.
SuccessIsIndexed ==
    \A i \in DOMAIN ops :
        /\ Upserts(i)
        /\ requests[ops[i].request] = "success"
        /\ ops[i].memory \in Active \ forgotten
        => index[ops[i].memory] = "active"

\* A memory has one successor at most: of two writes that planned to replace
\* the same memory, the later one is turned away.
NoFork == \A a, b \in successor : a[1] = b[1] => a = b

\* A request takes effect once: after it has committed, no retry and no
\* concurrent call with the same id adds operations or memories under it.
CommittedOnce ==
    [][\A q \in Request : requests[q] # "none" => OpsOf(q)' = OpsOf(q)]_vars

\* A deleted memory is gone from the index too, once every operation on it is
\* synchronised and no call is under way.
DeletedIsGone ==
    \A m \in Memory :
        /\ memory[m] = "deleted"
        /\ \A i \in DOMAIN ops : ops[i].memory = m => ~Outstanding(i)
        /\ \A p \in Process : proc[p].pc = "idle"
        => index[m] = "absent"

\* The index follows the active memories of SQLite: when no call is under way
\* and every operation on an active memory is synchronised, it is indexed.
IndexFollows ==
    \A m \in Active :
        /\ \A i \in DOMAIN ops : ops[i].memory = m => ~Outstanding(i)
        /\ \A p \in Process : proc[p].pc = "idle"
        => index[m] = "active"
=============================================================================
