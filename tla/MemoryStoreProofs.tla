------------------------- MODULE MemoryStoreProofs -------------------------
(***************************************************************************)
(* Proofs about MemoryStore, for every set of processes, requests and      *)
(* memories and any bound on batches and calls.                            *)
(*                                                                         *)
(* TruthInv is about SQLite alone and holds whatever rebuilds run: what    *)
(* the operations say of the memories (OpsOK), that a memory with a        *)
(* successor is not current (LinksOK), that the ids a plan hands out are   *)
(* nobody else's (FreshOK), that no two plans of a batch replace the same  *)
(* memory (BatchOK), and what a call under way relies on (CallOK).         *)
(* IndexInv is about Chroma, with rebuilds running among the writers:      *)
(* every current memory is in the index, has an operation that will put it *)
(* there or was forgotten by a rebuild that had not read it (IndexOK), and *)
(* each call has indexed what it is about to report, keeps what it has     *)
(* read, and knows which memories came after its read (SyncOK).            *)
(***************************************************************************)
EXTENDS MemoryStore, SequenceLemmas, FiniteSetTheorems

Local ==
    [pc : {"idle", "plan", "look", "list", "sync", "apply", "mark", "scan", "rebuild"},
     request : Owner \cup {None}, plans : Seq(Plan), todo : SUBSET Nat,
     hits : SUBSET Memory, seen : Validity, error : {"none", "unavailable", "mismatch"},
     worst : {"none", "unavailable", "mismatch"},
     keep : SUBSET Memory, drop : SUBSET Memory]

Types ==
    /\ memory \in [Memory -> Validity]
    /\ successor \subseteq Memory \X Memory
    /\ requests \in [Request -> Report]
    /\ ops \in Seq(Operation)
    /\ index \in [Memory -> {"absent", "active", "history"}]
    /\ proc \in [Process -> Local]
    /\ calls \in 0..MaxCalls

HistoryTypes ==
    /\ fresh \in [Process -> SUBSET Memory]
    /\ arrived \in [Process -> SUBSET Memory]
    /\ forgotten \subseteq Memory

Working == {"sync", "apply", "mark"}

(* An operation is about a memory that is stored, and a deletion about one *)
(* that is not current; its request has committed, and upserts have one.   *)
OpOK(i) ==
    /\ memory[ops[i].memory] # "none"
    /\ ops[i].kind = "delete" => memory[ops[i].memory] # "active"
    /\ ops[i].kind = "upsert" => ops[i].request \in Request
    /\ ops[i].request \in Request => requests[ops[i].request] # "none"

OpsOK == \A i \in DOMAIN ops : OpOK(i)

LinksOK == \A link \in successor : memory[link[1]] \in {"history", "deleted"}

Plans(p) == proc[p].plans

FreshOK ==
    \A p \in Process : \A i \in DOMAIN Plans(p) :
        /\ memory[Plans(p)[i].new] = "none"
        /\ \A r \in Process : \A j \in DOMAIN Plans(r) :
              Plans(r)[j].new = Plans(p)[i].new => r = p

BatchOK ==
    \A p \in Process : \A i, j \in DOMAIN Plans(p) :
        i # j => ToSet(Plans(p)[i].targets) \cap ToSet(Plans(p)[j].targets) = {}

CallOK(p) ==
    /\ proc[p].todo \subseteq DOMAIN ops
    /\ proc[p].pc \in {"apply", "mark"} => proc[p].todo # {}
    /\ proc[p].pc = "apply" => ops[Due(p)].kind = "upsert"
    /\ proc[p].pc \in {"plan", "look", "list"} => proc[p].request \in Request
    /\ (proc[p].pc \in Working \cup {"list"} /\ proc[p].request \in Request) =>
          requests[proc[p].request] # "none"

TruthInv ==
    /\ Types /\ OpsOK /\ LinksOK /\ FreshOK /\ BatchOK /\ NoFork
    /\ \A p \in Process : CallOK(p)

Indexed(m) == memory[m] = "active" => index[m] = "active" \/ m \in forgotten

IndexOK ==
    /\ \A m \in Active : Indexed(m) \/ \E i \in DOMAIN ops : Upserts(i) /\ ops[i].memory = m
    /\ \A i \in DOMAIN ops : Upserts(i) /\ ~Outstanding(i) => Indexed(ops[i].memory)
    /\ \A i \in DOMAIN ops :
          Upserts(i) /\ requests[ops[i].request] = "success" => Indexed(ops[i].memory)
    /\ \A m \in Memory : memory[m] = "none" => index[m] # "active"

SyncOK(p) ==
    /\ proc[p].pc = "apply" =>
          /\ proc[p].seen # "none"
          /\ memory[ops[Due(p)].memory] = "active" => proc[p].seen = "active"
    /\ (proc[p].pc = "mark" /\ proc[p].error = "none" /\ Upserts(Due(p))) =>
          Indexed(ops[Due(p)].memory)
    /\ (proc[p].pc \in Working /\ proc[p].request \in Request /\ proc[p].worst = "none") =>
          \A i \in OpsOf(proc[p].request) \ proc[p].todo :
             Upserts(i) => Indexed(ops[i].memory)
    /\ proc[p].pc = "look" =>
          \A m \in Active : index[m] = "active" => m \in proc[p].hits \cup arrived[p]
    /\ proc[p].pc = "scan" => Active \subseteq proc[p].keep \cup fresh[p]
    /\ proc[p].pc = "rebuild" => proc[p].drop \cap Active \subseteq fresh[p]
    /\ Rebuilding(p) => \A m \in proc[p].keep : memory[m] # "none"

IndexInv == HistoryTypes /\ IndexOK /\ \A p \in Process : SyncOK(p)

-----------------------------------------------------------------------------
(* What no step undoes: operations keep what they are about, a committed   *)
(* request keeps its operations, a memory once stored never gets current   *)
(* again.                                                                  *)
Grows ==
    /\ DOMAIN ops \subseteq DOMAIN ops'
    /\ \A i \in DOMAIN ops :
          /\ ops'[i].request = ops[i].request
          /\ ops'[i].memory = ops[i].memory
          /\ ops'[i].kind = ops[i].kind
    /\ \A q \in Request : requests[q] # "none" =>
          requests'[q] # "none" /\ OpsOf(q)' = OpsOf(q)
    /\ \A m \in Memory : memory[m] # "none" =>
          memory'[m] # "none" /\ (memory[m] # "active" => memory'[m] # "active")

(* An operation's fields. *)
LEMMA OpTyped ==
    ASSUME Types, NEW i \in DOMAIN ops
    PROVE  /\ ops[i] \in Operation
           /\ ops[i].request \in Owner /\ ops[i].memory \in Memory
           /\ ops[i].kind \in {"upsert", "delete"}
           /\ ops[i].status \in {"pending", "failed", "synced"}
  <1>1. ops[i] \in Operation
    BY DEF Types
  <1> QED
    BY <1>1 DEF Operation

(* Replacing one element of a sequence. *)
LEMMA SeqReplaced ==
    ASSUME NEW S, NEW s \in Seq(S), NEW i \in DOMAIN s, NEW x \in S
    PROVE  [s EXCEPT ![i] = x] \in Seq(S)
  <1>1. Len(s) \in Nat /\ s \in [1..Len(s) -> S]
    OBVIOUS
  <1>2. [s EXCEPT ![i] = x] \in [1..Len(s) -> S]
    BY <1>1
  <1> QED
    BY <1>1, <1>2

(* The locals of a call have their types.                                   *)
LEMMA LocalTyped ==
    ASSUME Types, NEW p \in Process
    PROVE  /\ proc[p] \in Local
           /\ Plans(p) \in Seq(Plan)
           /\ proc[p].todo \subseteq Nat
           /\ proc[p].hits \subseteq Memory
           /\ proc[p].keep \subseteq Memory /\ proc[p].drop \subseteq Memory
           /\ proc[p].seen \in Validity
  <1>1. proc[p] \in Local
    BY DEF Types
  <1> QED
    BY <1>1 DEF Local, Plans

(* A plan names memories.                                                   *)
LEMMA PlansTyped ==
    ASSUME Types, NEW r \in Process, NEW i \in DOMAIN Plans(r)
    PROVE  /\ Plans(r)[i] \in Plan
           /\ Plans(r)[i].new \in Memory
           /\ Plans(r)[i].targets \in Seq(Memory)
           /\ ToSet(Plans(r)[i].targets) \subseteq Memory
  <1>1. Plans(r)[i] \in Plan
    <2>1. Plans(r) \in Seq(Plan)
      BY LocalTyped
    <2> QED
      BY <2>1
  <1>2. Plans(r)[i].new \in Memory /\ Plans(r)[i].targets \in Seq(Memory)
    BY <1>1 DEF Plan
  <1> QED
    BY <1>1, <1>2 DEF ToSet

(* The operation that is due is one of those to do. *)
LEMMA DueIsOne ==
    ASSUME Types, NEW p \in Process, CallOK(p), proc[p].todo # {}
    PROVE  Due(p) \in proc[p].todo /\ Due(p) \in DOMAIN ops
  <1>1. proc[p].todo \subseteq Nat
    BY LocalTyped
  <1>2. \E i \in proc[p].todo : \A j \in proc[p].todo : i <= j
    BY <1>1, LeastExists
  <1>3. Due(p) \in proc[p].todo
    BY <1>2, Zenon DEF Due
  <1> QED
    BY <1>3 DEF CallOK

(* The call that takes a step, and the others. *)
LEMMA Becoming ==
    ASSUME Types, NEW p \in Process, NEW local \in Local, Becomes(p, local)
    PROVE  /\ proc' \in [Process -> Local]
           /\ proc'[p] = local
           /\ \A r \in Process \ {p} : proc'[r] = proc[r]
  BY DEF Types, Becomes

(* The locals of a call that is over are typed.                             *)
LEMMA FreeTyped == Free \in Local
  <1>1. <<>> \in Seq(Plan)
    OBVIOUS
  <1> QED
    BY <1>1 DEF Free, Local, None, Validity

(* A call that takes up the outstanding operations of a request.            *)
LEMMA SyncingTyped ==
    ASSUME NEW q \in Owner, Types
    PROVE  /\ Syncing(q) \in Local
           /\ Syncing(q).plans = <<>> /\ Syncing(q).pc = "sync" /\ Syncing(q).request = q
           /\ Syncing(q).worst = "none"
           /\ Syncing(q).todo = {i \in OpsOf(q) : Outstanding(i)}
           /\ Syncing(q).todo \subseteq DOMAIN ops
  <1>1. {i \in OpsOf(q) : Outstanding(i)} \subseteq DOMAIN ops
    BY DEF OpsOf
  <1>2. DOMAIN ops \subseteq Nat
    BY DEF Types
  <1>3. <<>> \in Seq(Plan)
    OBVIOUS
  <1> QED
    BY <1>1, <1>2, <1>3 DEF Syncing, Free, Local, None, Validity

(* A call that takes no step keeps what it relies on.                       *)
LEMMA OthersCallOK ==
    ASSUME TruthInv, Grows, NEW r \in Process, proc'[r] = proc[r]
    PROVE  CallOK(r)'
  <1> USE DEF TruthInv
  <1>1. Due(r)' = Due(r)
    BY DEF Due
  <1>2. CallOK(r)
    OBVIOUS
  <1>3. proc[r].pc = "apply" => Due(r) \in DOMAIN ops
    BY <1>2, DueIsOne DEF CallOK
  <1> QED
    BY <1>1, <1>2, <1>3 DEF CallOK, Grows

(* An operation on record stays about a stored memory.                      *)
LEMMA OldOpsOK ==
    ASSUME TruthInv, Grows, NEW i \in DOMAIN ops
    PROVE  OpOK(i)'
  <1>1. OpOK(i) /\ ops[i].memory \in Memory
    BY OpTyped DEF TruthInv, OpsOK
  <1> QED
    BY <1>1 DEF OpOK, Grows

(* The plans and the links of a step that adds none. *)
LEMMA SamePlans ==
    ASSUME TruthInv, Types', Grows, NEW p \in Process,
           \A r \in Process \ {p} : proc'[r] = proc[r],
           proc'[p].plans \in {Plans(p), <<>>},
           successor' \subseteq successor,
           \A m \in Memory : memory[m] = "none" => memory'[m] = "none"
    PROVE  LinksOK' /\ FreshOK' /\ BatchOK' /\ NoFork'
  <1> USE DEF TruthInv
  <1>1. LinksOK'
    <2> SUFFICES ASSUME NEW link \in successor'
                 PROVE  memory'[link[1]] \in {"history", "deleted"}
      BY DEF LinksOK
    <2>1. link \in successor /\ link[1] \in Memory
      BY DEF Types
    <2>2. memory[link[1]] # "none" /\ memory[link[1]] # "active"
      BY <2>1 DEF LinksOK
    <2>3. memory'[link[1]] # "none" /\ memory'[link[1]] # "active"
      BY <2>1, <2>2 DEF Grows
    <2> QED
      BY <2>1, <2>3 DEF Types, Validity
  <1>2. \A r \in Process : DOMAIN Plans(r)' \subseteq DOMAIN Plans(r)
                           /\ \A i \in DOMAIN Plans(r)' : Plans(r)'[i] = Plans(r)[i]
    BY DEF Plans
  <1>3. \A r \in Process : \A i \in DOMAIN Plans(r) : Plans(r)[i].new \in Memory
    BY PlansTyped
  <1>4. FreshOK'
    BY <1>2, <1>3 DEF FreshOK
  <1>5. BatchOK'
    BY <1>2, Zenon DEF BatchOK
  <1>6. NoFork'
    BY DEF NoFork
  <1> QED
    BY <1>1, <1>4, <1>5, <1>6

(* A step that commits no plan keeps the truth if what it enqueues is       *)
(* about stored memories.                                                   *)
LEMMA TruthKept ==
    ASSUME TruthInv, Types', Grows, NEW p \in Process,
           \A r \in Process \ {p} : proc'[r] = proc[r],
           proc'[p].plans \in {Plans(p), <<>>},
           successor' \subseteq successor,
           \A m \in Memory : memory[m] = "none" => memory'[m] = "none",
           \A i \in DOMAIN ops' \ DOMAIN ops : OpOK(i)',
           CallOK(p)'
    PROVE  TruthInv'
  <1>1. OpsOK'
    BY OldOpsOK DEF OpsOK
  <1>2. \A r \in Process : CallOK(r)'
    BY OthersCallOK
  <1>3. LinksOK' /\ FreshOK' /\ BatchOK' /\ NoFork'
    BY SamePlans
  <1> QED
    BY <1>1, <1>2, <1>3 DEF TruthInv

(* A step that writes nothing but the index and the locals of its call. *)
LEMMA QuietStep ==
    ASSUME TruthInv, NEW p \in Process, NEW local \in Local, Becomes(p, local),
           local.plans \in {Plans(p), <<>>},
           UNCHANGED <<memory, successor, requests, ops>>,
           index' \in [Memory -> {"absent", "active", "history"}],
           calls' \in 0..MaxCalls,
           local.todo \subseteq DOMAIN ops,
           local.pc # "list", local.pc \in {"plan", "look"} => local.request \in Request,
           local.pc \in {"apply", "mark"} => local.todo # {},
           local.pc = "apply" => local.todo = proc[p].todo /\ ops[Due(p)].kind = "upsert",
           (local.pc \in Working /\ local.request \in Request) => requests[local.request] # "none"
    PROVE  TruthInv' /\ Grows
  <1>0. Types
    BY DEF TruthInv
  <1>1. /\ proc' \in [Process -> Local]
        /\ proc'[p] = local
        /\ \A r \in Process \ {p} : proc'[r] = proc[r]
    BY <1>0, Becoming
  <1>2. Grows
    BY DEF Grows, OpsOf
  <1>3. Types'
    BY <1>0, <1>1 DEF Types
  <1>4. CallOK(p)'
    <2>1. local.todo = proc[p].todo => Due(p)' = Due(p)
      BY <1>1 DEF Due
    <2> QED
      BY <1>1, <2>1 DEF CallOK
  <1>5. TruthInv'
    BY <1>1, <1>2, <1>3, <1>4, TruthKept
  <1> QED
    BY <1>2, <1>5

-----------------------------------------------------------------------------
(* A write that starts planning, or resumes its index work, leaves SQLite   *)
(* alone.                                                                   *)
LEMMA WriteTruth ==
    ASSUME TruthInv, NEW p \in Process, NEW q \in Request, Write(p, q), calls' = calls + 1
    PROVE  TruthInv' /\ Grows
  <1>0. Types /\ calls' \in 0..MaxCalls /\ UNCHANGED <<memory, successor, requests, ops, index>>
    BY MemoryStoreAssumption DEF TruthInv, Types, Write, Ready
  <1>1. CASE requests[q] = "none" /\ Becomes(p, [Free EXCEPT !.pc = "plan", !.request = q])
    <2> DEFINE local == [Free EXCEPT !.pc = "plan", !.request = q]
    <2>1. /\ local \in Local /\ local.plans = <<>> /\ local.todo = {}
          /\ local.pc = "plan" /\ local.request = q
      BY FreeTyped DEF Local, Free, Owner
    <2> HIDE DEF local
    <2> QED
      BY <1>0, <1>1, <2>1, QuietStep DEF Types, Working, local
  <1>2. CASE requests[q] \in {"retryable", "failed"} /\ Becomes(p, Syncing(q))
    <2>1. q \in Owner
      BY DEF Owner
    <2> QED
      BY <1>0, <1>2, <2>1, SyncingTyped, QuietStep DEF Types, Working
  <1> QED
    BY <1>1, <1>2 DEF Write

(* A repair takes up operations and leaves SQLite alone.                    *)
LEMMA RepairTruth ==
    ASSUME TruthInv, NEW p \in Process, NEW q \in Owner, Repair(p, q), calls' = calls + 1
    PROVE  TruthInv' /\ Grows
  <1>0. Types /\ calls' \in 0..MaxCalls /\ UNCHANGED <<memory, successor, requests, ops, index>>
    BY MemoryStoreAssumption DEF TruthInv, Types, Repair, Ready
  <1>1. q \in Request => requests[q] # "none"
    BY DEF Repair
  <1> QED
    BY <1>0, <1>1, SyncingTyped, QuietStep DEF Repair, Types, Working

(* A rebuild reads the current memories and leaves SQLite alone.            *)
LEMMA RebuildReadTruth ==
    ASSUME TruthInv, NEW p \in Process, RebuildRead(p), calls' = calls + 1
    PROVE  TruthInv' /\ Grows
  <1>0. Types /\ calls' \in 0..MaxCalls /\ UNCHANGED <<memory, successor, requests, ops, index>>
    BY MemoryStoreAssumption DEF TruthInv, Types, RebuildRead, Ready
  <1> DEFINE local == [Free EXCEPT !.pc = "scan", !.keep = Active]
  <1>1. local \in Local /\ local.plans = <<>> /\ local.todo = {} /\ local.pc = "scan"
    BY FreeTyped DEF Local, Free, Active
  <1>2. Becomes(p, local)
    BY DEF RebuildRead
  <1> HIDE DEF local
  <1> QED
    BY <1>0, <1>1, <1>2, QuietStep DEF Types, Working

(* Listing its operations, a call relies on its own request's commit.       *)
LEMMA ListOpsTruth ==
    ASSUME TruthInv, NEW p \in Process, ListOps(p), UNCHANGED calls
    PROVE  TruthInv' /\ Grows
  <1>0. Types /\ calls' \in 0..MaxCalls /\ UNCHANGED <<memory, successor, requests, ops, index>>
    BY DEF TruthInv, Types, ListOps
  <1> DEFINE q == proc[p].request
  <1>1. CallOK(p) /\ proc[p].pc = "list"
    BY DEF TruthInv, ListOps
  <1>2. q \in Request /\ q \in Owner /\ requests[q] # "none"
    BY <1>1 DEF CallOK, Owner
  <1> QED
    BY <1>0, <1>1, <1>2, SyncingTyped, QuietStep DEF Types, Working, ListOps

(* A call that has read a record has an upsert that is due.                 *)
LEMMA FetchTruth ==
    ASSUME TruthInv, NEW p \in Process, Fetch(p), UNCHANGED calls
    PROVE  TruthInv' /\ Grows
  <1>0. Types /\ calls' \in 0..MaxCalls /\ UNCHANGED <<memory, successor, requests, ops, index>>
    BY DEF TruthInv, Types, Fetch
  <1> DEFINE seen == memory[ops[Due(p)].memory]
             local == [proc[p] EXCEPT !.pc = "apply", !.seen = seen]
  <1>1. CallOK(p) /\ proc[p].pc = "sync" /\ proc[p].todo # {} /\ ops[Due(p)].kind = "upsert"
        /\ Becomes(p, local)
    BY DEF TruthInv, Fetch
  <1>2. proc[p] \in Local /\ proc[p].todo \subseteq DOMAIN ops
    BY <1>0, <1>1, LocalTyped DEF CallOK
  <1>3. seen \in Validity
    <2>1. Due(p) \in DOMAIN ops
      BY <1>0, <1>1, DueIsOne
    <2> QED
      BY <1>0, <2>1, OpTyped DEF Types
  <1> HIDE DEF seen
  <1>4. /\ local \in Local /\ local.plans = Plans(p) /\ local.todo = proc[p].todo
        /\ local.pc = "apply" /\ local.request = proc[p].request
    BY <1>2, <1>3 DEF Local, Plans
  <1>5. local.request \in Request => requests[local.request] # "none"
    BY <1>1, <1>4 DEF CallOK, Working
  <1> HIDE DEF local
  <1> QED
    BY <1>0, <1>1, <1>2, <1>4, <1>5, QuietStep DEF Types

(* What a call writes to the index. *)
LEMMA AppliedTyped ==
    ASSUME NEW op, NEW seen
    PROVE  Applied(op, seen) \in {"absent", "active", "history"}
  BY DEF Applied

(* Applying an operation alters the index alone.                            *)
LEMMA ApplyTruth ==
    ASSUME TruthInv, NEW p \in Process, Apply(p), UNCHANGED calls
    PROVE  TruthInv' /\ Grows
  <1>0. Types /\ calls' \in 0..MaxCalls /\ UNCHANGED <<memory, successor, requests, ops>>
    BY DEF TruthInv, Types, Apply
  <1>1. CallOK(p) /\ proc[p].pc \in {"sync", "apply"} /\ proc[p].todo # {}
    BY DEF TruthInv, Apply
  <1>2. proc[p] \in Local /\ proc[p].todo \subseteq DOMAIN ops
    BY <1>0, <1>1, LocalTyped DEF CallOK
  <1>3. index' \in [Memory -> {"absent", "active", "history"}]
    <2> DEFINE op == ops[Due(p)]
               entry == Applied(op, proc[p].seen)
    <2>1. index' = [index EXCEPT ![op.memory] = entry] \/ index' = index
      BY DEF Apply
    <2>2. entry \in {"absent", "active", "history"}
      BY AppliedTyped
    <2> HIDE DEF entry
    <2> QED
      BY <1>0, <2>1, <2>2 DEF Types
  <1>4. PICK error \in Errors \cup {proc[p].error} :
           Becomes(p, [proc[p] EXCEPT !.pc = "mark", !.seen = "none", !.error = error])
    <2>1. CASE Becomes(p, [proc[p] EXCEPT !.pc = "mark", !.seen = "none"])
      <3>1. [proc[p] EXCEPT !.pc = "mark", !.seen = "none"] =
            [proc[p] EXCEPT !.pc = "mark", !.seen = "none", !.error = proc[p].error]
        BY <1>2 DEF Local
      <3> QED
        BY <2>1, <3>1
    <2>2. CASE \E error \in Errors :
                  Becomes(p, [proc[p] EXCEPT !.pc = "mark", !.seen = "none", !.error = error])
      BY <2>2
    <2> QED
      BY <2>1, <2>2 DEF Apply
  <1> DEFINE local == [proc[p] EXCEPT !.pc = "mark", !.seen = "none", !.error = error]
  <1>5. /\ local \in Local /\ local.plans = Plans(p) /\ local.todo = proc[p].todo
        /\ local.pc = "mark" /\ local.request = proc[p].request
    BY <1>2, <1>4, MemoryStoreAssumption DEF Local, Plans, Validity
  <1>6. local.request \in Request => requests[local.request] # "none"
    BY <1>1, <1>5 DEF CallOK, Working
  <1>7. Becomes(p, local)
    BY <1>4
  <1> HIDE DEF local
  <1> QED
    BY <1>0, <1>1, <1>2, <1>3, <1>5, <1>6, <1>7, QuietStep

(* A rebuild reads the ids in the index and leaves SQLite alone.            *)
LEMMA RebuildScanTruth ==
    ASSUME TruthInv, NEW p \in Process, RebuildScan(p), UNCHANGED calls
    PROVE  TruthInv' /\ Grows
  <1>0. Types /\ calls' \in 0..MaxCalls /\ UNCHANGED <<memory, successor, requests, ops>>
        /\ proc[p].pc = "scan" /\ CallOK(p)
    BY DEF TruthInv, Types, RebuildScan
  <1>1. index' \in [Memory -> {"absent", "active", "history"}]
    BY <1>0 DEF RebuildScan, Types
  <1>2. CASE Becomes(p, Free)
    <2>1. Free.plans = <<>> /\ Free.todo = {} /\ Free.pc = "idle"
      BY DEF Free
    <2> QED
      BY <1>0, <1>1, <1>2, <2>1, FreeTyped, QuietStep DEF Working
  <1>3. CASE Becomes(p, [proc[p] EXCEPT !.pc = "rebuild", !.drop = StaleIds(proc[p].keep)])
    <2> DEFINE local == [proc[p] EXCEPT !.pc = "rebuild", !.drop = StaleIds(proc[p].keep)]
    <2>1. StaleIds(proc[p].keep) \subseteq Memory
      BY DEF StaleIds
    <2>2. /\ local \in Local /\ local.plans = Plans(p) /\ local.todo = proc[p].todo
          /\ local.pc = "rebuild"
      BY <1>0, <2>1, LocalTyped DEF Local, Plans
    <2>3. local.todo \subseteq DOMAIN ops
      BY <1>0, <2>2 DEF CallOK
    <2> HIDE DEF local
    <2> QED
      BY <1>0, <1>1, <1>3, <2>2, <2>3, QuietStep DEF Working, local
  <1> QED
    BY <1>2, <1>3 DEF RebuildScan

(* A rebuild writes and deletes entries of the index alone.                 *)
LEMMA RebuildStepTruth ==
    ASSUME TruthInv, NEW p \in Process, RebuildStep(p), UNCHANGED calls
    PROVE  TruthInv' /\ Grows
  <1>0. Types /\ calls' \in 0..MaxCalls /\ UNCHANGED <<memory, successor, requests, ops>>
        /\ proc[p].pc = "rebuild" /\ CallOK(p)
    BY DEF TruthInv, Types, RebuildStep
  <1>1. index' \in [Memory -> {"absent", "active", "history"}]
    BY <1>0 DEF RebuildStep, Types
  <1>2. CASE Becomes(p, Free)
    <2>1. Free.plans = <<>> /\ Free.todo = {} /\ Free.pc = "idle"
      BY DEF Free
    <2> QED
      BY <1>0, <1>1, <1>2, <2>1, FreeTyped, QuietStep DEF Working
  <1>3. ASSUME NEW local, Becomes(p, local),
               \E m \in Memory : \/ local = [proc[p] EXCEPT !.keep = @ \ {m}]
                                 \/ local = [proc[p] EXCEPT !.drop = @ \ {m}]
        PROVE  TruthInv' /\ Grows
    <2>1. /\ local \in Local /\ local.plans = Plans(p) /\ local.todo = proc[p].todo
          /\ local.pc = "rebuild"
      BY <1>0, <1>3, LocalTyped DEF Local, Plans
    <2>2. local.todo \subseteq DOMAIN ops
      BY <1>0, <2>1 DEF CallOK
    <2> QED
      BY <1>0, <1>1, <1>3, <2>1, <2>2, QuietStep DEF Working
  <1>4. \/ Becomes(p, Free)
        \/ \E m \in Memory : \/ Becomes(p, [proc[p] EXCEPT !.keep = @ \ {m}])
                             \/ Becomes(p, [proc[p] EXCEPT !.drop = @ \ {m}])
    <2>1. proc[p].keep \subseteq Memory /\ proc[p].drop \subseteq Memory
      BY <1>0, LocalTyped
    <2> QED
      BY <2>1 DEF RebuildStep
  <1> QED
    BY <1>2, <1>3, <1>4

(* A call that dies leaves both stores as they are.                         *)
LEMMA AbortTruth ==
    ASSUME TruthInv, NEW p \in Process, Abort(p), UNCHANGED calls
    PROVE  TruthInv' /\ Grows
  <1>0. Types /\ calls' \in 0..MaxCalls /\ UNCHANGED <<memory, successor, requests, ops, index>>
    BY DEF TruthInv, Types, Abort
  <1>1. Free.plans = <<>> /\ Free.todo = {} /\ Free.pc = "idle"
    BY DEF Free
  <1> QED
    BY <1>0, <1>1, FreeTyped, QuietStep DEF Abort, Types, Working

-----------------------------------------------------------------------------
(* The outcome of an operation is marked: its other fields stay. *)
LEMMA MarkTruth ==
    ASSUME TruthInv, NEW p \in Process, Mark(p), UNCHANGED calls
    PROVE  TruthInv' /\ Grows
  <1>0. Types /\ CallOK(p) /\ proc[p].pc = "mark" /\ UNCHANGED <<memory, successor, requests, index, calls>>
    BY DEF TruthInv, Mark
  <1>1. Due(p) \in DOMAIN ops
    BY <1>0, DueIsOne DEF CallOK
  <1>2. /\ ops' \in Seq(Operation) /\ DOMAIN ops' = DOMAIN ops
        /\ \A i \in DOMAIN ops :
              /\ ops'[i].request = ops[i].request
              /\ ops'[i].memory = ops[i].memory
              /\ ops'[i].kind = ops[i].kind
    <2> DEFINE status == StatusAfter(proc[p].error)
    <2>1. status \in {"pending", "failed", "synced"}
      BY DEF StatusAfter
    <2>2. ops' = [ops EXCEPT ![Due(p)].status = status]
      BY DEF Mark
    <2> HIDE DEF status
    <2>3. \A i \in DOMAIN ops : ops[i] \in Operation
      BY <1>0, OpTyped
    <2>4. [ops[Due(p)] EXCEPT !.status = status] \in Operation
      BY <1>1, <2>1, <2>3 DEF Operation
    <2>5. ops' = [ops EXCEPT ![Due(p)] = [ops[Due(p)] EXCEPT !.status = status]]
      BY <2>2
    <2>6. ops' \in Seq(Operation) /\ DOMAIN ops' = DOMAIN ops
      BY <1>0, <1>1, <2>4, <2>5, SeqReplaced DEF Types
    <2>7. \A i \in DOMAIN ops : ops'[i] = IF i = Due(p) THEN [ops[i] EXCEPT !.status = status] ELSE ops[i]
      BY <2>5
    <2> QED
      BY <2>3, <2>6, <2>7 DEF Operation
  <1> DEFINE local == [proc[p] EXCEPT !.pc = "sync", !.todo = @ \ {Due(p)},
                          !.worst = Worst(@, proc[p].error), !.error = "none"]
  <1>3. /\ local \in Local /\ local.plans = Plans(p) /\ local.todo = proc[p].todo \ {Due(p)}
        /\ local.pc = "sync" /\ local.request = proc[p].request
    <2>1. proc[p] \in Local
      BY <1>0, LocalTyped
    <2>2. \A w : Worst(w, proc[p].error) \in {"none", "unavailable", "mismatch"}
      BY DEF Worst
    <2> QED
      BY <2>1, <2>2 DEF Local, Plans
  <1>4. Becomes(p, local)
    BY DEF Mark
  <1> HIDE DEF local
  <1>5. /\ proc' \in [Process -> Local]
        /\ proc'[p] = local
        /\ \A r \in Process \ {p} : proc'[r] = proc[r]
    BY <1>0, <1>3, <1>4, Becoming
  <1>6. Types'
    BY <1>0, <1>2, <1>5 DEF Types
  <1>7. Grows
    BY <1>0, <1>2 DEF Grows, OpsOf
  <1>8. CallOK(p)'
    BY <1>0, <1>2, <1>3, <1>5 DEF CallOK, Working
  <1> QED
    BY <1>0, <1>2, <1>3, <1>5, <1>6, <1>7, <1>8, TruthKept

(* Saving a report keeps the request reserved.                              *)
LEMMA FinishTruth ==
    ASSUME TruthInv, NEW p \in Process, Finish(p), UNCHANGED calls
    PROVE  TruthInv' /\ Grows
  <1>0. Types /\ CallOK(p) /\ proc[p].pc = "sync" /\ UNCHANGED <<memory, successor, ops, index, calls>>
    BY DEF TruthInv, Finish
  <1>1. /\ proc' \in [Process -> Local]
        /\ proc'[p] = Free
        /\ \A r \in Process \ {p} : proc'[r] = proc[r]
    BY <1>0, FreeTyped, Becoming DEF Finish
  <1>2. ReportAfter(proc[p].worst) \in Report /\ ReportAfter(proc[p].worst) # "none"
    <2>1. proc[p].worst \in {"none", "unavailable", "mismatch"}
      BY <1>0, LocalTyped DEF Local
    <2> QED
      BY <2>1 DEF ReportAfter, Report
  <1>3. requests' \in [Request -> Report] /\ \A q \in Request : requests[q] # "none" => requests'[q] # "none"
    BY <1>0, <1>2 DEF Finish, Types
  <1>4. Types'
    BY <1>0, <1>1, <1>3 DEF Types
  <1>5. Grows
    BY <1>0, <1>3 DEF Grows, OpsOf
  <1>6. Free.plans = <<>> /\ Free.todo = {} /\ Free.pc = "idle"
    BY DEF Free
  <1>7. CallOK(p)'
    BY <1>1, <1>6 DEF CallOK, Working
  <1> QED
    BY <1>0, <1>1, <1>4, <1>5, <1>6, <1>7, TruthKept

(* A deletion's own operation. *)
LEMMA DeleteTruth ==
    ASSUME TruthInv, NEW p \in Process, NEW m \in Memory, Delete(p, m), calls' = calls + 1
    PROVE  TruthInv' /\ Grows
  <1>0. Types /\ calls' \in 0..MaxCalls /\ UNCHANGED <<requests, index>>
        /\ memory[m] \in {"active", "history"}
    BY MemoryStoreAssumption DEF TruthInv, Types, Delete, Ready
  <1> DEFINE new == Enqueued(m, m, "delete")
             n == Len(ops) + 1
             local == [Free EXCEPT !.pc = "sync", !.request = m, !.todo = {n}]
  <1>1. new \in Operation /\ new.request = m /\ new.memory = m /\ new.kind = "delete"
    BY DEF Enqueued, Operation, Owner
  <1>2. ops' = Append(ops, new)
    BY DEF Delete
  <1> HIDE DEF new
  <1>3. /\ ops' \in Seq(Operation) /\ n \in Nat
        /\ DOMAIN ops' = DOMAIN ops \cup {n} /\ n \notin DOMAIN ops
        /\ \A i \in DOMAIN ops : ops'[i] = ops[i]
        /\ ops'[n] = new
    BY <1>0, <1>1, <1>2 DEF Types
  <1>4. Becomes(p, local)
    BY DEF Delete
  <1> HIDE DEF n
  <1>5. /\ local \in Local /\ local.plans = <<>> /\ local.todo = {n} /\ local.pc = "sync"
        /\ local.request = m
    BY <1>3, FreeTyped DEF Local, Free, Owner
  <1> HIDE DEF local
  <1>6. /\ proc' \in [Process -> Local]
        /\ proc'[p] = local
        /\ \A r \in Process \ {p} : proc'[r] = proc[r]
    BY <1>0, <1>4, <1>5, Becoming
  <1>7. memory' = [memory EXCEPT ![m] = "deleted"] /\ successor' \subseteq successor
    BY DEF Delete
  <1>8. Types'
    BY <1>0, <1>3, <1>6, <1>7 DEF Types, Validity
  <1>9. m \notin Request
    BY MemoryStoreAssumption
  <1>10. Grows
    BY <1>0, <1>1, <1>3, <1>7, <1>9 DEF Grows, OpsOf, Types
  <1>11. \A i \in DOMAIN ops' \ DOMAIN ops : OpOK(i)'
    BY <1>0, <1>1, <1>3, <1>7, <1>9 DEF OpOK, Types
  <1>12. CallOK(p)'
    BY <1>3, <1>5, <1>6, <1>9 DEF CallOK
  <1>13. \A x \in Memory : memory[x] = "none" => memory'[x] = "none"
    BY <1>0, <1>7 DEF Types
  <1> QED
    BY <1>5, <1>6, <1>7, <1>8, <1>10, <1>11, <1>12, <1>13, TruthKept

-----------------------------------------------------------------------------
(* A sequence that lists a set. *)
LEMMA ListsSet ==
    ASSUME NEW S, NEW s \in SetToSeqs(S)
    PROVE  s \in [1..Cardinality(S) -> S]
  BY DEF SetToSeqs

(* A lookup reads the index and leaves SQLite alone.                        *)
LEMMA QueryTruth ==
    ASSUME TruthInv, NEW p \in Process, Query(p), UNCHANGED calls
    PROVE  TruthInv' /\ Grows
  <1>0. Types /\ calls' \in 0..MaxCalls /\ UNCHANGED <<memory, successor, requests, ops, index>>
        /\ CallOK(p) /\ proc[p].pc = "plan"
    BY DEF TruthInv, Types, Query
  <1> DEFINE hits == {m \in Active : index[m] = "active"}
             local == [proc[p] EXCEPT !.pc = "look", !.hits = hits]
  <1>1. hits \subseteq Memory
    BY DEF Active
  <1>2. Becomes(p, local)
    BY DEF Query
  <1> HIDE DEF hits
  <1>3. /\ local \in Local /\ local.plans = Plans(p) /\ local.todo = proc[p].todo
        /\ local.pc = "look" /\ local.request = proc[p].request
    BY <1>0, <1>1, LocalTyped DEF Local, Plans
  <1>4. local.todo \subseteq DOMAIN ops /\ local.request \in Request
    BY <1>0, <1>3 DEF CallOK
  <1> HIDE DEF local
  <1> QED
    BY <1>0, <1>2, <1>3, <1>4, QuietStep DEF Types, Working

(* One more plan: its id is nobody's, and what it replaces no earlier plan *)
(* of the batch has replaced.                                              *)
LEMMA PlanCandidateTruth ==
    ASSUME TruthInv, NEW p \in Process, PlanCandidate(p), UNCHANGED calls
    PROVE  TruthInv' /\ Grows
  <1>0. Types /\ CallOK(p) /\ proc[p].pc = "look" /\ UNCHANGED <<memory, successor, requests, ops, index, calls>>
    BY DEF TruthInv, PlanCandidate
  <1> DEFINE overlay == (Found(p) \cup NewOf(Plans(p))) \ TargetsOf(Plans(p))
             planned(new, targets) ==
                [proc[p] EXCEPT !.pc = "plan", !.hits = {},
                                !.plans = Append(@, [new |-> new, targets |-> targets])]
  <1>1. PICK new \in Unused, replaced \in SUBSET overlay :
           \E targets \in SetToSeqs(replaced) : Becomes(p, planned(new, targets))
    BY Zenon DEF PlanCandidate, Plans
  <1>2. PICK targets \in SetToSeqs(replaced) : Becomes(p, planned(new, targets))
    BY <1>1
  <1> HIDE DEF overlay
  <1> DEFINE plan == [new |-> new, targets |-> targets]
             local == [proc[p] EXCEPT !.pc = "plan", !.hits = {}, !.plans = Append(@, plan)]
  <1>3. new \in Memory /\ memory[new] = "none"
        /\ \A r \in Process : \A j \in DOMAIN Plans(r) : Plans(r)[j].new # new
    BY DEF Unused, NewOf, Plans
  <1>4. overlay \subseteq Memory
    BY <1>0, PlansTyped, LocalTyped DEF overlay, Found, Owed, Active, NewOf
  <1>5. targets \in Seq(Memory) /\ ToSet(targets) \subseteq replaced
    <2>1. targets \in [1..Cardinality(replaced) -> replaced]
      BY ListsSet
    <2>2. Cardinality(replaced) \in Nat
      BY <1>4, FS_Subset, FS_CardinalityType, MemoryStoreAssumption
    <2>3. targets \in [1..Cardinality(replaced) -> Memory]
      BY <1>4, <2>1
    <2>4. targets \in Seq(Memory)
      BY <2>2, <2>3
    <2> QED
      BY <2>1, <2>4 DEF ToSet
  <1>6. plan \in Plan /\ plan.new = new /\ plan.targets = targets
    BY <1>3, <1>5 DEF Plan
  <1> HIDE DEF plan
  <1>7. /\ Plans(p) \in Seq(Plan)
        /\ Append(Plans(p), plan) \in Seq(Plan)
        /\ DOMAIN Append(Plans(p), plan) = DOMAIN Plans(p) \cup {Len(Plans(p)) + 1}
        /\ \A i \in DOMAIN Plans(p) : Append(Plans(p), plan)[i] = Plans(p)[i]
        /\ Append(Plans(p), plan)[Len(Plans(p)) + 1] = plan
    <2>1. Plans(p) \in Seq(Plan)
      BY <1>0, LocalTyped
    <2> QED
      BY <1>6, <2>1
  <1>8. /\ local \in Local /\ local.plans = Append(Plans(p), plan)
        /\ local.pc = "plan" /\ local.request = proc[p].request /\ local.todo = proc[p].todo
    <2>1. proc[p] \in Local
      BY <1>0, LocalTyped
    <2> QED
      BY <1>0, <1>7, <2>1 DEF Local, Plans
  <1>9. Becomes(p, local)
    BY <1>2 DEF plan
  <1> HIDE DEF local
  <1>10. /\ proc' \in [Process -> Local]
         /\ proc'[p] = local
         /\ \A r \in Process \ {p} : proc'[r] = proc[r]
    BY <1>0, <1>8, <1>9, Becoming
  <1>11. Types'
    BY <1>0, <1>10 DEF Types
  <1>12. Grows
    BY <1>0 DEF Grows, OpsOf
  <1>13. \A r \in Process : CallOK(r)'
    <2>1. CallOK(p)'
      BY <1>0, <1>8, <1>10 DEF CallOK, Working
    <2> QED
      BY <1>10, <1>12, <2>1, OthersCallOK
  <1>14. OpsOK' /\ LinksOK' /\ NoFork'
    BY <1>0 DEF TruthInv, OpsOK, OpOK, LinksOK, NoFork
  <1>15. Plans(p)' = Append(Plans(p), plan) /\ \A r \in Process \ {p} : Plans(r)' = Plans(r)
    BY <1>8, <1>10 DEF Plans
  <1>16. FreshOK /\ BatchOK
    BY DEF TruthInv
  <1>17. FreshOK'
    <2> SUFFICES ASSUME NEW q \in Process, NEW i \in DOMAIN Plans(q)'
                 PROVE  /\ memory[Plans(q)'[i].new] = "none"
                        /\ \A r \in Process : \A j \in DOMAIN Plans(r)' :
                              Plans(r)'[j].new = Plans(q)'[i].new => r = q
      BY <1>0 DEF FreshOK
    <2>1. CASE q # p
      <3>1. Plans(q)' = Plans(q) /\ i \in DOMAIN Plans(q)
        BY <1>15, <2>1
      <3>2. memory[Plans(q)[i].new] = "none" /\ Plans(q)[i].new # new
        BY <1>3, <1>16, <3>1 DEF FreshOK
      <3>3. ASSUME NEW r \in Process, NEW j \in DOMAIN Plans(r)',
                   Plans(r)'[j].new = Plans(q)'[i].new
            PROVE  r = q
        <4>1. j \in DOMAIN Plans(r) /\ Plans(r)'[j] = Plans(r)[j]
          BY <1>6, <1>7, <1>15, <3>1, <3>2, <3>3
        <4> QED
          BY <1>16, <3>1, <3>3, <4>1 DEF FreshOK
      <3> QED
        BY <3>1, <3>2, <3>3
    <2>2. CASE q = p /\ i \in DOMAIN Plans(p)
      BY <1>7, <1>15, <1>16, <2>2 DEF FreshOK
    <2>3. CASE q = p /\ i = Len(Plans(p)) + 1
      BY <1>3, <1>6, <1>7, <1>15, <2>3
    <2> QED
      BY <1>7, <1>15, <2>1, <2>2, <2>3
  <1>18. \A i \in DOMAIN Plans(p) : ToSet(targets) \cap ToSet(Plans(p)[i].targets) = {}
    BY <1>5 DEF overlay, TargetsOf
  <1>19. BatchOK'
    <2> SUFFICES ASSUME NEW q \in Process, NEW i \in DOMAIN Plans(q)', NEW j \in DOMAIN Plans(q)', i # j
                 PROVE  ToSet(Plans(q)'[i].targets) \cap ToSet(Plans(q)'[j].targets) = {}
      BY DEF BatchOK
    <2>1. CASE q # p \/ (i \in DOMAIN Plans(p) /\ j \in DOMAIN Plans(p))
      BY <1>7, <1>15, <1>16, <2>1, Zenon DEF BatchOK
    <2>2. CASE q = p /\ i = Len(Plans(p)) + 1 /\ j \in DOMAIN Plans(p)
      BY <1>6, <1>7, <1>15, <1>18, <2>2
    <2>3. CASE q = p /\ j = Len(Plans(p)) + 1 /\ i \in DOMAIN Plans(p)
      BY <1>6, <1>7, <1>15, <1>18, <2>3
    <2> QED
      BY <1>7, <1>15, <2>1, <2>2, <2>3
  <1> QED
    BY <1>11, <1>12, <1>13, <1>14, <1>17, <1>19 DEF TruthInv

-----------------------------------------------------------------------------
(* The operations of one plan: a deletion for each target, an upsert of    *)
(* the new memory at the end.                                              *)
PlanOps(q, targets, news) ==
    {op \in Operation :
        /\ op.request = q /\ op.status = "pending"
        /\ IF op.kind = "delete" THEN op.memory \in targets ELSE op.memory \in news}

(* The operations of a plan are about its targets and its new memory,       *)
(* which is upserted.                                                       *)
LEMMA OpsForPlan ==
    ASSUME NEW q \in Request, NEW plan \in Plan, NEW targets, NEW news,
           ToSet(plan.targets) \subseteq targets, plan.new \in news
    PROVE  /\ OpsFor(q, plan) \in Seq(PlanOps(q, targets, news))
           /\ \E k \in 1..Len(OpsFor(q, plan)) :
                 OpsFor(q, plan)[k].kind = "upsert" /\ OpsFor(q, plan)[k].memory = plan.new
  <1> DEFINE S == PlanOps(q, targets, news)
             deletes == [i \in DOMAIN plan.targets |-> Enqueued(q, plan.targets[i], "delete")]
             last == Enqueued(q, plan.new, "upsert")
  <1>1. plan.targets \in Seq(Memory) /\ plan.new \in Memory
    BY DEF Plan
  <1>2. \A i \in DOMAIN plan.targets : plan.targets[i] \in Memory /\ plan.targets[i] \in targets
    BY <1>1 DEF ToSet
  <1>3. ASSUME NEW m \in Memory, NEW kind \in {"upsert", "delete"}
        PROVE  /\ Enqueued(q, m, kind) \in Operation
               /\ Enqueued(q, m, kind).request = q /\ Enqueued(q, m, kind).status = "pending"
               /\ Enqueued(q, m, kind).kind = kind /\ Enqueued(q, m, kind).memory = m
    BY DEF Enqueued, Operation, Owner
  <1>4. \A i \in DOMAIN plan.targets : Enqueued(q, plan.targets[i], "delete") \in S
    BY <1>2, <1>3 DEF PlanOps
  <1>5. last \in S /\ last.kind = "upsert" /\ last.memory = plan.new
    BY <1>1, <1>3 DEF PlanOps
  <1>6. deletes \in Seq(S)
    <2>1. DOMAIN plan.targets = 1..Len(plan.targets) /\ Len(plan.targets) \in Nat
      BY <1>1
    <2>2. deletes \in [1..Len(plan.targets) -> S]
      BY <1>4, <2>1
    <2> HIDE DEF deletes, S
    <2> QED
      BY <2>1, <2>2
  <1>7. OpsFor(q, plan) = Append(deletes, last)
    BY DEF OpsFor
  <1> HIDE DEF deletes, last, S
  <1>8. /\ Append(deletes, last) \in Seq(S)
        /\ Len(deletes) + 1 \in 1..Len(Append(deletes, last))
        /\ Append(deletes, last)[Len(deletes) + 1] = last
    BY <1>5, <1>6
  <1> QED
    BY <1>5, <1>7, <1>8 DEF S

(* The operations of a batch, and the upsert of each memory it adds.        *)
LEMMA OpsForBatch ==
    ASSUME NEW q \in Request, NEW plans \in Seq(Plan), NEW new,
           new = FlattenSeq([i \in DOMAIN plans |-> OpsFor(q, plans[i])])
    PROVE  /\ new \in Seq(PlanOps(q, TargetsOf(plans), NewOf(plans)))
           /\ \A m \in NewOf(plans) : \E k \in 1..Len(new) :
                 new[k].kind = "upsert" /\ new[k].memory = m
  <1> DEFINE S == PlanOps(q, TargetsOf(plans), NewOf(plans))
             seqs == [i \in DOMAIN plans |-> OpsFor(q, plans[i])]
  <1>1. ASSUME NEW i \in DOMAIN plans
        PROVE  /\ OpsFor(q, plans[i]) \in Seq(S)
               /\ \E k \in 1..Len(OpsFor(q, plans[i])) :
                     /\ OpsFor(q, plans[i])[k].kind = "upsert"
                     /\ OpsFor(q, plans[i])[k].memory = plans[i].new
    <2>1. plans[i] \in Plan
      OBVIOUS
    <2>2. ToSet(plans[i].targets) \subseteq TargetsOf(plans) /\ plans[i].new \in NewOf(plans)
      BY DEF TargetsOf, NewOf
    <2> QED
      BY <2>1, <2>2, OpsForPlan
  <1>2. DOMAIN plans = 1..Len(plans) /\ Len(plans) \in Nat
    OBVIOUS
  <1> HIDE DEF S
  <1>3. seqs \in Seq(Seq(S)) /\ Len(seqs) = Len(plans)
    <2>1. seqs \in [1..Len(plans) -> Seq(S)]
      BY <1>1, <1>2
    <2> HIDE DEF seqs
    <2> QED
      BY <1>2, <2>1
  <1>4. \A i \in 1..Len(plans) : seqs[i] = OpsFor(q, plans[i])
    BY <1>2
  <1>5. new = FlattenSeq(seqs)
    OBVIOUS
  <1> HIDE DEF seqs
  <1>6. new \in Seq(S)
    BY <1>3, <1>5, FlattenTyped
  <1>7. ASSUME NEW m \in NewOf(plans)
        PROVE  \E k \in 1..Len(new) : new[k].kind = "upsert" /\ new[k].memory = m
    <2>1. PICK i \in 1..Len(plans) : plans[i].new = m
      BY <1>2 DEF NewOf
    <2>2. PICK j \in 1..Len(seqs[i]) : seqs[i][j].kind = "upsert" /\ seqs[i][j].memory = m
      BY <1>1, <1>2, <1>4, <2>1
    <2>3. i \in 1..Len(seqs)
      BY <1>3
    <2>4. PICK k \in 1..Len(new) : new[k] = seqs[i][j]
      <3>1. seqs \in Seq(Seq(S)) /\ i \in 1..Len(seqs) /\ j \in 1..Len(seqs[i])
        BY <1>3, <2>3
      <3>2. \E k \in 1..Len(FlattenSeq(seqs)) : FlattenSeq(seqs)[k] = seqs[i][j]
        BY <3>1, FlattenCovers, Zenon
      <3> QED
        BY <1>5, <3>2
    <2> QED
      BY <2>2, <2>4
  <1> QED
    BY <1>6, <1>7 DEF S

(* The commit, when it is not turned away. *)
Committed(p) ==
    /\ proc[p].pc = "plan"
    /\ StillActive(Plans(p)) /\ requests[proc[p].request] = "none"
    /\ memory' = [m \in Memory |->
           IF m \in TargetsOf(Plans(p)) THEN "history"
           ELSE IF m \in NewOf(Plans(p)) THEN "active" ELSE memory[m]]
    /\ successor' = successor \cup
           UNION {ToSet(Plans(p)[i].targets) \X {Plans(p)[i].new} : i \in DOMAIN Plans(p)}
    /\ ops' = ops \o FlattenSeq([i \in DOMAIN Plans(p) |-> OpsFor(proc[p].request, Plans(p)[i])])
    /\ requests' = [requests EXCEPT ![proc[p].request] = "retryable"]
    /\ Becomes(p, [Free EXCEPT !.pc = "list", !.request = proc[p].request])
    /\ UNCHANGED index

Refused(p) ==
    /\ proc[p].pc = "plan" /\ Becomes(p, Free)
    /\ UNCHANGED <<memory, successor, requests, ops, index>>

(* A commit writes all of its plan or none of it.                           *)
LEMMA CommitOutcome == ASSUME NEW p, Commit(p) PROVE Committed(p) \/ Refused(p)
  <1>1. CASE Reserved(proc[p].request) \/ ~StillActive(proc[p].plans)
    BY <1>1 DEF Commit, Refused
  <1>2. CASE ~(Reserved(proc[p].request) \/ ~StillActive(proc[p].plans))
    BY <1>2 DEF Commit, Committed, Reserved, Plans
  <1> QED
    BY <1>1, <1>2

(* The operations before a commit, and those it adds. *)
LEMMA CommittedOps ==
    ASSUME TruthInv, NEW p \in Process, Committed(p)
    PROVE  /\ ops' \in Seq(Operation) /\ DOMAIN ops \subseteq DOMAIN ops'
           /\ \A i \in DOMAIN ops : ops'[i] = ops[i]
           /\ \A i \in DOMAIN ops' \ DOMAIN ops :
                 ops'[i] \in PlanOps(proc[p].request, TargetsOf(Plans(p)), NewOf(Plans(p)))
           /\ \A m \in NewOf(Plans(p)) : \E i \in DOMAIN ops' :
                 ops'[i].kind = "upsert" /\ ops'[i].memory = m
  <1> DEFINE q == proc[p].request
             S == PlanOps(q, TargetsOf(Plans(p)), NewOf(Plans(p)))
             new == FlattenSeq([i \in DOMAIN Plans(p) |-> OpsFor(q, Plans(p)[i])])
  <1>1. q \in Request /\ Plans(p) \in Seq(Plan) /\ ops \in Seq(Operation)
    BY LocalTyped DEF TruthInv, CallOK, Committed, Types
  <1>2. /\ new \in Seq(S)
        /\ \A m \in NewOf(Plans(p)) : \E k \in 1..Len(new) :
              new[k].kind = "upsert" /\ new[k].memory = m
    BY <1>1, OpsForBatch
  <1>3. ops' = ops \o new
    BY DEF Committed
  <1>4. S \subseteq Operation
    BY DEF PlanOps
  <1> HIDE DEF new, S
  <1>5. /\ ops \o new \in Seq(Operation) /\ Len(ops) \in Nat /\ Len(new) \in Nat
        /\ DOMAIN (ops \o new) = 1..(Len(ops) + Len(new)) /\ DOMAIN ops = 1..Len(ops)
        /\ \A i \in 1..Len(ops) : (ops \o new)[i] = ops[i]
        /\ \A k \in 1..Len(new) : (ops \o new)[Len(ops) + k] = new[k] /\ new[k] \in S
    <2>1. new \in Seq(Operation)
      BY <1>2, <1>4
    <2> QED
      BY <1>1, <1>2, <2>1
  <1>6. \A i \in DOMAIN ops' \ DOMAIN ops : ops'[i] \in S
    <2> SUFFICES ASSUME NEW i \in DOMAIN ops' \ DOMAIN ops PROVE ops'[i] \in S
      OBVIOUS
    <2>1. i - Len(ops) \in 1..Len(new) /\ i = Len(ops) + (i - Len(ops))
      BY <1>3, <1>5
    <2> QED
      BY <1>3, <1>5, <2>1
  <1>7. ASSUME NEW m \in NewOf(Plans(p))
        PROVE  \E i \in DOMAIN ops' : ops'[i].kind = "upsert" /\ ops'[i].memory = m
    <2>1. PICK k \in 1..Len(new) : new[k].kind = "upsert" /\ new[k].memory = m
      BY <1>2
    <2>2. Len(ops) + k \in DOMAIN ops' /\ ops'[Len(ops) + k] = new[k]
      BY <1>3, <1>5
    <2> QED
      BY <2>1, <2>2
  <1> QED
    BY <1>3, <1>5, <1>6, <1>7 DEF S

(* The commit: every target is current or handed out by the batch itself,  *)
(* so it has no successor yet, and one plan at most gives it one.          *)
LEMMA CommittedTruth ==
    ASSUME TruthInv, NEW p \in Process, Committed(p), UNCHANGED calls
    PROVE  TruthInv' /\ Grows
  <1> DEFINE plans == Plans(p)
             q == proc[p].request
             local == [Free EXCEPT !.pc = "list", !.request = q]
  <1>0. /\ Types /\ FreshOK /\ BatchOK /\ LinksOK /\ NoFork /\ OpsOK
        /\ q \in Request /\ requests[q] = "none"
    BY DEF TruthInv, CallOK, Committed
  <1>1. /\ StillActive(plans)
        /\ memory' = [m \in Memory |->
               IF m \in TargetsOf(plans) THEN "history"
               ELSE IF m \in NewOf(plans) THEN "active" ELSE memory[m]]
        /\ successor' = successor \cup
               UNION {ToSet(plans[i].targets) \X {plans[i].new} : i \in DOMAIN plans}
        /\ Becomes(p, local)
    BY DEF Committed
  <1>2. /\ local \in Local /\ local.plans = <<>> /\ local.todo = {} /\ local.pc = "list"
        /\ local.request = q
    BY <1>0, FreeTyped DEF Local, Free, Owner
  <1> HIDE DEF local
  <1>3. /\ proc' \in [Process -> Local]
        /\ proc'[p] = local
        /\ \A r \in Process \ {p} : proc'[r] = proc[r]
    BY <1>0, <1>1, <1>2, Becoming
  <1>4. Plans(p)' = <<>> /\ \A r \in Process \ {p} : Plans(r)' = Plans(r)
    BY <1>2, <1>3 DEF Plans
  <1>5. \A r \in Process : \A i \in DOMAIN Plans(r) :
           Plans(r)[i].new \in Memory /\ ToSet(Plans(r)[i].targets) \subseteq Memory
    BY <1>0, PlansTyped
  <1> HIDE DEF plans
  <1>6. NewOf(plans) \subseteq Memory /\ TargetsOf(plans) \subseteq Memory
    BY <1>5 DEF NewOf, TargetsOf, plans
  <1>7. \A m \in NewOf(plans) : memory[m] = "none"
    BY <1>0 DEF FreshOK, NewOf, plans
  <1>8. \A m \in TargetsOf(plans) : memory[m] \in {"active", "none"}
    BY <1>1, <1>7 DEF StillActive, Active
  <1>9. \A link \in successor : link[1] \notin TargetsOf(plans)
    BY <1>0, <1>8 DEF LinksOK
  <1>10. \A link \in successor' : link \in successor \/
            \E i \in DOMAIN plans : link[1] \in ToSet(plans[i].targets)
                                    /\ link = <<link[1], plans[i].new>>
    BY <1>1
  <1>11. \A i \in DOMAIN plans : ToSet(plans[i].targets) \subseteq TargetsOf(plans)
    BY DEF TargetsOf
  <1>12. Types'
    <2>1. memory' \in [Memory -> Validity]
      BY <1>0, <1>1 DEF Types, Validity
    <2>2. successor' \subseteq Memory \X Memory
      <3>1. ASSUME NEW i \in DOMAIN plans, NEW m \in ToSet(plans[i].targets)
            PROVE  <<m, plans[i].new>> \in Memory \X Memory
        BY <1>5 DEF plans
      <3>2. \A link \in successor' : link \in Memory \X Memory
        BY <1>0, <1>10, <3>1 DEF Types
      <3> QED
        BY <3>2
    <2>3. requests' \in [Request -> Report]
      BY <1>0 DEF Committed, Types, Report
    <2>4. UNCHANGED <<index, calls>>
      BY DEF Committed
    <2> QED
      BY <1>0, <1>3, <2>1, <2>2, <2>3, <2>4, CommittedOps DEF Types
  <1>13. Grows
    <2>1. \A r \in Request : requests[r] # "none" => requests'[r] # "none" /\ OpsOf(r)' = OpsOf(r)
      <3> SUFFICES ASSUME NEW r \in Request, requests[r] # "none"
                   PROVE  requests'[r] # "none" /\ OpsOf(r)' = OpsOf(r)
        OBVIOUS
      <3>1. r # q
        BY <1>0
      <3>2. requests'[r] = requests[r]
        BY <1>0, <3>1 DEF Committed, Types
      <3>3. \A i \in DOMAIN ops' \ DOMAIN ops : ops'[i].request = q
        BY CommittedOps DEF PlanOps
      <3> QED
        BY <3>1, <3>2, <3>3, CommittedOps DEF OpsOf
    <2>2. \A m \in Memory : memory[m] # "none" =>
             memory'[m] # "none" /\ (memory[m] # "active" => memory'[m] # "active")
      BY <1>1, <1>7
    <2> QED
      BY <2>1, <2>2, CommittedOps DEF Grows
  <1>14. OpsOK'
    <2>1. ASSUME NEW i \in DOMAIN ops' \ DOMAIN ops PROVE OpOK(i)'
      <3>1. ops'[i] \in PlanOps(q, TargetsOf(plans), NewOf(plans))
        BY CommittedOps DEF plans
      <3>2. ops'[i].request = q /\ ops'[i].memory \in Memory
            /\ IF ops'[i].kind = "delete" THEN ops'[i].memory \in TargetsOf(plans)
               ELSE ops'[i].memory \in NewOf(plans)
        BY <1>6, <3>1 DEF PlanOps
      <3>3. requests'[q] = "retryable"
        BY <1>0 DEF Committed, Types
      <3>4. memory'[ops'[i].memory] \in {"history", "active"}
            /\ (ops'[i].kind = "delete" => memory'[ops'[i].memory] = "history")
        BY <1>1, <3>2
      <3>5. q \in Request
        BY <1>0
      <3> QED
        BY <3>2, <3>3, <3>4, <3>5 DEF OpOK
    <2> QED
      BY <1>13, <2>1, OldOpsOK DEF OpsOK
  <1>15. LinksOK'
    <2> SUFFICES ASSUME NEW link \in successor' PROVE memory'[link[1]] \in {"history", "deleted"}
      BY DEF LinksOK
    <2>1. CASE link \in successor
      <3>1. link[1] \in Memory /\ memory[link[1]] \in {"history", "deleted"}
        BY <1>0, <2>1 DEF Types, LinksOK
      <3>2. link[1] \notin TargetsOf(plans) /\ link[1] \notin NewOf(plans)
        BY <1>7, <1>9, <2>1, <3>1
      <3> QED
        BY <1>1, <3>1, <3>2
    <2>2. CASE link[1] \in TargetsOf(plans)
      BY <1>1, <1>6, <2>2
    <2> QED
      BY <1>10, <1>11, <2>1, <2>2
  <1>16. FreshOK'
    <2> SUFFICES ASSUME NEW r \in Process, NEW i \in DOMAIN Plans(r)'
                 PROVE  /\ memory'[Plans(r)'[i].new] = "none"
                        /\ \A s \in Process : \A j \in DOMAIN Plans(s)' :
                              Plans(s)'[j].new = Plans(r)'[i].new => s = r
      BY DEF FreshOK
    <2>1. r # p /\ Plans(r)' = Plans(r)
      BY <1>4
    <2>2. Plans(r)[i].new \notin NewOf(plans)
      BY <1>0, <2>1 DEF FreshOK, NewOf, plans
    <2>3. memory[Plans(r)[i].new] = "none" /\ Plans(r)[i].new \in Memory
      BY <1>0, <1>5, <2>1 DEF FreshOK
    <2>4. Plans(r)[i].new \notin TargetsOf(plans)
      BY <1>1, <2>2, <2>3 DEF StillActive, Active
    <2>5. memory'[Plans(r)[i].new] = "none"
      BY <1>1, <2>2, <2>3, <2>4
    <2> QED
      BY <1>0, <1>4, <2>1, <2>5 DEF FreshOK
  <1>17. BatchOK'
    <2>1. \A r \in Process : \A i \in DOMAIN Plans(r)' :
             i \in DOMAIN Plans(r) /\ Plans(r)'[i] = Plans(r)[i]
      BY <1>4
    <2> QED
      BY <1>0, <2>1, Zenon DEF BatchOK
  <1>18. NoFork'
    <2> SUFFICES ASSUME NEW a \in successor', NEW b \in successor', a[1] = b[1] PROVE a = b
      BY DEF NoFork
    <2>1. CASE a \in successor /\ b \in successor
      BY <1>0, <2>1 DEF NoFork
    <2>2. CASE a \notin successor /\ b \notin successor
      <3>1. PICK i \in DOMAIN plans : a[1] \in ToSet(plans[i].targets) /\ a = <<a[1], plans[i].new>>
        BY <1>10, <2>2
      <3>2. PICK j \in DOMAIN plans : b[1] \in ToSet(plans[j].targets) /\ b = <<b[1], plans[j].new>>
        BY <1>10, <2>2
      <3>3. i = j
        BY <1>0, <3>1, <3>2 DEF BatchOK, plans
      <3> QED
        BY <3>1, <3>2, <3>3
    <2> QED
      BY <1>9, <1>10, <1>11, <2>1, <2>2
  <1>19. \A r \in Process : CallOK(r)'
    <2>1. CallOK(p)'
      <3>1. requests'[q] = "retryable"
        BY <1>0 DEF Committed, Types
      <3> QED
        BY <1>0, <1>2, <1>3, <3>1 DEF CallOK, Working
    <2> QED
      BY <1>3, <1>13, <2>1, OthersCallOK
  <1> QED
    BY <1>12, <1>13, <1>14, <1>15, <1>16, <1>17, <1>18, <1>19 DEF TruthInv

(* A commit, turned away or not, keeps the truth.                           *)
LEMMA CommitTruth ==
    ASSUME TruthInv, NEW p \in Process, Commit(p), UNCHANGED calls
    PROVE  TruthInv' /\ Grows
  <1>1. CASE Refused(p)
    <2>1. Free.plans = <<>> /\ Free.todo = {} /\ Free.pc = "idle"
      BY DEF Free
    <2> QED
      BY <1>1, <2>1, FreeTyped, QuietStep DEF Refused, TruthInv, Types, Working
  <1> QED
    BY <1>1, CommitOutcome, CommittedTruth

(* Initially no operation, no link and no plan exists.                      *)
LEMMA InitTruth == Init => TruthInv
  <1> SUFFICES ASSUME Init PROVE TruthInv
    OBVIOUS
  <1>1. \A p \in Process : proc[p] = Free
    BY DEF Init
  <1>2. Types
    <2>1. successor = {} /\ ops = <<>>
      BY DEF Init
    <2>2. ops \in Seq(Operation)
      BY <2>1
    <2> QED
      BY <2>1, <2>2, FreeTyped, MemoryStoreAssumption DEF Init, Types, Validity, Report
  <1>3. ops = <<>> /\ successor = {} /\ DOMAIN ops = {}
    BY DEF Init
  <1>4. \A p \in Process : Plans(p) = <<>> /\ CallOK(p)
    BY <1>1, <1>3 DEF Plans, Free, CallOK, Working
  <1>5. OpsOK /\ LinksOK /\ NoFork
    BY <1>3 DEF OpsOK, LinksOK, NoFork
  <1>6. FreshOK /\ BatchOK
    BY <1>4 DEF FreshOK, BatchOK
  <1> QED
    BY <1>2, <1>4, <1>5, <1>6 DEF TruthInv

(* Every step keeps the truth, and undoes nothing. *)
LEMMA NextTruth == ASSUME TruthInv, [Next]_vars PROVE TruthInv' /\ Grows
  <1>1. CASE UNCHANGED vars
    <2>1. UNCHANGED <<memory, successor, requests, ops, index, proc, calls>>
      BY <1>1 DEF vars
    <2>2. Grows
      BY <2>1 DEF Grows, OpsOf
    <2>3. Types' /\ OpsOK' /\ LinksOK' /\ NoFork'
      BY <2>1 DEF TruthInv, Types, OpsOK, OpOK, LinksOK, NoFork
    <2>4. FreshOK' /\ BatchOK'
      BY <2>1 DEF TruthInv, FreshOK, BatchOK, Plans
    <2>5. ASSUME NEW p \in Process PROVE CallOK(p)'
      <3>1. Due(p)' = Due(p)
        BY <2>1 DEF Due
      <3> QED
        BY <2>1, <3>1 DEF TruthInv, CallOK
    <2> QED
      BY <2>2, <2>3, <2>4, <2>5 DEF TruthInv
  <1>2. ASSUME NEW p \in Process, Call(p), calls' = calls + 1
        PROVE  TruthInv' /\ Grows
    BY <1>2, WriteTruth, DeleteTruth, RepairTruth, RebuildReadTruth DEF Call
  <1>3. ASSUME NEW p \in Process, Step(p), UNCHANGED calls
        PROVE  TruthInv' /\ Grows
    BY <1>3, QueryTruth, PlanCandidateTruth, CommitTruth, ListOpsTruth, FetchTruth, ApplyTruth, MarkTruth,
       FinishTruth, RebuildScanTruth, RebuildStepTruth, AbortTruth DEF Step
  <1> QED
    BY <1>1, <1>2, <1>3 DEF Next

-----------------------------------------------------------------------------
(* What the index holds of a memory that stays current is not taken away,  *)
(* unless a rebuild is on record as having forgotten it; and nothing is    *)
(* indexed that is not stored.                                             *)
IndexGrows ==
    \A m \in Memory :
        /\ memory[m] = "active" /\ memory'[m] = "active" /\ Indexed(m) => Indexed(m)'
        /\ index[m] # "active" /\ index'[m] = "active" => memory[m] # "none"

(* What a step may do to the index: it takes out a memory that stays       *)
(* current only as a rebuild that has not read it.                         *)
Respects(p) ==
    \A m \in Memory :
        /\ (memory[m] = "active" /\ index[m] = "active" /\ index'[m] # "active") =>
              index'[m] = "absent" /\ m \in fresh[p]
        /\ index[m] # "active" /\ index'[m] = "active" => memory[m] # "none"

LEMMA Respected ==
    ASSUME IndexInv, NEW p \in Process, Remember(p), Respects(p)
    PROVE  IndexGrows
  <1> SUFFICES ASSUME NEW m \in Memory, memory[m] = "active", memory'[m] = "active", Indexed(m)
               PROVE  Indexed(m)'
    BY DEF IndexGrows, Respects
  <1> DEFINE taken == {x \in fresh[p] : index[x] # "absent" /\ index'[x] = "absent"}
  <1>1. forgotten' = {x \in forgotten \cup taken : index'[x] # "active"}
    BY DEF Remember
  <1>2. CASE m \in forgotten
    BY <1>1, <1>2 DEF Indexed
  <1>3. CASE index[m] = "active"
    <2>1. index'[m] # "active" => m \in taken
      BY <1>3 DEF Respects
    <2> HIDE DEF taken
    <2> QED
      BY <1>1, <2>1 DEF Indexed
  <1> QED
    BY <1>2, <1>3 DEF Indexed

(* The history keeps its types, and says of every rebuild and lookup under *)
(* way what has come after its read.                                       *)
LEMMA Remembered ==
    ASSUME HistoryTypes, NEW p \in Process, Remember(p)
    PROVE  /\ HistoryTypes'
           /\ \A r \in Process : Rebuilding(r)' =>
                 fresh[r] \cup (Active' \ Active) = fresh'[r]
           /\ \A r \in Process : proc'[r].pc = "look" =>
                 arrived'[r] = arrived[r] \cup
                    {m \in Memory : index[m] # "active" /\ index'[m] = "active"}
  <1>1. /\ fresh' = [r \in Process |->
              IF Rebuilding(r)' THEN fresh[r] \cup (Active' \ Active) ELSE {}]
        /\ arrived' = [r \in Process |->
              IF proc'[r].pc = "look"
                THEN arrived[r] \cup {m \in Memory : index[m] # "active" /\ index'[m] = "active"}
                ELSE {}]
        /\ forgotten' \subseteq forgotten \cup fresh[p]
    BY DEF Remember
  <1>2. Active' \subseteq Memory
    BY DEF Active
  <1>3. fresh' \in [Process -> SUBSET Memory]
    BY <1>1, <1>2 DEF HistoryTypes
  <1>4. arrived' \in [Process -> SUBSET Memory]
    BY <1>1 DEF HistoryTypes
  <1>5. forgotten' \subseteq Memory
    BY <1>1 DEF HistoryTypes
  <1> QED
    BY <1>1, <1>3, <1>4, <1>5 DEF HistoryTypes

(* A memory that is current and indexed stays indexed while it is current. *)
LEMMA IndexedKept ==
    ASSUME Grows, IndexGrows, NEW m \in Memory, memory[m] # "none", Indexed(m)
    PROVE  Indexed(m)'
  BY DEF Grows, IndexGrows, Indexed

(* ... and so does the memory of an operation on record.                   *)
LEMMA OpIndexedKept ==
    ASSUME TruthInv, Grows, IndexGrows, NEW i \in DOMAIN ops, Indexed(ops[i].memory)
    PROVE  Indexed(ops[i].memory)'
  <1>1. PICK m \in Memory : m = ops[i].memory
    BY OpTyped DEF TruthInv
  <1>2. memory[m] # "none"
    BY <1>1 DEF TruthInv, OpsOK, OpOK
  <1>3. Indexed(m)'
    BY <1>1, <1>2, IndexedKept
  <1>4. ops'[i].memory = m
    BY <1>1 DEF Grows
  <1> QED
    BY <1>3, <1>4 DEF Indexed

(* What a call that takes no step relies on.                               *)
LEMMA OthersSyncOK ==
    ASSUME TruthInv, IndexInv, Grows, IndexGrows, NEW p \in Process, Remember(p),
           NEW r \in Process, proc'[r] = proc[r]
    PROVE  SyncOK(r)'
  <1>0. /\ Types /\ OpsOK /\ CallOK(r) /\ SyncOK(r) /\ IndexOK /\ HistoryTypes
        /\ Due(r)' = Due(r) /\ Rebuilding(r)' = Rebuilding(r)
    BY DEF TruthInv, IndexInv, Due, Rebuilding
  <1>1. \A i \in DOMAIN ops : ops[i].memory \in Memory /\ memory[ops[i].memory] # "none"
    BY <1>0, OpTyped DEF OpsOK, OpOK
  <1>2. \A i \in DOMAIN ops :
           /\ i \in DOMAIN ops'
           /\ ops'[i].memory = ops[i].memory /\ ops'[i].kind = ops[i].kind
           /\ Indexed(ops[i].memory) => Indexed(ops[i].memory)'
           /\ memory'[ops'[i].memory] = "active" => memory[ops[i].memory] = "active"
    <2> SUFFICES ASSUME NEW i \in DOMAIN ops
                 PROVE  /\ i \in DOMAIN ops'
                        /\ ops'[i].memory = ops[i].memory /\ ops'[i].kind = ops[i].kind
                        /\ Indexed(ops[i].memory) => Indexed(ops[i].memory)'
                        /\ memory'[ops'[i].memory] = "active" => memory[ops[i].memory] = "active"
      OBVIOUS
    <2>1. i \in DOMAIN ops' /\ ops'[i].memory = ops[i].memory /\ ops'[i].kind = ops[i].kind
      BY DEF Grows
    <2>2. Indexed(ops[i].memory) => Indexed(ops[i].memory)'
      BY OpIndexedKept
    <2> QED
      BY <1>1, <2>1, <2>2 DEF Grows
  <1>3. proc[r].pc \in {"apply", "mark"} => Due(r) \in DOMAIN ops
    BY <1>0, DueIsOne DEF CallOK
  <1>4. (proc[r].pc \in Working /\ proc[r].request \in Request) =>
           OpsOf(proc[r].request)' = OpsOf(proc[r].request)
    BY <1>0 DEF CallOK, Grows
  <1>5. \A q : OpsOf(q) \subseteq DOMAIN ops
    BY DEF OpsOf
  <1>6. proc[r].pc = "apply" =>
           /\ proc[r].seen # "none"
           /\ memory'[ops'[Due(r)].memory] = "active" => proc[r].seen = "active"
    BY <1>0, <1>2, <1>3 DEF SyncOK
  <1>7. (proc[r].pc = "mark" /\ proc[r].error = "none" /\ Upserts(Due(r))') =>
           Indexed(ops[Due(r)].memory)'
    <2> SUFFICES ASSUME proc[r].pc = "mark", proc[r].error = "none", Upserts(Due(r))'
                 PROVE  Indexed(ops[Due(r)].memory)'
      OBVIOUS
    <2>1. PICK d \in DOMAIN ops : d = Due(r) /\ d = Due(r)'
      BY <1>0, <1>3
    <2>2. Indexed(ops[d].memory)
      BY <1>0, <1>2, <2>1 DEF SyncOK, Upserts
    <2>3. Indexed(ops[d].memory)'
      BY <1>2, <2>2
    <2> QED
      BY <2>1, <2>3
  <1>8. ASSUME proc[r].pc \in Working, proc[r].request \in Request, proc[r].worst = "none",
               NEW i \in OpsOf(proc[r].request) \ proc[r].todo, Upserts(i)'
        PROVE  Indexed(ops[i].memory)'
    BY <1>0, <1>2, <1>5, <1>8 DEF SyncOK, Upserts
  <1>9. Rebuilding(r) => fresh'[r] = fresh[r] \cup (Active' \ Active)
    BY <1>0, Remembered
  <1>10. ASSUME proc[r].pc = "look", NEW m \in Active', index'[m] = "active"
         PROVE  m \in proc[r].hits \cup arrived'[r]
    <2>1. m \in Memory /\ memory'[m] = "active"
      BY DEF Active
    <2>2. arrived'[r] = arrived[r] \cup {x \in Memory : index[x] # "active" /\ index'[x] = "active"}
      BY <1>0, <1>10, Remembered
    <2>3. CASE index[m] # "active"
      BY <1>10, <2>1, <2>2, <2>3
    <2>4. CASE index[m] = "active"
      <3>1. memory[m] # "none"
        BY <1>0, <2>1, <2>4 DEF IndexOK
      <3>2. m \in Active
        BY <2>1, <3>1 DEF Grows, Active
      <3> QED
        BY <1>0, <1>10, <2>2, <2>4, <3>2 DEF SyncOK
    <2> QED
      BY <2>3, <2>4
  <1>11. proc[r].pc = "scan" => Active' \subseteq proc[r].keep \cup fresh'[r]
    BY <1>0, <1>9 DEF SyncOK, Rebuilding
  <1>12. proc[r].pc = "rebuild" => proc[r].drop \cap Active' \subseteq fresh'[r]
    BY <1>0, <1>9 DEF SyncOK, Rebuilding
  <1>13. Rebuilding(r) => \A m \in proc[r].keep : memory'[m] # "none"
    BY <1>0, LocalTyped DEF SyncOK, Grows
  <1> QED
    BY <1>0, <1>4, <1>6, <1>7, <1>8, <1>10, <1>11, <1>12, <1>13 DEF SyncOK, Upserts

(* The index stays consistent when a step enqueues only outstanding        *)
(* operations, one for each memory that becomes current, and marks as      *)
(* synchronised, or reports as a success, only what is indexed.            *)
LEMMA IndexKept ==
    ASSUME TruthInv, TruthInv', Grows, IndexGrows, IndexOK,
           \A m \in Memory : memory[m] = "none" /\ memory'[m] = "active" =>
               \E i \in DOMAIN ops' : Upserts(i)' /\ ops'[i].memory = m,
           \A i \in DOMAIN ops' \ DOMAIN ops : Upserts(i)' =>
               Outstanding(i)' /\ requests'[ops'[i].request] # "success",
           \A i \in DOMAIN ops : Upserts(i) /\ Outstanding(i) /\ ~Outstanding(i)' =>
               Indexed(ops[i].memory),
           \A i \in DOMAIN ops :
               Upserts(i) /\ requests[ops[i].request] # "success"
               /\ requests'[ops[i].request] = "success" => Indexed(ops[i].memory)
    PROVE  IndexOK'
  <1>2. \A i \in DOMAIN ops : Indexed(ops[i].memory) => Indexed(ops[i].memory)'
    BY OpIndexedKept
  <1>3. \A i \in DOMAIN ops :
           /\ i \in DOMAIN ops' /\ ops'[i].memory = ops[i].memory
           /\ ops'[i].request = ops[i].request /\ Upserts(i)' = Upserts(i)
    BY DEF Grows, Upserts
  <1>4. ASSUME NEW m \in Active'
        PROVE  Indexed(m)' \/ \E i \in DOMAIN ops' : Upserts(i)' /\ ops'[i].memory = m
    <2>1. m \in Memory /\ memory'[m] = "active"
      BY DEF Active
    <2>2. CASE memory[m] = "active"
      <3>1. Indexed(m) \/ \E i \in DOMAIN ops : Upserts(i) /\ ops[i].memory = m
        BY <2>1, <2>2 DEF IndexOK, Active
      <3> QED
        BY <1>3, <2>1, <2>2, <3>1 DEF IndexGrows
    <2>3. memory[m] = "none" \/ memory[m] = "active"
      BY <2>1 DEF Grows
    <2> QED
      BY <2>1, <2>2, <2>3
  <1>5. ASSUME NEW i \in DOMAIN ops', Upserts(i)', ~Outstanding(i)'
        PROVE  Indexed(ops[i].memory)'
    <2>1. i \in DOMAIN ops
      BY <1>5
    <2>2. Indexed(ops[i].memory)
      <3>1. CASE Outstanding(i)
        BY <1>3, <1>5, <2>1, <3>1
      <3>2. CASE ~Outstanding(i)
        BY <1>3, <1>5, <2>1, <3>2 DEF IndexOK
      <3> QED
        BY <3>1, <3>2
    <2> QED
      BY <1>2, <2>1, <2>2
  <1>6. ASSUME NEW i \in DOMAIN ops', Upserts(i)', requests'[ops'[i].request] = "success"
        PROVE  Indexed(ops[i].memory)'
    <2>1. i \in DOMAIN ops
      BY <1>6
    <2>2. Indexed(ops[i].memory)
      <3>1. CASE requests[ops[i].request] = "success"
        BY <1>3, <1>6, <2>1, <3>1 DEF IndexOK
      <3>2. CASE requests[ops[i].request] # "success"
        BY <1>3, <1>6, <2>1, <3>2
      <3> QED
        BY <3>1, <3>2
    <2> QED
      BY <1>2, <2>1, <2>2
  <1>7. ASSUME NEW m \in Memory, memory'[m] = "none" PROVE index'[m] # "active"
    <2>1. memory[m] = "none"
      BY <1>7 DEF Grows
    <2> QED
      BY <2>1 DEF IndexOK, IndexGrows
  <1> QED
    BY <1>4, <1>5, <1>6, <1>7 DEF IndexOK

-----------------------------------------------------------------------------
(* The locals of the call that takes a step.                               *)
LEMMA StepOf ==
    ASSUME Types, NEW p \in Process, NEW local, Becomes(p, local)
    PROVE  proc'[p] = local /\ \A r \in Process \ {p} : proc'[r] = proc[r]
  BY DEF Types, Becomes

(* A step that leaves the index alone.                                     *)
LEMMA IndexUntouched ==
    ASSUME IndexInv, NEW p \in Process, Remember(p), UNCHANGED index
    PROVE  IndexGrows
  BY Respected DEF Respects

(* A step that touches neither store.                                      *)
LEMMA StoresUntouched ==
    ASSUME TruthInv, TruthInv', Grows, IndexInv, NEW p \in Process, Remember(p),
           UNCHANGED <<memory, requests, ops, index>>
    PROVE  IndexGrows /\ IndexOK'
  <1>1. IndexGrows /\ IndexOK
    BY IndexUntouched DEF IndexInv
  <1>2. \A i : Outstanding(i)' = Outstanding(i)
    BY DEF Outstanding
  <1>3. DOMAIN ops' \ DOMAIN ops = {} /\ \A m \in Memory : ~(memory[m] = "none" /\ memory'[m] = "active")
    OBVIOUS
  <1> QED
    BY <1>1, <1>2, <1>3, IndexKept

(* A call that is about to write nothing relies on nothing.                *)
LEMMA AtRest ==
    ASSUME NEW p \in Process, proc'[p].pc \in {"idle", "plan", "list"}
    PROVE  SyncOK(p)'
  BY DEF SyncOK, Working, Rebuilding

(* A call that takes up the outstanding operations of a request finds the  *)
(* others indexed.                                                         *)
LEMMA SyncingIndexed ==
    ASSUME TruthInv, TruthInv', Grows, IndexInv, NEW p \in Process, Remember(p),
           NEW q \in Owner, Becomes(p, Syncing(q)),
           UNCHANGED <<memory, requests, ops, index>>
    PROVE  SyncOK(p)'
  <1>1. Types
    BY DEF TruthInv
  <1>2. /\ proc'[p].pc = "sync" /\ proc'[p].request = q
        /\ proc'[p].todo = {i \in OpsOf(q) : Outstanding(i)}
    BY <1>1, StepOf, SyncingTyped
  <1>3. \A i \in OpsOf(q) : Upserts(i) /\ ~Outstanding(i) => Indexed(ops[i].memory)
    BY DEF IndexInv, IndexOK, OpsOf
  <1>4. ASSUME NEW i \in OpsOf(q)' \ proc'[p].todo, Upserts(i)'
        PROVE  Indexed(ops[i].memory)'
    <2>1. i \in OpsOf(q) /\ i \in DOMAIN ops /\ Upserts(i) /\ ~Outstanding(i)
      BY <1>2, <1>4 DEF OpsOf, Upserts
    <2>2. IndexGrows
      BY IndexUntouched
    <2> QED
      BY <1>3, <2>1, <2>2, OpIndexedKept
  <1> QED
    BY <1>2, <1>4 DEF SyncOK, Rebuilding

(* What each step does for the index.                                      *)
LEMMA WriteIndex ==
    ASSUME TruthInv, TruthInv', Grows, IndexInv, NEW p \in Process, Remember(p),
           NEW q \in Request, Write(p, q)
    PROVE  IndexGrows /\ IndexOK' /\ SyncOK(p)'
  <1>1. Types /\ q \in Owner
    BY DEF TruthInv, Owner
  <1>2. CASE Becomes(p, [Free EXCEPT !.pc = "plan", !.request = q])
    <2>1. proc'[p] = [Free EXCEPT !.pc = "plan", !.request = q]
      BY <1>1, <1>2, StepOf
    <2>2. proc'[p].pc = "plan"
      BY <2>1 DEF Free
    <2> QED
      BY <2>2, AtRest, StoresUntouched DEF Write
  <1>3. CASE Becomes(p, Syncing(q))
    BY <1>1, <1>3, SyncingIndexed, StoresUntouched DEF Write
  <1> QED
    BY <1>2, <1>3 DEF Write

(* A repair leaves both stores alone and finds the rest indexed.            *)
LEMMA RepairIndex ==
    ASSUME TruthInv, TruthInv', Grows, IndexInv, NEW p \in Process, Remember(p),
           NEW q \in Owner, Repair(p, q)
    PROVE  IndexGrows /\ IndexOK' /\ SyncOK(p)'
  BY SyncingIndexed, StoresUntouched DEF Repair

(* A call that lists its operations finds the rest indexed.                 *)
LEMMA ListOpsIndex ==
    ASSUME TruthInv, TruthInv', Grows, IndexInv, NEW p \in Process, Remember(p),
           ListOps(p)
    PROVE  IndexGrows /\ IndexOK' /\ SyncOK(p)'
  <1>1. proc[p].request \in Owner
    BY DEF TruthInv, CallOK, ListOps, Owner
  <1> QED
    BY <1>1, SyncingIndexed, StoresUntouched DEF ListOps

(* A call that dies relies on nothing any more.                             *)
LEMMA AbortIndex ==
    ASSUME TruthInv, TruthInv', Grows, IndexInv, NEW p \in Process, Remember(p),
           Abort(p)
    PROVE  IndexGrows /\ IndexOK' /\ SyncOK(p)'
  <1>1. proc'[p].pc = "idle"
    BY StepOf DEF TruthInv, Abort, Free
  <1> QED
    BY <1>1, AtRest, StoresUntouched DEF Abort

(* A lookup has the hits of the index as it is.                             *)
LEMMA QueryIndex ==
    ASSUME TruthInv, TruthInv', Grows, IndexInv, NEW p \in Process, Remember(p),
           Query(p)
    PROVE  IndexGrows /\ IndexOK' /\ SyncOK(p)'
  <1>1. Types /\ UNCHANGED <<memory, requests, ops, index>>
    BY DEF TruthInv, Query
  <1>2. proc'[p].pc = "look" /\ proc'[p].hits = {m \in Active : index[m] = "active"}
    <2>1. proc'[p] = [proc[p] EXCEPT !.pc = "look", !.hits = {m \in Active : index[m] = "active"}]
      BY <1>1, StepOf DEF Query
    <2> QED
      BY <1>1, <2>1, LocalTyped DEF Local
  <1>3. Active' = Active
    BY <1>1 DEF Active
  <1> QED
    BY <1>1, <1>2, <1>3, StoresUntouched DEF SyncOK, Working, Rebuilding

(* Planning touches neither store.                                          *)
LEMMA PlanCandidateIndex ==
    ASSUME TruthInv, TruthInv', Grows, IndexInv, NEW p \in Process, Remember(p),
           PlanCandidate(p)
    PROVE  IndexGrows /\ IndexOK' /\ SyncOK(p)'
  <1>1. Types /\ proc[p] \in Local
    BY LocalTyped DEF TruthInv
  <1>2. PICK plans : Becomes(p, [proc[p] EXCEPT !.pc = "plan", !.hits = {}, !.plans = plans])
    BY DEF PlanCandidate
  <1>3. proc'[p].pc = "plan"
    <2>1. proc'[p] = [proc[p] EXCEPT !.pc = "plan", !.hits = {}, !.plans = plans]
      BY <1>1, <1>2, StepOf
    <2> QED
      BY <1>1, <2>1 DEF Local
  <1> QED
    BY <1>3, AtRest, StoresUntouched DEF PlanCandidate

(* A rebuild has read what is current.                                      *)
LEMMA RebuildReadIndex ==
    ASSUME TruthInv, TruthInv', Grows, IndexInv, NEW p \in Process, Remember(p),
           RebuildRead(p)
    PROVE  IndexGrows /\ IndexOK' /\ SyncOK(p)'
  <1>1. Types /\ UNCHANGED <<memory, requests, ops, index>>
    BY DEF TruthInv, RebuildRead
  <1>2. proc'[p].pc = "scan" /\ proc'[p].keep = Active
    <2>1. proc'[p] = [Free EXCEPT !.pc = "scan", !.keep = Active]
      BY <1>1, StepOf DEF RebuildRead
    <2> QED
      BY <2>1 DEF Free
  <1>3. Active' = Active /\ \A m \in Active : memory'[m] # "none"
    BY <1>1 DEF Active
  <1> QED
    BY <1>1, <1>2, <1>3, StoresUntouched DEF SyncOK, Working

(* An upsert has read its record as it is stored.                           *)
LEMMA FetchIndex ==
    ASSUME TruthInv, TruthInv', Grows, IndexInv, NEW p \in Process, Remember(p),
           Fetch(p)
    PROVE  IndexGrows /\ IndexOK' /\ SyncOK(p)'
  <1>1. /\ Types /\ OpsOK /\ CallOK(p) /\ UNCHANGED <<memory, requests, ops, index>>
        /\ proc[p].pc = "sync" /\ proc[p].todo # {}
        /\ Becomes(p, [proc[p] EXCEPT !.pc = "apply", !.seen = memory[ops[Due(p)].memory]])
    BY DEF TruthInv, Fetch
  <1>2. Due(p) \in DOMAIN ops
    BY <1>1, DueIsOne
  <1>3. proc[p] \in Local
    BY <1>1, LocalTyped
  <1>4. /\ proc'[p].pc = "apply" /\ proc'[p].seen = memory[ops[Due(p)].memory]
        /\ proc'[p].todo = proc[p].todo /\ proc'[p].request = proc[p].request
        /\ proc'[p].worst = proc[p].worst
    <2>1. proc'[p] = [proc[p] EXCEPT !.pc = "apply", !.seen = memory[ops[Due(p)].memory]]
      BY <1>1, StepOf
    <2> QED
      BY <1>3, <2>1 DEF Local
  <1>5. Due(p)' = Due(p)
    BY <1>4 DEF Due
  <1>6. memory[ops[Due(p)].memory] # "none"
    BY <1>1, <1>2 DEF OpsOK, OpOK
  <1>7. (proc[p].request \in Request /\ proc[p].worst = "none") =>
           \A i \in OpsOf(proc[p].request) \ proc[p].todo : Upserts(i) => Indexed(ops[i].memory)
    BY <1>1 DEF IndexInv, SyncOK, Working
  <1>8. (proc'[p].request \in Request /\ proc'[p].worst = "none") =>
           \A i \in OpsOf(proc[p].request)' \ proc'[p].todo : Upserts(i)' => Indexed(ops[i].memory)'
    <2>1. IndexGrows
      BY <1>1, IndexUntouched
    <2> QED
      BY <1>1, <1>4, <1>7, <2>1, OpIndexedKept DEF OpsOf, Upserts
  <1>9. SyncOK(p)'
    BY <1>1, <1>4, <1>5, <1>6, <1>8 DEF SyncOK, Rebuilding
  <1> QED
    BY <1>1, <1>9, StoresUntouched

(* A deletion enqueues an operation that is no upsert, for itself.         *)
LEMMA DeleteIndex ==
    ASSUME TruthInv, TruthInv', Grows, IndexInv, NEW p \in Process, Remember(p),
           NEW m \in Memory, Delete(p, m)
    PROVE  IndexGrows /\ IndexOK' /\ SyncOK(p)'
  <1>1. Types /\ UNCHANGED <<requests, index>> /\ memory' = [memory EXCEPT ![m] = "deleted"]
        /\ ops' = Append(ops, Enqueued(m, m, "delete"))
    BY DEF TruthInv, Delete
  <1>2. proc'[p] = [Free EXCEPT !.pc = "sync", !.request = m, !.todo = {Len(ops) + 1}]
    BY <1>1, StepOf DEF Delete
  <1>3. proc'[p].pc = "sync" /\ proc'[p].request \notin Request
    BY <1>2, MemoryStoreAssumption DEF Free
  <1>4. /\ \A i \in DOMAIN ops : ops'[i] = ops[i]
        /\ \A i \in DOMAIN ops' \ DOMAIN ops : ~Upserts(i)'
    BY <1>1 DEF Types, Enqueued, Upserts
  <1>5. \A x \in Memory : memory[x] = "none" => memory'[x] # "active"
    BY <1>1 DEF Types
  <1>6. IndexGrows
    BY <1>1, IndexUntouched
  <1>7. IndexOK
    BY DEF IndexInv
  <1>8. IndexOK'
    BY <1>1, <1>4, <1>5, <1>6, <1>7, IndexKept DEF Outstanding
  <1> QED
    BY <1>3, <1>6, <1>8 DEF SyncOK, Working, Rebuilding

(* A commit enqueues an upsert for each memory it makes current.           *)
LEMMA CommitIndex ==
    ASSUME TruthInv, TruthInv', Grows, IndexInv, NEW p \in Process, Remember(p),
           Commit(p)
    PROVE  IndexGrows /\ IndexOK' /\ SyncOK(p)'
  <1>1. Types /\ IndexOK /\ CallOK(p)
    BY DEF TruthInv, IndexInv
  <1>2. CASE Refused(p)
    <2>1. proc'[p].pc = "idle"
      BY <1>1, <1>2, StepOf DEF Refused, Free
    <2> QED
      BY <1>2, <2>1, AtRest, StoresUntouched DEF Refused
  <1>3. CASE Committed(p)
    <2> DEFINE q == proc[p].request
    <2>1. q \in Request /\ requests' = [requests EXCEPT ![q] = "retryable"] /\ UNCHANGED index
      BY <1>1, <1>3 DEF Committed, CallOK
    <2>2. proc'[p].pc = "list"
      <3>1. proc'[p] = [Free EXCEPT !.pc = "list", !.request = q]
        BY <1>1, <1>3, StepOf DEF Committed
      <3> QED
        BY <3>1 DEF Free
    <2>3. \A m \in Memory : memory[m] = "none" /\ memory'[m] = "active" =>
             \E i \in DOMAIN ops' : Upserts(i)' /\ ops'[i].memory = m
      <3> SUFFICES ASSUME NEW m \in Memory, memory[m] = "none", memory'[m] = "active"
                   PROVE  \E i \in DOMAIN ops' : Upserts(i)' /\ ops'[i].memory = m
        OBVIOUS
      <3>1. m \in NewOf(Plans(p))
        BY <1>3 DEF Committed
      <3> QED
        BY <1>3, <3>1, CommittedOps DEF Upserts
    <2>4. \A i \in DOMAIN ops' \ DOMAIN ops :
             Outstanding(i)' /\ requests'[ops'[i].request] # "success"
      <3> SUFFICES ASSUME NEW i \in DOMAIN ops' \ DOMAIN ops
                   PROVE  Outstanding(i)' /\ requests'[ops'[i].request] # "success"
        OBVIOUS
      <3>1. ops'[i].request = q /\ ops'[i].status = "pending"
        BY <1>3, CommittedOps DEF PlanOps
      <3>2. requests'[q] = "retryable"
        BY <1>1, <2>1 DEF Types
      <3> QED
        BY <3>1, <3>2 DEF Outstanding
    <2>5. \A i \in DOMAIN ops : ops'[i] = ops[i]
      BY <1>3, CommittedOps
    <2>6. \A i \in DOMAIN ops : Upserts(i) /\ requests'[ops[i].request] = "success"
             => requests[ops[i].request] = "success"
      <3> SUFFICES ASSUME NEW i \in DOMAIN ops, Upserts(i), requests'[ops[i].request] = "success"
                   PROVE  requests[ops[i].request] = "success"
        OBVIOUS
      <3>1. ops[i].request \in Request
        BY DEF TruthInv, OpsOK, OpOK, Upserts
      <3> QED
        BY <1>1, <2>1, <3>1 DEF Types
    <2>7. IndexGrows
      BY <2>1, IndexUntouched
    <2>8. IndexOK'
      <3>1. \A i \in DOMAIN ops : Outstanding(i)' = Outstanding(i)
        BY <2>5 DEF Outstanding
      <3> HIDE DEF q
      <3> QED
        BY <1>1, <2>3, <2>4, <2>6, <2>7, <3>1, IndexKept
    <2> QED
      BY <2>2, <2>7, <2>8, AtRest
  <1> QED
    BY <1>2, <1>3, CommitOutcome

(* An upsert writes a memory that is still current as current; a deletion  *)
(* is about one that is not.                                               *)
LEMMA ApplyIndex ==
    ASSUME TruthInv, TruthInv', Grows, IndexInv, NEW p \in Process, Remember(p),
           Apply(p)
    PROVE  IndexGrows /\ IndexOK' /\ SyncOK(p)'
  <1> DEFINE op == ops[Due(p)]
             entry == Applied(op, proc[p].seen)
  <1>1. /\ Types /\ OpsOK /\ IndexOK /\ CallOK(p) /\ SyncOK(p)
        /\ UNCHANGED <<memory, successor, requests, ops>>
        /\ proc[p].pc \in {"sync", "apply"} /\ proc[p].todo # {}
        /\ op.kind = (IF proc[p].pc = "apply" THEN "upsert" ELSE "delete")
    BY DEF TruthInv, IndexInv, Apply
  <1>2. Due(p) \in DOMAIN ops /\ OpOK(Due(p)) /\ op.memory \in Memory
    BY <1>1, DueIsOne, OpTyped DEF OpsOK
  <1>3. proc[p] \in Local
    BY <1>1, LocalTyped
  <1>4. PICK error :
           /\ Becomes(p, [proc[p] EXCEPT !.pc = "mark", !.seen = "none", !.error = error])
           /\ \/ index' = [index EXCEPT ![op.memory] = entry]
              \/ index' = index /\ error # "none"
    <2>1. CASE /\ index' = [index EXCEPT ![op.memory] = entry]
               /\ Becomes(p, [proc[p] EXCEPT !.pc = "mark", !.seen = "none"])
      <3>1. [proc[p] EXCEPT !.pc = "mark", !.seen = "none"] =
            [proc[p] EXCEPT !.pc = "mark", !.seen = "none", !.error = proc[p].error]
        BY <1>3 DEF Local
      <3> QED
        BY <2>1, <3>1
    <2>2. CASE \E error \in Errors :
                  /\ Becomes(p, [proc[p] EXCEPT !.pc = "mark", !.seen = "none", !.error = error])
                  /\ UNCHANGED index
      BY <2>2, MemoryStoreAssumption
    <2> QED
      BY <2>1, <2>2 DEF Apply
  <1>5. /\ proc'[p].pc = "mark" /\ proc'[p].error = error /\ proc'[p].todo = proc[p].todo
        /\ proc'[p].request = proc[p].request /\ proc'[p].worst = proc[p].worst
    <2>1. proc'[p] = [proc[p] EXCEPT !.pc = "mark", !.seen = "none", !.error = error]
      BY <1>1, <1>4, StepOf
    <2> QED
      BY <1>3, <2>1 DEF Local
  <1>6. Due(p)' = Due(p)
    BY <1>5 DEF Due
  <1>7. memory[op.memory] = "active" => op.kind = "upsert" /\ entry = "active"
    <2> SUFFICES ASSUME memory[op.memory] = "active" PROVE op.kind = "upsert" /\ entry = "active"
      OBVIOUS
    <2>1. op.kind = "upsert"
      <3>1. op.kind # "delete"
        BY <1>2 DEF OpOK
      <3> QED
        BY <1>1, <3>1
    <2>2. proc[p].pc = "apply" /\ proc[p].seen = "active"
      BY <1>1, <2>1 DEF SyncOK
    <2> QED
      BY <2>1, <2>2 DEF Applied
  <1> HIDE DEF entry
  <1>8. IndexGrows
    <2>1. Respects(p)
      BY <1>1, <1>2, <1>4, <1>7 DEF Respects, Types, OpOK
    <2> QED
      BY <2>1, Respected
  <1>9. IndexOK'
    <2>1. \A i : Outstanding(i)' = Outstanding(i)
      BY <1>1 DEF Outstanding
    <2> QED
      BY <1>1, <1>8, <2>1, IndexKept
  <1>10. error = "none" => Indexed(op.memory)'
    <2>1. error = "none" /\ memory[op.memory] = "active" => index'[op.memory] = "active"
      BY <1>1, <1>2, <1>4, <1>7 DEF Types
    <2>2. op' = op
      BY <1>1, <1>6
    <2> QED
      BY <1>1, <2>1, <2>2 DEF Indexed
  <1>11. ASSUME proc[p].request \in Request, proc[p].worst = "none",
                NEW i \in OpsOf(proc[p].request) \ proc[p].todo, Upserts(i)
         PROVE  Indexed(ops[i].memory)'
    <2>1. i \in DOMAIN ops /\ Indexed(ops[i].memory)
      BY <1>1, <1>11 DEF SyncOK, Working, OpsOf
    <2> QED
      BY <1>8, <2>1, OpIndexedKept
  <1>12. OpsOf(proc[p].request)' = OpsOf(proc[p].request) \/ proc[p].request \notin Request
    BY <1>1, <1>5 DEF OpsOf
  <1>13. SyncOK(p)'
    <2>1. (proc'[p].error = "none" /\ Upserts(Due(p))') => Indexed(ops[Due(p)].memory)'
      BY <1>5, <1>10
    <2>2. (proc'[p].request \in Request /\ proc'[p].worst = "none") =>
             \A i \in OpsOf(proc[p].request)' \ proc'[p].todo :
                Upserts(i)' => Indexed(ops[i].memory)'
      BY <1>1, <1>5, <1>11 DEF OpsOf, Upserts
    <2> QED
      BY <1>5, <2>1, <2>2 DEF SyncOK, Rebuilding
  <1> QED
    BY <1>8, <1>9, <1>13

(* What is marked as synchronised was indexed by this very call.           *)
LEMMA MarkIndex ==
    ASSUME TruthInv, TruthInv', Grows, IndexInv, NEW p \in Process, Remember(p),
           Mark(p)
    PROVE  IndexGrows /\ IndexOK' /\ SyncOK(p)'
  <1> DEFINE d == Due(p)
             error == proc[p].error
             q == proc[p].request
  <1>1. /\ Types /\ IndexOK /\ CallOK(p) /\ SyncOK(p) /\ UNCHANGED <<memory, requests, index>>
        /\ proc[p].pc = "mark"
        /\ ops' = [ops EXCEPT ![d].status = StatusAfter(error)]
    BY DEF TruthInv, IndexInv, Mark
  <1>2. proc[p] \in Local /\ d \in DOMAIN ops
    BY <1>1, LocalTyped, DueIsOne DEF CallOK
  <1>3. /\ proc'[p].pc = "sync" /\ proc'[p].todo = proc[p].todo \ {d}
        /\ proc'[p].request = q /\ proc'[p].worst = Worst(proc[p].worst, error)
    <2>1. proc'[p] = [proc[p] EXCEPT !.pc = "sync", !.todo = @ \ {d},
                         !.worst = Worst(@, error), !.error = "none"]
      BY <1>1, StepOf DEF Mark
    <2> QED
      BY <1>2, <2>1 DEF Local
  <1>4. DOMAIN ops' = DOMAIN ops /\ \A i \in DOMAIN ops \ {d} : ops'[i] = ops[i]
    BY <1>1 DEF Types
  <1>5. \A i \in DOMAIN ops : /\ ops'[i].kind = ops[i].kind /\ ops'[i].memory = ops[i].memory
                              /\ ops'[i].request = ops[i].request
    BY DEF Grows
  <1>6. ops'[d].status = StatusAfter(error)
    <2>1. ops[d] \in Operation
      BY <1>1, <1>2, OpTyped
    <2> HIDE DEF d
    <2> QED
      BY <1>1, <1>2, <2>1 DEF Types, Operation
  <1>7. StatusAfter(error) = "synced" => error = "none"
    BY DEF StatusAfter
  <1>8. error = "none" /\ Upserts(d) => Indexed(ops[d].memory)
    BY <1>1 DEF SyncOK
  <1>9. IndexGrows
    BY <1>1, IndexUntouched
  <1>10. \A i \in DOMAIN ops : Upserts(i) /\ Outstanding(i) /\ ~Outstanding(i)' => Indexed(ops[i].memory)
    BY <1>4, <1>6, <1>7, <1>8 DEF Outstanding
  <1>11. IndexOK'
    <2>1. \A m \in Memory : ~(memory[m] = "none" /\ memory'[m] = "active")
      BY <1>1
    <2> QED
      BY <1>1, <1>4, <1>9, <1>10, <2>1, IndexKept
  <1>12. Worst(proc[p].worst, error) = "none" => proc[p].worst = "none" /\ error = "none"
    <2>1. proc[p].worst \in {"none", "unavailable", "mismatch"}
          /\ error \in {"none", "unavailable", "mismatch"}
      BY <1>2 DEF Local
    <2> QED
      BY <2>1 DEF Worst
  <1>13. ASSUME q \in Request, proc'[p].worst = "none",
                NEW i \in OpsOf(q)' \ proc'[p].todo, Upserts(i)'
         PROVE  Indexed(ops[i].memory)'
    <2>1. i \in OpsOf(q) /\ i \in DOMAIN ops /\ Upserts(i)
      BY <1>3, <1>4, <1>5, <1>13 DEF OpsOf, Upserts
    <2>2. Indexed(ops[i].memory)
      <3>1. CASE i = d
        BY <1>3, <1>8, <1>12, <1>13, <2>1, <3>1
      <3>2. CASE i # d
        <4>1. i \notin proc[p].todo
          BY <1>3, <1>13, <3>2
        <4> QED
          BY <1>1, <1>3, <1>12, <1>13, <2>1, <4>1 DEF SyncOK, Working
      <3> QED
        BY <3>1, <3>2
    <2> QED
      BY <1>9, <2>1, <2>2, OpIndexedKept
  <1>14. SyncOK(p)'
    BY <1>3, <1>13 DEF SyncOK, Rebuilding
  <1> QED
    BY <1>9, <1>11, <1>14

(* A call reports a success only when all its operations are indexed.      *)
LEMMA FinishIndex ==
    ASSUME TruthInv, TruthInv', Grows, IndexInv, NEW p \in Process, Remember(p),
           Finish(p)
    PROVE  IndexGrows /\ IndexOK' /\ SyncOK(p)'
  <1> DEFINE q == proc[p].request
  <1>1. /\ Types /\ IndexOK /\ SyncOK(p) /\ OpsOK /\ UNCHANGED <<memory, ops, index>>
        /\ proc[p].pc = "sync" /\ proc[p].todo = {}
        /\ requests' = IF q \in Request THEN [requests EXCEPT ![q] = ReportAfter(proc[p].worst)]
                       ELSE requests
    BY DEF TruthInv, IndexInv, Finish
  <1>2. proc'[p].pc = "idle"
    BY <1>1, StepOf DEF Finish, Free
  <1>3. ReportAfter(proc[p].worst) = "success" => proc[p].worst = "none"
    <2>1. proc[p].worst \in {"none", "unavailable", "mismatch"}
      BY <1>1, LocalTyped DEF Local
    <2> QED
      BY <2>1 DEF ReportAfter
  <1>4. ASSUME NEW i \in DOMAIN ops, Upserts(i), requests[ops[i].request] # "success",
               requests'[ops[i].request] = "success"
        PROVE  Indexed(ops[i].memory)
    <2>1. ops[i].request \in Request
      BY <1>1, <1>4 DEF OpsOK, OpOK, Upserts
    <2>2. ops[i].request = q /\ q \in Request /\ ReportAfter(proc[p].worst) = "success"
      BY <1>1, <1>4, <2>1 DEF Types
    <2>3. i \in OpsOf(q) \ proc[p].todo
      BY <1>1, <2>2 DEF OpsOf
    <2> QED
      BY <1>1, <1>3, <1>4, <2>2, <2>3 DEF SyncOK, Working
  <1>5. IndexGrows
    BY <1>1, IndexUntouched
  <1>6. IndexOK'
    <2>1. \A i : Outstanding(i)' = Outstanding(i)
      BY <1>1 DEF Outstanding
    <2>2. \A m \in Memory : ~(memory[m] = "none" /\ memory'[m] = "active")
      BY <1>1
    <2>3. DOMAIN ops' \ DOMAIN ops = {}
      BY <1>1
    <2> QED
      BY <1>1, <1>4, <1>5, <2>1, <2>2, <2>3, IndexKept
  <1> QED
    BY <1>2, <1>5, <1>6, AtRest

(* A step of a rebuild alters the index alone.                             *)
LEMMA RebuildIndex ==
    ASSUME TruthInv, TruthInv', Grows, IndexInv, IndexGrows,
           UNCHANGED <<memory, successor, requests, ops>>
    PROVE  IndexOK'
  <1>1. \A i : Outstanding(i)' = Outstanding(i)
    BY DEF Outstanding
  <1>2. \A m \in Memory : ~(memory[m] = "none" /\ memory'[m] = "active")
    OBVIOUS
  <1>3. DOMAIN ops' \ DOMAIN ops = {}
    OBVIOUS
  <1>4. IndexOK
    BY DEF IndexInv
  <1> QED
    BY <1>1, <1>2, <1>3, <1>4, IndexKept

(* What is current when the index is emptied, or is to be dropped from it, *)
(* became current after the rebuild had read.                              *)
LEMMA RebuildScanIndex ==
    ASSUME TruthInv, TruthInv', Grows, IndexInv, NEW p \in Process, Remember(p),
           RebuildScan(p)
    PROVE  IndexGrows /\ IndexOK' /\ SyncOK(p)'
  <1>1. /\ Types /\ HistoryTypes /\ proc[p].pc = "scan"
        /\ Active \subseteq proc[p].keep \cup fresh[p]
        /\ \A m \in proc[p].keep : memory[m] # "none"
        /\ UNCHANGED <<memory, successor, requests, ops>>
    BY DEF TruthInv, IndexInv, SyncOK, RebuildScan, Rebuilding
  <1>2. CASE proc[p].keep = {}
    <2>1. proc'[p].pc = "idle"
      BY <1>1, <1>2, StepOf DEF RebuildScan, Free
    <2>2. Respects(p)
      BY <1>1, <1>2 DEF RebuildScan, Respects, Active
    <2> QED
      BY <1>1, <2>1, <2>2, AtRest, Respected, RebuildIndex
  <1>3. CASE proc[p].keep # {}
    <2>1. Becomes(p, [proc[p] EXCEPT !.pc = "rebuild", !.drop = StaleIds(proc[p].keep)])
          /\ UNCHANGED index
      BY <1>3 DEF RebuildScan
    <2>2. proc'[p].pc = "rebuild" /\ proc'[p].drop = StaleIds(proc[p].keep)
          /\ proc'[p].keep = proc[p].keep
      <3>1. proc'[p] = [proc[p] EXCEPT !.pc = "rebuild", !.drop = StaleIds(proc[p].keep)]
        BY <1>1, <2>1, StepOf
      <3> QED
        BY <1>1, <3>1, LocalTyped DEF Local
    <2>3. fresh'[p] = fresh[p] \cup (Active' \ Active)
      BY <1>1, <2>2, Remembered DEF Rebuilding
    <2>4. StaleIds(proc[p].keep) \cap Active' \subseteq fresh'[p]
      BY <1>1, <2>3 DEF StaleIds, Active
    <2>5. IndexGrows
      BY <2>1, IndexUntouched
    <2>6. SyncOK(p)'
      BY <1>1, <2>2, <2>4 DEF SyncOK, Working, Rebuilding
    <2> QED
      BY <1>1, <2>5, <2>6, RebuildIndex
  <1> QED
    BY <1>2, <1>3

(* A rebuild writes what is stored, and deletes of what is current only    *)
(* what became so after it had read.                                       *)
LEMMA RebuildStepIndex ==
    ASSUME TruthInv, TruthInv', Grows, IndexInv, NEW p \in Process, Remember(p),
           RebuildStep(p)
    PROVE  IndexGrows /\ IndexOK' /\ SyncOK(p)'
  <1>1. /\ Types /\ HistoryTypes /\ proc[p].pc = "rebuild"
        /\ proc[p].drop \cap Active \subseteq fresh[p]
        /\ \A m \in proc[p].keep : memory[m] # "none"
        /\ UNCHANGED <<memory, successor, requests, ops>>
    BY DEF TruthInv, IndexInv, SyncOK, RebuildStep, Rebuilding
  <1>2. proc[p] \in Local
    BY <1>1, LocalTyped
  <1>3. IndexGrows
    <2>1. Respects(p)
      <3>1. \A m \in Memory : memory[m] = "active" /\ m \in proc[p].drop => m \in fresh[p]
        BY <1>1 DEF Active
      <3> QED
        BY <1>1, <3>1 DEF RebuildStep, Respects, Types
    <2> QED
      BY <2>1, Respected
  <1>4. PICK local : /\ Becomes(p, local)
                     /\ \/ local = Free
                        \/ \E m : local = [proc[p] EXCEPT !.keep = @ \ {m}]
                        \/ \E m : local = [proc[p] EXCEPT !.drop = @ \ {m}]
    BY DEF RebuildStep
  <1>5. proc'[p] = local
    BY <1>1, <1>4, StepOf
  <1>6. CASE local = Free
    <2>1. proc'[p].pc = "idle"
      BY <1>5, <1>6 DEF Free
    <2> QED
      BY <1>1, <1>3, <2>1, AtRest, RebuildIndex
  <1>7. CASE local # Free
    <2>1. /\ proc'[p].pc = "rebuild" /\ proc'[p].drop \subseteq proc[p].drop
          /\ proc'[p].keep \subseteq proc[p].keep
      BY <1>1, <1>2, <1>4, <1>5, <1>7 DEF Local
    <2>2. fresh'[p] = fresh[p] \cup (Active' \ Active) /\ Active' = Active
      BY <1>1, <2>1, Remembered DEF Rebuilding, Active
    <2>3. SyncOK(p)'
      BY <1>1, <2>1, <2>2 DEF SyncOK, Working, Rebuilding
    <2> QED
      BY <1>1, <1>3, <2>3, RebuildIndex
  <1> QED
    BY <1>6, <1>7

-----------------------------------------------------------------------------
(* Every step keeps the index consistent, rebuilds or not.                 *)
LEMMA NextIndex ==
    ASSUME TruthInv, IndexInv, [Next]_vars
    PROVE  IndexInv'
  <1>0. TruthInv' /\ Grows
    BY NextTruth
  <1>1. CASE UNCHANGED vars
    <2>1. /\ UNCHANGED <<memory, successor, requests, ops, index, proc, calls>>
          /\ UNCHANGED <<fresh, arrived, forgotten>>
      BY <1>1 DEF vars
    <2>2. HistoryTypes' /\ IndexOK'
      BY <2>1 DEF IndexInv, HistoryTypes, IndexOK, Active, Indexed, Outstanding, Upserts
    <2>3. ASSUME NEW p \in Process PROVE SyncOK(p)'
      <3>1. Due(p)' = Due(p)
        BY <2>1 DEF Due
      <3>2. Active' = Active /\ \A q : OpsOf(q)' = OpsOf(q)
        BY <2>1 DEF Active, OpsOf
      <3>3. SyncOK(p)
        BY DEF IndexInv
      <3> QED
        BY <2>1, <3>1, <3>2, <3>3 DEF SyncOK, Indexed, Upserts, Rebuilding
    <2> QED
      BY <2>2, <2>3 DEF IndexInv
  <1>2. ASSUME NEW p \in Process, Remember(p), IndexGrows, IndexOK', SyncOK(p)',
               \E local : Becomes(p, local)
        PROVE  IndexInv'
    <2>1. \A r \in Process \ {p} : proc'[r] = proc[r]
      BY <1>2, StepOf DEF TruthInv
    <2>2. \A r \in Process \ {p} : SyncOK(r)'
      BY <1>0, <1>2, <2>1, OthersSyncOK
    <2>3. HistoryTypes'
      BY <1>2, Remembered DEF IndexInv
    <2> QED
      BY <1>2, <2>2, <2>3 DEF IndexInv
  <1>3. ASSUME NEW p \in Process, Call(p), Remember(p)
        PROVE  IndexInv'
    <2>1. IndexGrows /\ IndexOK' /\ SyncOK(p)'
      BY <1>0, <1>3, WriteIndex, DeleteIndex, RepairIndex, RebuildReadIndex DEF Call
    <2>2. \E local : Becomes(p, local)
      BY <1>3 DEF Call, Write, Delete, Repair, RebuildRead
    <2> QED
      BY <1>2, <1>3, <2>1, <2>2
  <1>4. ASSUME NEW p \in Process, Step(p), Remember(p)
        PROVE  IndexInv'
    <2>1. IndexGrows /\ IndexOK' /\ SyncOK(p)'
      BY <1>0, <1>4, QueryIndex, PlanCandidateIndex, CommitIndex, ListOpsIndex, FetchIndex, ApplyIndex,
         MarkIndex, FinishIndex, RebuildScanIndex, RebuildStepIndex, AbortIndex DEF Step
    <2>2. \E local : Becomes(p, local)
      BY <1>4 DEF Step, Query, PlanCandidate, Commit, ListOps, Fetch, Apply, Mark, Finish,
         RebuildScan, RebuildStep, Abort
    <2> QED
      BY <1>2, <1>4, <2>1, <2>2
  <1> QED
    BY <1>1, <1>3, <1>4 DEF Next

(* Initially the index holds what is current, and no call is under way.    *)
LEMMA InitIndex == Init => IndexInv
  <1> SUFFICES ASSUME Init PROVE IndexInv
    OBVIOUS
  <1>1. HistoryTypes /\ IndexOK
    BY DEF Init, HistoryTypes, IndexOK, Indexed, Active
  <1>2. ASSUME NEW p \in Process PROVE SyncOK(p)
    <2>1. proc[p].pc = "idle"
      BY DEF Init, Free
    <2> QED
      BY <2>1 DEF SyncOK, Working, Rebuilding
  <1> QED
    BY <1>1, <1>2 DEF IndexInv

-----------------------------------------------------------------------------
(* SQLite is consistent throughout.                                        *)
THEOREM TruthInvariance == Spec => []TruthInv
  <1>1. TruthInv /\ [Next]_vars => TruthInv'
    BY NextTruth
  <1> QED
    BY <1>1, InitTruth, PTL DEF Spec

(* Whatever rebuilds run among the writers, the index loses a current      *)
(* memory that no operation will put back only if it was committed after   *)
(* the rebuild that took it out had read the current ones.                 *)
THEOREM IndexInvariance == Spec => []IndexInv
  <1>1. TruthInv /\ IndexInv /\ [Next]_vars => IndexInv'
    BY NextIndex
  <1> QED
    BY <1>1, InitIndex, TruthInvariance, PTL DEF Spec

(* Every variable and every local of a call keeps its type.                *)
THEOREM TypeCorrect == Spec => []TypeOK
  <1>1. TruthInv /\ IndexInv => TypeOK
    BY DEF TruthInv, Types, IndexInv, HistoryTypes, TypeOK, CallOK, Local
  <1> QED
    BY <1>1, TruthInvariance, IndexInvariance, PTL

(* Of two writes that planned to replace the same memory, one commits.     *)
THEOREM OneSuccessor == Spec => []NoFork
  <1>1. TruthInv => NoFork
    BY DEF TruthInv
  <1> QED
    BY <1>1, TruthInvariance, PTL

(* However often a request is sent, its operations are enqueued once.      *)
THEOREM AppliedOnce == Spec => CommittedOnce
  <1>1. TruthInv /\ [Next]_vars =>
            [\A q \in Request : requests[q] # "none" => OpsOf(q)' = OpsOf(q)]_vars
    BY NextTruth DEF Grows
  <1> QED
    BY <1>1, TruthInvariance, PTL DEF Spec, CommittedOnce

(* Every current memory is in the index or has its upsert on record,       *)
(* whatever failed or died halfway, unless a rebuild has forgotten it.     *)
THEOREM NeverLost == Spec => []IndexedOrOwed
  <1>1. IndexInv => IndexedOrOwed
    BY DEF IndexInv, IndexOK, IndexedOrOwed, Owed, Indexed, Active
  <1> QED
    BY <1>1, IndexInvariance, PTL

(* Between its two reads a lookup loses sight of a current memory only if  *)
(* that memory is indexed then, or was forgotten by a rebuild.             *)
THEOREM LookupMisses == Spec => []MissedOnlyMoved
  <1>1. IndexInv => MissedOnlyMoved
    <2> SUFFICES ASSUME IndexInv, NEW p \in Process, proc[p].pc = "look",
                        NEW m \in Active \ Found(p), m \notin arrived[p]
                 PROVE  m \in forgotten
      BY DEF MissedOnlyMoved
    <2>1. m \notin proc[p].hits /\ m \notin Owed
      BY DEF Found
    <2>2. index[m] # "active"
      BY <2>1 DEF IndexInv, SyncOK
    <2>3. Indexed(m)
      BY <2>1 DEF IndexInv, IndexOK, Owed
    <2> QED
      BY <2>2, <2>3 DEF Indexed, Active
  <1> QED
    BY <1>1, IndexInvariance, PTL

(* What a request reported as synchronised is in the index for as long as  *)
(* it is current, unless a rebuild has forgotten it.                       *)
THEOREM SuccessHolds == Spec => []SuccessIsIndexed
  <1>1. IndexInv => SuccessIsIndexed
    BY DEF IndexInv, IndexOK, SuccessIsIndexed, Indexed, Active
  <1> QED
    BY <1>1, IndexInvariance, PTL
=============================================================================
