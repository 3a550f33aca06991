------------------------ MODULE PendingResolution ------------------------
(***************************************************************************)
(* The deferred event assertions of agents_memory.  An event whose identity *)
(* with an active memory is unclear is not remembered but kept as a pending *)
(* item, with the memories it may conflict with.  Every later write of the  *)
(* same scope reconsiders the open items against its own messages before it *)
(* plans its own candidates, and commits both kinds of plan at once; other  *)
(* writes, the maintenance sweep, the clean-up of closed items and the      *)
(* deletion of memories interleave with the planning.                       *)
(*                                                                          *)
(* Abstracted: one exact scope; every candidate is an event that one user   *)
(* message states, and carries the name of that message; what the extractor *)
(* makes of a message and what the resolver answers are any choice; times   *)
(* are reduced to whether an item is past its expiry; the index is the      *)
(* subject of MemoryStore.                                                  *)
(***************************************************************************)
EXTENDS Integers, FiniteSets, SequencesExt

CONSTANTS
    Process,        \* concurrent writes
    Message,        \* message ids, each always with the same content
    UserMessage,    \* those spoken by the user
    Marked,         \* those with a word that points back ("that time", ...)
    Dimension,      \* comparable dimensions of an event frame
    Frame,          \* what each message says of the event it is about
    Memory,         \* memory ids, handed out once each
    Stored,         \* memories active at the start
    Item,           \* ids of pending items, handed out once each
    Waiting,        \* items open at the start
    Deferred,       \* the message each of them was deferred from
    Conflicts,      \* the memories each of them may conflict with
    Deletable,      \* memories a user may delete
    CleanupWaits,   \* whether `pending cleanup` spares rows a running write has read
    MaxWork,        \* messages of one write and the open items it reconsiders
    MaxPending,     \* open items a write reconsiders
    MaxWrites       \* writes

Unknown == "unknown"
None == "none"

ASSUME PendingResolutionAssumption ==
    /\ UserMessage \subseteq Message
    /\ Marked \subseteq Message
    /\ \A m \in Message : Frame[m] = [d \in Dimension |-> Frame[m][d]]
    /\ Stored \subseteq Memory
    /\ Waiting \subseteq Item /\ IsFiniteSet(Item)
    /\ None \notin Memory \cup Item
    /\ Deferred \in [Waiting -> UserMessage]
    /\ Conflicts \in [Waiting -> (SUBSET Stored) \ {{}}]
    /\ Deletable \subseteq Stored
    /\ CleanupWaits \in BOOLEAN
    /\ {MaxWork, MaxPending, MaxWrites} \subseteq Nat \ {0}

VARIABLES
    memory,     \* the memories table: no row, active, history, deleted
    pending,    \* the pending_resolutions table
    due,        \* items whose expires_at lies in the past; it is set once
    answers,    \* history variable: the memories that resolved each item
    proc,       \* the locals of each write
    writes      \* writes so far, bounded by MaxWrites

vars == <<memory, pending, due, answers, proc, writes>>

Terminal == {"resolved", "expired", "obsolete"}
Status == {"absent", "open", "gone"} \cup Terminal
Absent == [status |-> "absent", frame |-> [d \in Dimension |-> Unknown],
           group |-> <<>>, targets |-> {}, seen |-> {}]

Free == [pc |-> "idle", messages |-> {}, candidates |-> {}, items |-> <<>>,
         claimed |-> {}, plans |-> <<>>]

Init ==
    /\ memory = [m \in Memory |-> IF m \in Stored THEN "active" ELSE "none"]
    /\ pending = [i \in Item |->
          IF i \in Waiting
            THEN [status |-> "open", frame |-> Frame[Deferred[i]], group |-> <<Deferred[i]>>,
                  targets |-> Conflicts[i], seen |-> {Deferred[i]}]
            ELSE Absent]
    /\ due = {}
    /\ answers = [i \in Item |-> {}]
    /\ proc = [p \in Process |-> Free]
    /\ writes = 0

-----------------------------------------------------------------------------
\* Event frames.
Known(frame) == {d \in Dimension : frame[d] # Unknown}

\* The comparable dimensions agree, and there is one.
FramesRelated(a, b) ==
    LET comparable == Known(a) \cap Known(b)
    IN comparable # {} /\ \A d \in comparable : a[d] = b[d]

GroupRelated(group, c) ==
    group # <<>> /\ \A g \in ToSet(group) : FramesRelated(Frame[g], Frame[c])

\* Dimensions still unknown are filled in from another assertion.
Filled(frame, c) ==
    [d \in Dimension |-> IF frame[d] = Unknown THEN Frame[c][d] ELSE frame[d]]

\* The frame of an item, completed by the rest of its group and the evidence.
Composed(item, evidence) ==
    FoldLeft(Filled, item.frame, Tail(item.group) \o evidence)

\* A raw message bears on an item.
MessageRelated(item, m) ==
    m \in Marked \/ \E d \in Known(item.frame) : Frame[m][d] = item.frame[d]

-----------------------------------------------------------------------------
\* The decision on an event.  The answer of the resolver for a memory joins
\* its identity and its relation: "unknown" identity, a "different" event
\* (also as an explicit correction, "amends"), or for the same event its relation.
Answer == {"none", "unknown", "different", "amends",
           "duplicate", "supplement", "contradict", "correct", "unconfirmed"}

Action(name, targets) == [action |-> name, targets |-> targets]

Decide(answer) ==
    LET near == {m \in DOMAIN answer : answer[m] # "none"}
        kinds == {answer[m] : m \in near}
        differ == {"different", "amends"}
    IN IF near = {} THEN Action("add", {})
       ELSE IF "unknown" \in kinds THEN Action("defer", near)
       ELSE IF kinds = {"different"} THEN Action("add", {})
       ELSE IF kinds \subseteq differ THEN Action("defer", near)
       ELSE IF kinds \cap differ # {} THEN Action("ambiguous", {})
       ELSE IF kinds = {"duplicate"} THEN Action("noop", near)
       ELSE IF kinds = {"supplement"} THEN Action("add", {})
       ELSE IF kinds \in {{"correct"}, {"contradict"}} THEN Action("update", near)
       ELSE Action("defer", near)

Decisions == [histories \in SUBSET Memory |-> {Decide(answer) : answer \in [histories -> Answer]}]

-----------------------------------------------------------------------------
Active == {m \in Memory : memory[m] = "active"}
Open == {i \in Item : pending[i].status = "open"}
NewOf(plans) == {plans[i].new : i \in DOMAIN plans} \ {None}
ReplacedBy(plans) == UNION {plans[i].targets : i \in {j \in DOMAIN plans : plans[j].action = "update"}}
ItemsOf(plans) == {plans[i].item : i \in DOMAIN plans} \ {None}

\* Faulty: ids are counted up from the table.
NextMemories == {m \in Memory : memory[m] = "none"}
\* uuid4: an id that nothing has or had.
FreeMemories == {m \in Memory : memory[m] = "none"} \ UNION {NewOf(proc[p].plans) : p \in Process}
FreeItems == {i \in Item : pending[i].status = "absent"} \ UNION {ItemsOf(proc[p].plans) : p \in Process}
IdsFor(decision) ==
    /\ decision.action \in {"add", "update"} => FreeMemories # {}
    /\ decision.action = "defer" => FreeItems # {}

\* The plan for a decision; item and row say which pending row it saves.
Plan(decision, item, row) ==
    [action |-> decision.action, targets |-> decision.targets, item |-> item, row |-> row,
     new |-> IF decision.action \in {"add", "update"} THEN CHOOSE m \in FreeMemories : TRUE ELSE None]

Becomes(p, local) == proc' = [proc EXCEPT ![p] = local]
Planned(p, plan, local) == Becomes(p, [local EXCEPT !.plans = Append(@, plan)])

-----------------------------------------------------------------------------
\* A write begins: its messages, the candidates extracted from them, and up to
\* MaxPending of the open items of the scope, as they are stored now.
Begin(p) ==
    /\ proc[p].pc = "idle"
    /\ writes < MaxWrites
    /\ writes' = writes + 1
    /\ \E messages \in (SUBSET Message) \ {{}} :
          \E candidates \in SUBSET (messages \cap UserMessage), items \in SUBSET Open :
                /\ Cardinality(messages) + Cardinality(items) <= MaxWork
                /\ Cardinality(items) = (IF Cardinality(Open) < MaxPending
                                           THEN Cardinality(Open) ELSE MaxPending)
                /\ \E listed \in SetToSeqs(items) :
                      Becomes(p, [Free EXCEPT
                          !.pc = "plan", !.messages = messages, !.candidates = candidates,
                          !.items = [k \in DOMAIN listed |->
                              [id |-> listed[k], row |-> pending[listed[k]],
                               due |-> listed[k] \in due]]])
    /\ UNCHANGED <<memory, pending, due, answers>>

\* What closes the item without looking at any evidence.
ClosedBy(item, claimed) ==
    IF item.due THEN "expired"
    ELSE IF claimed \cap item.row.targets # {} THEN "obsolete" ELSE "open"

\* A candidate is preferred as evidence, and then has to be a new message;
\* only when no candidate is related are the raw messages looked at.
Evidence(item, fresh, candidates) ==
    LET related == {c \in candidates : FramesRelated(item.row.frame, Frame[c])}
        raw == {m \in fresh \cap UserMessage : MessageRelated(item.row, m)}
    IN IF related # {}
         THEN {[used |-> {c}, messages |-> {c} \cap fresh] : c \in related}
         ELSE {[used |-> {}, messages |-> raw]}

\* Faulty: a duplicate claims its target as well.
ClaimsAny(decision) == decision.targets
\* The memories a plan takes from the items that are still to come.
Claims(decision) == IF decision.action = "update" THEN decision.targets ELSE {}

\* The row of an item after its evidence: obsolete when no target is left,
\* open when the decision is deferred again, otherwise resolved.
Resolution(item, e, action) ==
    [item.row EXCEPT
        !.seen = @ \cup e.messages,
        !.status = CASE action = "none" -> "obsolete" [] action = "defer" -> "open" [] OTHER -> "resolved",
        !.frame = IF action = "none" THEN @ ELSE Composed(item.row, SetToSeq(e.used))]

\* One open item is reconsidered, with its targets as they are stored now.
Reconcile(p) ==
    LET local == proc[p]
        item == Head(local.items)
        rest == [local EXCEPT !.items = Tail(@)]
        fresh == local.messages \ item.row.seen
        closed == ClosedBy(item, local.claimed)
        active == item.row.targets \cap Active
    IN /\ local.pc = "plan"
       /\ local.items # <<>>
       /\ IF fresh = {} THEN Becomes(p, rest)
          ELSE IF closed # "open"
            THEN Planned(p, Plan(Action("noop", {}), item.id, [item.row EXCEPT !.status = closed]), rest)
          ELSE \E e \in Evidence(item, fresh, local.candidates) :
            LET left == [rest EXCEPT !.candidates = @ \ e.used]
            IN IF e.messages = {} THEN Becomes(p, rest)
               ELSE IF active = {}
                 THEN Planned(p, Plan(Action("noop", {}), item.id, Resolution(item, e, "none")), left)
               ELSE \E decision \in Decisions[active] :
                 IF decision.action = "ambiguous" THEN Becomes(p, Free)
                 ELSE /\ decision.action \in {"add", "update"} => FreeMemories # {}
                      /\ Planned(p, Plan(decision, item.id, Resolution(item, e, decision.action)),
                                 [left EXCEPT !.claimed = @ \cup Claims(decision)])
       /\ UNCHANGED <<memory, pending, due, answers, writes>>

\* The groups this write has deferred so far: the last plan of each item that
\* has no row yet.
Groups(plans) ==
    {plans[k] : k \in {k \in DOMAIN plans :
        /\ plans[k].item # None
        /\ pending[plans[k].item].status = "absent"
        /\ \A l \in DOMAIN plans : l > k => plans[l].item # plans[k].item}}

\* A deferred candidate joins a group it shares a target or its frame with.
Joinable(c, decision, plans) ==
    {g \in Groups(plans) :
        g.row.targets \cap decision.targets # {} \/ GroupRelated(g.row.group, c)}

Collected(c, decision, plans) ==
    IF Joinable(c, decision, plans) # {}
      THEN {Plan(decision, g.item,
                 [g.row EXCEPT !.group = Append(@, c), !.targets = @ \cup decision.targets,
                               !.seen = @ \cup {c}]) : g \in Joinable(c, decision, plans)}
      ELSE {Plan(decision, CHOOSE i \in FreeItems : TRUE,
                 [status |-> "open", frame |-> Frame[c], group |-> <<c>>,
                  targets |-> decision.targets, seen |-> {c}])}

\* A candidate that no item has used is decided on against the memories and
\* the plans before it.
PlanCandidate(p) ==
    LET local == proc[p]
        overlay == (Active \cup NewOf(local.plans)) \ ReplacedBy(local.plans)
    IN /\ local.pc = "plan"
       /\ local.items = <<>>
       /\ \E c \in local.candidates, decision \in Decisions[overlay] :
            LET left == [local EXCEPT !.candidates = @ \ {c}]
            IN IF decision.action = "ambiguous" THEN Becomes(p, Free)
               ELSE /\ IdsFor(decision)
                    /\ IF decision.action = "defer"
                         THEN \E plan \in Collected(c, decision, local.plans) : Planned(p, plan, left)
                         ELSE Planned(p, Plan(decision, None, Absent), left)
       /\ UNCHANGED <<memory, pending, due, answers, writes>>

-----------------------------------------------------------------------------
AlwaysSavable(stored, row) == TRUE      \* faulty: a closed item is overwritten
\* save_pending_resolution: a closed item keeps its status.
Savable(stored, row) == stored.status \in Terminal => row.status = stored.status

\* A plan that cannot be applied rolls the whole write back.
Applies(db, plan) ==
    /\ plan.action = "update" => plan.targets \subseteq db.active
    /\ plan.item # None => Savable(db.pending[plan.item], plan.row)

Applied(db, plan) ==
    [ok |-> db.ok /\ Applies(db, plan),
     active |-> (db.active \ (IF plan.action = "update" THEN plan.targets ELSE {}))
                    \cup ({plan.new} \ {None}),
     pending |-> IF plan.item = None THEN db.pending
                 ELSE [db.pending EXCEPT ![plan.item] = plan.row],
     answers |-> IF plan.item = None \/ plan.new = None THEN db.answers
                 ELSE [db.answers EXCEPT ![plan.item] = @ \cup {plan.new}]]

\* The one transaction of a write: every plan in order, or none.
Commit(p) ==
    LET plans == proc[p].plans
        db == FoldLeft(Applied, [ok |-> TRUE, active |-> Active, pending |-> pending,
                                 answers |-> answers], plans)
    IN /\ proc[p].pc = "plan"
       /\ proc[p].items = <<>>
       /\ proc[p].candidates = {}
       /\ IF db.ok
            THEN /\ memory' = [m \in Memory |->
                        IF m \in db.active THEN "active"
                        ELSE IF m \in Active \cup NewOf(plans) THEN "history" ELSE memory[m]]
                 /\ pending' = db.pending
                 /\ answers' = db.answers
            ELSE UNCHANGED <<memory, pending, answers>>
       /\ Becomes(p, Free)
       /\ UNCHANGED <<due, writes>>

\* The extractor, the resolver, the embedder or the index fails, a message id
\* comes back with another content, or the process dies.
Abort(p) ==
    /\ proc[p].pc # "idle"
    /\ Becomes(p, Free)
    /\ UNCHANGED <<memory, pending, due, answers, writes>>

-----------------------------------------------------------------------------
\* An item passes its expiry; neither a merge nor a resolution moves expires_at.
Expire(i) ==
    /\ pending[i].status = "open"
    /\ i \notin due
    /\ due' = due \cup {i}
    /\ UNCHANGED <<memory, pending, answers, proc, writes>>

\* The maintenance sweep, in one transaction.
Swept(i) ==
    IF i \in due THEN "expired"
    ELSE IF pending[i].targets # {} /\ pending[i].targets \cap Active = {} THEN "obsolete" ELSE "open"

Sweep ==
    /\ \E i \in Open : Swept(i) # "open"
    /\ pending' = [i \in Item |->
          IF i \in Open THEN [pending[i] EXCEPT !.status = Swept(i)] ELSE pending[i]]
    /\ UNCHANGED <<memory, due, answers, proc, writes>>

\* What a write holds of the table.
Held(p) == ItemsOf(proc[p].plans) \cup {proc[p].items[k].id : k \in DOMAIN proc[p].items}

\* Closed rows last updated before a date the operator gives are deleted; with
\* CleanupWaits the date lies before the start of every write under way.
Cleanup(i) ==
    /\ pending[i].status \in Terminal
    /\ CleanupWaits => \A p \in Process : i \notin Held(p)
    /\ pending' = [pending EXCEPT ![i] = [Absent EXCEPT !.status = "gone"]]
    /\ UNCHANGED <<memory, due, answers, proc, writes>>

\* A user deletes a memory.
Forget(m) ==
    /\ m \in Deletable
    /\ memory[m] \in {"active", "history"}
    /\ memory' = [memory EXCEPT ![m] = "deleted"]
    /\ UNCHANGED <<pending, due, answers, proc, writes>>

Next ==
    \/ \E p \in Process :
          Begin(p) \/ Reconcile(p) \/ PlanCandidate(p) \/ Commit(p) \/ Abort(p)
    \/ \E i \in Item : Expire(i) \/ Cleanup(i)
    \/ Sweep
    \/ \E m \in Memory : Forget(m)

Spec == Init /\ [][Next]_vars
-----------------------------------------------------------------------------
Row == [status : Status, frame : [Dimension -> (UNION {{Frame[m][d] : d \in Dimension} : m \in Message}) \cup {Unknown}],
        group : Seq(Message), targets : SUBSET Memory, seen : SUBSET Message]

\* Every variable has its type.  What a write saves is an open or a closed
\* row, never a missing one, and its plans name memories and items of their own.
TypeOK ==
    /\ memory \in [Memory -> {"none", "active", "history", "deleted"}]
    /\ pending \in [Item -> Row]
    /\ due \subseteq Item
    /\ answers \in [Item -> SUBSET Memory]
    /\ writes \in 0..MaxWrites
    /\ \A p \in Process :
          /\ proc[p].pc \in {"idle", "plan"}
          /\ proc[p].messages \cup proc[p].candidates \subseteq Message
          /\ proc[p].claimed \subseteq Memory
          /\ \A k \in DOMAIN proc[p].plans :
                LET plan == proc[p].plans[k]
                IN plan.item # None => plan.row.status \in {"open"} \cup Terminal
    /\ \A p, q \in Process : p # q => NewOf(proc[p].plans) \cap NewOf(proc[q].plans) = {}

\* An item that ended without an answer has put nothing into the memory:
\* whatever the sweep and other writes did while its resolution was planned,
\* an expired or obsolete item and a memory that resolves it do not go together.
ClosedUnanswered ==
    \A i \in Item : pending[i].status \in {"expired", "obsolete"} => answers[i] = {}

\* An item is given up as obsolete only when a memory it was in conflict with
\* is no longer current, and as expired only when its time was over.
ClosedForCause ==
    \A i \in Item :
        /\ pending[i].status = "obsolete" => ~(pending[i].targets \subseteq Active)
        /\ pending[i].status = "expired" => i \in due

\* Not so in the code, which saves RESOLVED over RESOLVED: of two writes that
\* reconsider the same item, with the same or with other
\* evidence, one alone turns it into a memory.
ResolvedOnce == \A i \in Item : Cardinality(answers[i]) <= 1
=============================================================================
