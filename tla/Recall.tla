------------------------------ MODULE Recall ------------------------------
(***************************************************************************)
(* One recall of agents_memory, stage by stage: the intent and the lanes,   *)
(* candidates from the index, from SQLite and along relations, hydration    *)
(* and filtering against SQLite, scoring, grouping into evidence, selection *)
(* under the budget and the final check before the answer.  No transaction  *)
(* spans the stages: writers supersede, correct and delete memories, and    *)
(* synchronise the index, between any two of them.                          *)
(*                                                                          *)
(* Abstracted: one user, who alone owns every memory here; the utility, the *)
(* similarity and what the models answer are any choice; the type and the   *)
(* time filters are left out; a lane asks for one query variant, and the    *)
(* lanes are read together; the event model returns at most two groups.     *)
(***************************************************************************)
EXTENDS Integers, FiniteSets

CONSTANTS
    Memory,         \* memory ids
    Stored,         \* memories active at the start
    Late,           \* those of them that may not be indexed yet
    Scope,          \* where each memory belongs, see Scopes
    Importance,     \* of each memory
    Requests,       \* the requests considered
    Quota,          \* hits of the index per lane
    ReadLimit,      \* rows of a temporal or coverage read
    SeedLimit,      \* candidates whose relations are followed
    GlobalLimit,    \* candidates of a recall
    MaxEvidence,    \* groups of an answer
    Corrects,       \* whether writers correct, too, and not only supersede
    MaxFaults,      \* recoverable failures of a recall
    MaxChanges      \* memories changed, and memories synchronised, meanwhile

Lane == {"session", "agent", "user"}
\* This session, another session of the agent, the agent itself, another
\* agent, the user.
Scopes == {"session", "past", "agent", "other", "user"}

ASSUME RecallAssumption ==
    /\ IsFiniteSet(Memory)
    /\ Stored \subseteq Memory /\ Late \subseteq Stored
    /\ Scope \in [Memory -> Scopes]
    /\ Importance \in [Memory -> 1..10]
    /\ Requests \subseteq [lanes : SUBSET Lane, time : {"none", "current", "past"}]
    /\ {Quota, ReadLimit, SeedLimit, GlobalLimit, MaxEvidence} \subseteq Nat \ {0}
    /\ Corrects \in BOOLEAN
    /\ {MaxFaults, MaxChanges} \subseteq Nat

VARIABLES
    memory,         \* the memories table
    links,          \* memory_relations: a replaced memory and its successor
    index,          \* Chroma: the memories with an entry, all of them ACTIVE there
    outstanding,    \* memories with an index operation that is not SYNCED
    synced,         \* history: those whose operation was carried out meanwhile
    pc,             \* the next stage
    request,        \* the lanes and the temporal view that were asked for
    view,           \* whether structured time reads are still wanted
    seeding,        \* whether relations are still to be followed
    hits,           \* how often each memory was hit
    record,         \* the validity of each eligible record when it was loaded
    groups,         \* the evidence groups
    selected,       \* those of the answer
    sufficiency,    \* what the answer says of itself
    degraded        \* degradation codes

store == <<memory, links, index, outstanding, synced>>
evidence == <<groups, selected, sufficiency>>
recall == <<pc, request, view, seeding, hits, record, evidence, degraded>>
vars == <<store, recall>>

Stage == {"intent", "semantic", "reads", "coverage", "relations", "filter", "score",
          "resolve", "select", "recheck", "done", "failed"}
Code == {"intent", "semantic", "vector", "relation", "scoring", "resolution"}

NoRecord == "unloaded"
Group(primary, role, rest) == [primary |-> primary, role |-> role, rest |-> rest]
Members(group) == {group.primary} \cup group.rest

Init ==
    /\ memory = [m \in Memory |-> IF m \in Stored THEN "active" ELSE "none"]
    /\ links = {}
    /\ outstanding \in SUBSET Late
    /\ index = Stored \ outstanding
    /\ synced = {}
    /\ pc = "intent"
    /\ request \in Requests
    /\ view = FALSE
    /\ seeding = FALSE
    /\ hits = [m \in Memory |-> 0]
    /\ record = [m \in Memory |-> NoRecord]
    /\ groups = {}
    /\ selected = {}
    /\ sufficiency = "unknown"
    /\ degraded = {}

-----------------------------------------------------------------------------
\* The first n elements by a rank; ties are broken in any way.
FirstBy(S, n, Rank(_)) ==
    {T \in SUBSET S :
        /\ Cardinality(T) = (IF Cardinality(S) < n THEN Cardinality(S) ELSE n)
        /\ \A a \in T, b \in S \ T : Rank(a) >= Rank(b)}

AtMost(S, n) == FirstBy(S, n, LAMBDA m : 0)

\* Faulty: the index is asked for the whole agent in the session lane too.
IndexedWithoutSession(lane) ==
    {m \in index : lane # "user" => Scope[m] \in {"session", "past", "agent"}}
\* query_candidates leaves out a filter that its lane does not set.
Indexed(lane) ==
    {m \in index : /\ lane = "session" => Scope[m] = "session"
                   /\ lane = "agent" => Scope[m] \in {"session", "past", "agent"}}

\* The SQL reads compare the scope of their lane exactly.
InTable(lane) == {m \in Memory : memory[m] = "active" /\ Scope[m] = lane}

Linked(S) == {m \in Memory : \E s \in S : <<s, m>> \in links \/ <<m, s>> \in links}

Hit(S, h) == [m \in Memory |-> IF m \in S THEN h[m] + 1 ELSE h[m]]
Found == {m \in Memory : hits[m] > 0}

\* A stage that fails recoverably leaves a code; MaxFaults bounds them.
Degrade(codes) ==
    /\ degraded' = degraded \cup codes
    /\ Cardinality(degraded') <= MaxFaults

-----------------------------------------------------------------------------
\* The intent: a model that is missing, fails or is unsure is replaced by the
\* raw query, which asks for no temporal view unless the caller did.
Intent ==
    /\ pc = "intent"
    /\ \/ /\ view' \in {request.time # "none", TRUE}
          /\ UNCHANGED degraded
       \/ /\ view' = (request.time # "none")
          /\ Degrade({"intent"})
    /\ pc' = "semantic"
    /\ UNCHANGED <<store, request, seeding, hits, record, evidence>>

\* One answer per lane of the request.
ForLane(lane, answers) == IF lane \in request.lanes THEN answers ELSE {{}}
HitBy(session, agent, user) == Hit(session, Hit(agent, Hit(user, hits)))

\* The semantic path: the embedder may fail as a whole, the index per lane.
Semantic ==
    /\ pc = "semantic"
    /\ \/ /\ request.lanes # {}
          /\ seeding' = FALSE
          /\ Degrade({"semantic"})
          /\ UNCHANGED hits
       \/ \E down \in SUBSET request.lanes :
            LET Answers(lane) ==
                    ForLane(lane, IF lane \in down THEN {{}} ELSE AtMost(Indexed(lane), Quota))
            IN  /\ \E s \in Answers("session"), a \in Answers("agent"), u \in Answers("user") :
                      hits' = HitBy(s, a, u)
                /\ seeding' = (down = {})
                /\ Degrade({"vector" : lane \in down})
    /\ pc' = "reads"
    /\ UNCHANGED <<store, request, view, record, evidence>>

\* The structured time reads, when the intent asks for them.
TimeReads ==
    /\ pc = "reads"
    /\ LET Answers(lane) ==
               ForLane(lane, IF view THEN AtMost(InTable(lane), ReadLimit) ELSE {{}})
       IN  \E s \in Answers("session"), a \in Answers("agent"), u \in Answers("user") :
              hits' = HitBy(s, a, u)
    /\ pc' = "coverage"
    /\ view' = FALSE
    /\ UNCHANGED <<store, request, seeding, record, evidence, degraded>>

\* Faulty: the user's scope is taken for one that was covered already.
UnsyncedOnce(lane) == IF lane = "user" THEN {} ELSE InTable(lane) \cap outstanding
Unsynced(lane) == InTable(lane) \cap outstanding

\* The reads that cover what is not indexed yet.
Coverage ==
    /\ pc = "coverage"
    /\ LET Answers(lane) == ForLane(lane, AtMost(Unsynced(lane), ReadLimit))
       IN  \E s \in Answers("session"), a \in Answers("agent"), u \in Answers("user") :
              hits' = HitBy(s, a, u)
    /\ pc' = "relations"
    /\ UNCHANGED <<store, request, view, seeding, record, evidence, degraded>>

\* One hop from the best candidates, unless the semantic path failed.
Relations ==
    /\ pc = "relations"
    /\ \/ /\ seeding
          /\ \E seeds \in FirstBy(Found, SeedLimit, LAMBDA m : hits[m]) :
                hits' = Hit(Linked(seeds) \ Found, hits)
          /\ UNCHANGED degraded
       \/ /\ seeding /\ Found # {}
          /\ Degrade({"relation"})
          /\ UNCHANGED hits
       \/ ~seeding /\ UNCHANGED <<hits, degraded>>
    /\ pc' = "filter"
    /\ seeding' = FALSE
    /\ UNCHANGED <<store, request, view, record, evidence>>

\* Faulty: what the index called active is taken to be active.
EligibleIfStored(m) == memory[m] \notin {"none", "deleted"}
\* A record counts when it is current; a superseded one only for a request
\* about the past, a retracted one never.
Eligible(m) ==
    memory[m] = "active" \/ (memory[m] = "superseded" /\ request.time = "past")

\* The candidates that were hit most often, as many as the global limit lets.
Candidates == FirstBy(Found, GlobalLimit, LAMBDA m : hits[m])

\* The candidates are cut to the global limit and loaded from SQLite.  Their
\* hits weigh in the scores only, which are any choice: they are forgotten.
Filter ==
    /\ pc = "filter"
    /\ \E candidates \in Candidates :
          record' = [m \in Memory |->
                IF m \in candidates /\ Eligible(m) THEN memory[m] ELSE NoRecord]
    /\ pc' = "score"
    /\ hits' = [m \in Memory |-> 0]
    /\ UNCHANGED <<store, request, view, seeding, evidence, degraded>>

Loaded == {m \in Memory : record[m] # NoRecord}

\* Scores weigh the candidates; no candidate is dropped for its score.
Score ==
    /\ pc = "score"
    /\ \/ UNCHANGED degraded
       \/ Loaded # {} /\ Degrade({"scoring"})
    /\ pc' = "resolve"
    /\ UNCHANGED <<store, request, view, seeding, hits, record, evidence>>

-----------------------------------------------------------------------------
\* The components, of more than one memory, of the replacements between
\* loaded memories: the smallest sets that no replacement leaves.
Apart(S) ==
    \A link \in links :
        {link[1], link[2]} \subseteq Loaded => (link[1] \in S <=> link[2] \in S)
Chains ==
    {S \in SUBSET Loaded :
        Cardinality(S) > 1 /\ Apart(S) /\ \A T \in (SUBSET S) \ {{}, S} : ~Apart(T)}

\* Faulty: whoever was hit first leads its chain.
AnyHead(chain) == chain
\* A chain is led by its active memory; one without by whichever comes first.
Head(chain) ==
    LET active == {m \in chain : record[m] = "active"}
    IN  IF active = {} THEN chain ELSE active

RoleOf(m) == IF record[m] = "active" THEN "current" ELSE "historical"

\* Faulty: a memory that is in an event already may be in another.
FreshOfAll(review, events) == review
Fresh(review, events) == review \ UNION {Members(g) : g \in events}

\* What the event model may name in a group; it is asked about two or more.
Reviews(free) == IF Cardinality(free) > 1 THEN SUBSET free ELSE {{}}

\* A model that names one memory twice sets it beside itself.
Beside(m, review) == IF review = {m} THEN review ELSE review \ {m}

\* What a group of the event model becomes: nothing, unless it names two; the
\* best leads.
ByEvent(review) ==
    {{}} \cup
    {{Group(m, role, Beside(m, review))} : m \in review, role \in {"current", "conflicting"}}

\* The groups: chains, then what the event model makes of the rest.  A model
\* that fails leaves every memory on its own.
Resolve ==
    /\ pc = "resolve"
    /\ LET chains == Chains
           free == Loaded \ UNION chains
       IN  \E heads \in [chains -> Loaded], one \in Reviews(free) :
           /\ \A chain \in chains : heads[chain] \in Head(chain)
           /\ \E first \in ByEvent(one), two \in Reviews(free) :
              \E second \in ByEvent(Fresh(two, first)) :
                 LET events == first \cup second
                     told == UNION {Members(g) : g \in events}
                 IN  /\ groups' =
                           {Group(heads[c], RoleOf(heads[c]), c \ {heads[c]}) : c \in chains}
                           \cup events
                           \cup {Group(m, RoleOf(m), {}) : m \in free \ told}
                     /\ \/ UNCHANGED degraded
                        \/ /\ events = {} /\ Cardinality(free) > 1
                           /\ Degrade({"resolution"})
    /\ pc' = "select"
    /\ UNCHANGED <<store, request, view, seeding, hits, record, selected, sufficiency>>

-----------------------------------------------------------------------------
\* The importance of the one that leads, plus what stands with it.
Value(g) == Importance[g.primary] + Cardinality(g.rest)

Best(some) == FirstBy(some, MaxEvidence, Value)

Select ==
    /\ pc = "select"
    /\ selected' \in Best(groups)
    /\ pc' = "recheck"
    /\ UNCHANGED <<store, request, view, seeding, hits, record, groups, sufficiency, degraded>>

Present(g) == \A m \in Members(g) : memory[m] \notin {"none", "deleted"}

\* Faulty: what was left out is not looked at again.
AnyOf(some) == some
Stable(some) == {g \in some : Present(g)}

Sufficiency(answer) ==
    IF answer = {} THEN "empty"
    ELSE IF \E g \in answer : g.role = "conflicting" THEN "conflicted"
    ELSE IF \E g \in answer : g.role = "current" THEN "sufficient"
    ELSE "partial"

\* The last read before the answer: when a row is gone, one more selection is
\* made among the groups whose rows are all there.  Without the read, the
\* selection stands.
Recheck ==
    /\ pc = "recheck"
    /\ \/ /\ \A g \in selected : Present(g)
          /\ UNCHANGED <<selected, degraded>>
       \/ /\ \E g \in selected : ~Present(g)
          /\ selected' \in Best(Stable(groups))
          /\ UNCHANGED degraded
       \/ /\ selected # {}
          /\ Degrade({"relation"})
          /\ UNCHANGED selected
    /\ sufficiency' = Sufficiency(selected')
    /\ pc' = "done"
    /\ UNCHANGED <<store, request, view, seeding, hits, record, groups>>

\* Outside the index's and the models' failures, a database that cannot be
\* read ends the recall without an answer.
Fail ==
    /\ \/ pc = "reads" /\ request.lanes # {} /\ view
       \/ pc = "coverage" /\ request.lanes # {}
       \/ pc = "filter" /\ Found # {}
       \/ pc = "resolve" /\ Loaded # {}
    /\ pc' = "failed"
    /\ UNCHANGED <<store, request, view, seeding, hits, record, evidence, degraded>>

-----------------------------------------------------------------------------
\* The writers, of interest only until the answer; MaxChanges bounds them.
Running == pc \notin {"done", "failed"}
Changed == {m \in Stored : memory[m] # "active"}
Bounded == Cardinality(Changed') + Cardinality(synced') <= MaxChanges

\* A write replaces a memory by a new one of the same scope.
Replace(old, new) ==
    /\ Running
    /\ memory[old] = "active" /\ memory[new] = "none" /\ Scope[old] = Scope[new]
    /\ \E validity \in {"superseded"} \cup (IF Corrects THEN {"retracted"} ELSE {}) :
          memory' = [memory EXCEPT ![old] = validity, ![new] = "active"]
    /\ links' = links \cup {<<old, new>>}
    /\ outstanding' = outstanding \cup {old, new}
    /\ UNCHANGED <<index, synced, recall>>
    /\ Bounded

Delete(m) ==
    /\ Running
    /\ memory[m] \notin {"none", "deleted"}
    /\ memory' = [memory EXCEPT ![m] = "deleted"]
    /\ links' = {link \in links : m \notin {link[1], link[2]}}
    /\ outstanding' = outstanding \cup {m}
    /\ UNCHANGED <<index, synced, recall>>
    /\ Bounded

\* The index is brought up to date for a memory; of interest while the recall
\* looks at the index and at what is not in it.
Sync(m) ==
    /\ pc \in {"intent", "semantic", "reads", "coverage"}
    /\ m \in outstanding
    /\ index' = IF memory[m] = "active" THEN index \cup {m} ELSE index \ {m}
    /\ outstanding' = outstanding \ {m}
    /\ synced' = synced \cup {m}
    /\ UNCHANGED <<memory, links, recall>>
    /\ Bounded

Write ==
    \/ \E old, new \in Memory : Replace(old, new)
    \/ \E m \in Memory : Delete(m) \/ Sync(m)

Next ==
    \/ Intent \/ Semantic \/ TimeReads \/ Coverage \/ Relations \/ Filter
    \/ Score \/ Resolve \/ Select \/ Recheck \/ Fail
    \/ Write

Spec == Init /\ [][Next]_vars

-----------------------------------------------------------------------------
Validity == {"none", "active", "superseded", "retracted", "deleted"}

\* Types: a link joins a replaced memory to one of its scope, a record is one
\* that may be evidence, and a group stands on loaded records.
TypeOK ==
    /\ memory \in [Memory -> Validity]
    /\ links \subseteq Memory \X Memory
    /\ \A link \in links :
          /\ Scope[link[1]] = Scope[link[2]]
          /\ memory[link[1]] \in {"superseded", "retracted"}
    /\ index \subseteq Memory /\ outstanding \subseteq Memory /\ synced \subseteq Memory
    /\ pc \in Stage
    /\ request \in Requests
    /\ view \in BOOLEAN /\ seeding \in BOOLEAN
    /\ hits \in [Memory -> Nat]
    /\ record \in [Memory -> {NoRecord, "active", "superseded"}]
    /\ selected \subseteq groups
    /\ \A g \in groups :
          Members(g) \subseteq Loaded /\ g.role \in {"current", "historical", "conflicting"}
    /\ sufficiency \in {"unknown", "empty", "conflicted", "partial", "sufficient"}
    /\ degraded \subseteq Code

Cited == UNION {Members(g) : g \in selected}

\* A caller who closes the wider lanes is told nothing from them, whatever
\* path found it: with the session's lane alone no memory of another session,
\* without the user's lane none of another agent.
ScopeKept ==
    /\ request.lanes = {"session"} => \A m \in Cited : Scope[m] = "session"
    /\ "user" \notin request.lanes => \A m \in Cited : Scope[m] \notin {"other", "user"}

\* No gap between the index and the coverage of what is not indexed: where no
\* path failed and no limit cut, a memory of a lane's own scope that has been
\* active all along is a candidate, unless it was indexed while the recall went
\* from the one to the other.
NothingMissed ==
    pc = "relations" /\ degraded \subseteq {"intent"} =>
        \A m \in Stored \ synced :
            memory[m] = "active" /\ Scope[m] \in request.lanes => m \in Found

\* An answer does not tell one thing twice: no memory is in two of its groups,
\* and of two memories it cites one of which replaced the other, both are in
\* one group, which the replaced one does not lead.
EvidenceIsWhole ==
    /\ \A g, h \in selected : g # h => Members(g) \cap Members(h) = {}
    /\ \A link \in links :
          {link[1], link[2]} \subseteq Cited =>
              \E g \in selected : /\ {link[1], link[2]} \subseteq Members(g)
                                  /\ record[link[2]] = "active" => g.primary # link[1]

\* What an answer cites is there when it is given, unless the last read failed
\* and the answer says so: a memory the user deleted meanwhile is not quoted,
\* not even by a group that took the place of another.
StillThere ==
    [][pc' = "done" =>
          \/ "relation" \in degraded'
          \/ \A m \in Cited' : memory[m] \notin {"none", "deleted"}]_vars

\* Not so in the code, whose last check looks for deleted rows alone:
\* what an answer about the present calls current is active when it is given:
\* the last check notices a change of validity.
CurrentAtTheEnd ==
    [][pc' = "done" /\ request.time # "past" =>
          \/ "relation" \in degraded'
          \/ \A g \in selected' : g.role = "current" => memory[g.primary] = "active"]_vars

=============================================================================
