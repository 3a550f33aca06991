---------------------------- MODULE RecallProofs ----------------------------
(***************************************************************************)
(* Proofs about Recall, for every finite set of memories, request and      *)
(* limit, and every bound on what fails or changes meanwhile.              *)
(*                                                                         *)
(* Each theorem has an inductive invariant of its own beside the types:    *)
(* that whatever a path found lies in the lanes (ScopeInv), that a memory  *)
(* active all along is always in the index or outstanding and, once the    *)
(* index was asked, found or outstanding (CoverInv), and that the groups   *)
(* are apart and keep every replacement together (WholeInv).               *)
(***************************************************************************)
EXTENDS Recall, FiniteSetTheorems, TLAPS

(* What the stages before the filter and before the evidence leave empty. *)
StageInv ==
    /\ pc \in {"intent", "semantic", "reads", "coverage", "relations", "filter"} => Loaded = {}
    /\ pc \in Stage \ {"select", "recheck", "done"} => groups = {}
    /\ pc = "select" => selected = {}

TypeInv == TypeOK /\ StageInv

(* What a request may be told of, by its lanes. *)
Allowed(m) ==
    /\ request.lanes = {"session"} => Scope[m] = "session"
    /\ "user" \notin request.lanes => Scope[m] \notin {"other", "user"}

ScopeInv == \A m \in Found \cup Loaded : Allowed(m)

(* Active from the start, and not indexed meanwhile. *)
Waiting(m) == m \in Stored \ synced /\ memory[m] = "active"

CoverInv ==
    /\ \A m \in Stored : memory[m] # "none"
    /\ \A m \in Memory : Waiting(m) => m \in index \cup outstanding
    /\ pc \in {"reads", "coverage"} /\ degraded \subseteq {"intent"} =>
          \A m \in Memory : Waiting(m) /\ Scope[m] \in request.lanes => m \in Found \cup outstanding
    /\ NothingMissed

(* No memory is in two groups. *)
Disjoint(some) == \A g, h \in some : g # h => Members(g) \cap Members(h) = {}

Together(link, g) ==
    /\ {link[1], link[2]} \subseteq Members(g)
    /\ record[link[2]] = "active" => g.primary # link[1]

WholeInv ==
    /\ \A m \in Loaded : memory[m] # "none"
    /\ \A link \in links :
          /\ link[1] # link[2]
          /\ {link[1], link[2]} \subseteq Loaded => record[link[1]] # "active"
    /\ Disjoint(groups)
    /\ pc \in {"select", "recheck", "done"} =>
          \A link \in links :
              {link[1], link[2]} \subseteq Loaded => \E g \in groups : Together(link, g)

-----------------------------------------------------------------------------
(* The first elements by a rank are some of the elements. *)
LEMMA ChosenIn ==
    /\ \A S : \A n : \A T \in AtMost(S, n) : T \subseteq S
    /\ \A T \in Candidates : T \subseteq Found
    /\ \A some : \A T \in Best(some) : T \subseteq some
  <1>1. ASSUME NEW S, NEW n, NEW T \in AtMost(S, n) PROVE T \subseteq S
    BY DEF AtMost, FirstBy
  <1>2. ASSUME NEW T \in Candidates PROVE T \subseteq Found
    BY DEF Candidates, FirstBy
  <1>3. ASSUME NEW some, NEW T \in Best(some) PROVE T \subseteq some
    BY DEF Best, FirstBy
  <1> QED
    BY <1>1, <1>2, <1>3

(* Where no more than n of finitely many are there, all of them are taken. *)
LEMMA AllTaken ==
    ASSUME NEW S \in SUBSET Memory, NEW n \in Nat, Cardinality(Memory) <= n, NEW T \in AtMost(S, n)
    PROVE  T = S
  <1>1. IsFiniteSet(S) /\ Cardinality(S) <= Cardinality(Memory)
    BY RecallAssumption, FS_Subset
  <1>2. Cardinality(S) \in Nat /\ Cardinality(Memory) \in Nat
    BY <1>1, RecallAssumption, FS_CardinalityType
  <1>3. T \in SUBSET S /\ Cardinality(T) = (IF Cardinality(S) < n THEN Cardinality(S) ELSE n)
    BY DEF AtMost, FirstBy
  <1>4. Cardinality(T) = Cardinality(S)
    BY <1>1, <1>2, <1>3
  <1> QED
    BY <1>1, <1>3, <1>4, FS_Subset

(* A hit is counted for the memories an answer names, and for no other. *)
LEMMA HitTyped ==
    ASSUME NEW S \in SUBSET Memory, NEW h \in [Memory -> Nat]
    PROVE  /\ Hit(S, h) \in [Memory -> Nat]
           /\ \A m \in Memory : Hit(S, h)[m] > 0 <=> (m \in S \/ h[m] > 0)
  BY DEF Hit

(* The hits of a stage that asks three lanes. *)
LEMMA HitByTyped ==
    ASSUME hits \in [Memory -> Nat],
           NEW s \in SUBSET Memory, NEW a \in SUBSET Memory, NEW u \in SUBSET Memory
    PROVE  /\ HitBy(s, a, u) \in [Memory -> Nat]
           /\ \A m \in Memory : HitBy(s, a, u)[m] > 0 <=> m \in s \cup a \cup u \cup Found
  <1>1. Hit(u, hits) \in [Memory -> Nat]
    BY HitTyped
  <1>2. Hit(a, Hit(u, hits)) \in [Memory -> Nat]
    BY <1>1, HitTyped
  <1> QED
    BY <1>1, <1>2, HitTyped DEF HitBy, Found

(* What one lane may answer in a stage, as a set of sets of memories. *)
LEMMA LaneAnswers ==
    ASSUME NEW lane \in Lane, NEW S \in SUBSET Memory, NEW n, NEW c \in BOOLEAN,
           NEW T \in ForLane(lane, IF c THEN AtMost(S, n) ELSE {{}})
    PROVE  T \subseteq S /\ (lane \notin request.lanes => T = {})
  BY ChosenIn DEF ForLane

(* The stages that ask the lanes, and what they may come to find. *)
LEMMA SemanticFinds ==
    ASSUME TypeOK, Semantic
    PROVE  \/ hits' = hits /\ ~(degraded' \subseteq {"intent"})
           \/ \E s, a, u \in SUBSET Memory, down \in SUBSET Lane :
                 /\ s \in ForLane("session", IF "session" \in down THEN {{}} ELSE AtMost(Indexed("session"), Quota))
                 /\ a \in ForLane("agent", IF "agent" \in down THEN {{}} ELSE AtMost(Indexed("agent"), Quota))
                 /\ u \in ForLane("user", IF "user" \in down THEN {{}} ELSE AtMost(Indexed("user"), Quota))
                 /\ hits' = HitBy(s, a, u)
                 /\ down # {} => "vector" \in degraded'
  <1>1. request.lanes \subseteq Lane
    BY RecallAssumption DEF TypeOK
  <1>2. CASE Degrade({"semantic"}) /\ UNCHANGED hits
    BY <1>2 DEF Degrade
  <1>3. ASSUME NEW down \in SUBSET request.lanes,
               NEW s \in ForLane("session", IF "session" \in down THEN {{}} ELSE AtMost(Indexed("session"), Quota)),
               NEW a \in ForLane("agent", IF "agent" \in down THEN {{}} ELSE AtMost(Indexed("agent"), Quota)),
               NEW u \in ForLane("user", IF "user" \in down THEN {{}} ELSE AtMost(Indexed("user"), Quota)),
               hits' = HitBy(s, a, u), Degrade({"vector" : lane \in down})
        PROVE  \E ss, aa, uu \in SUBSET Memory, dd \in SUBSET Lane :
                 /\ ss \in ForLane("session", IF "session" \in dd THEN {{}} ELSE AtMost(Indexed("session"), Quota))
                 /\ aa \in ForLane("agent", IF "agent" \in dd THEN {{}} ELSE AtMost(Indexed("agent"), Quota))
                 /\ uu \in ForLane("user", IF "user" \in dd THEN {{}} ELSE AtMost(Indexed("user"), Quota))
                 /\ hits' = HitBy(ss, aa, uu)
                 /\ dd # {} => "vector" \in degraded'
    <2>1. \A lane : Indexed(lane) \subseteq Memory
      BY DEF TypeOK, Indexed
    <2>2. s \subseteq Memory /\ a \subseteq Memory /\ u \subseteq Memory
      BY <2>1, ChosenIn DEF ForLane
    <2>3. down # {} => "vector" \in degraded'
      BY <1>3 DEF Degrade
    <2> QED
      BY <1>1, <1>3, <2>2, <2>3
  <1> QED
    BY <1>2, <1>3 DEF Semantic

(* The time reads hit what the lanes have chosen. *)
LEMMA TimeReadsFinds ==
    ASSUME TypeOK, TimeReads
    PROVE  \E s, a, u \in SUBSET Memory :
                 /\ s \in ForLane("session", IF view THEN AtMost(InTable("session"), ReadLimit) ELSE {{}})
                 /\ a \in ForLane("agent", IF view THEN AtMost(InTable("agent"), ReadLimit) ELSE {{}})
                 /\ u \in ForLane("user", IF view THEN AtMost(InTable("user"), ReadLimit) ELSE {{}})
                 /\ hits' = HitBy(s, a, u)
  <1>1. \A lane : InTable(lane) \subseteq Memory
    BY DEF InTable
  <1>2. \A lane : \A T \in ForLane(lane, IF view THEN AtMost(InTable(lane), ReadLimit) ELSE {{}}) : T \subseteq Memory
    BY <1>1, ChosenIn DEF ForLane
  <1> QED
    BY <1>2 DEF TimeReads

(* So does the coverage fallback, among what is not in the index. *)
LEMMA CoverageFinds ==
    ASSUME TypeOK, Coverage
    PROVE  \E s, a, u \in SUBSET Memory :
                 /\ s \in ForLane("session", AtMost(Unsynced("session"), ReadLimit))
                 /\ a \in ForLane("agent", AtMost(Unsynced("agent"), ReadLimit))
                 /\ u \in ForLane("user", AtMost(Unsynced("user"), ReadLimit))
                 /\ hits' = HitBy(s, a, u)
  <1>1. \A lane : Unsynced(lane) \subseteq Memory
    BY DEF Unsynced, InTable
  <1>2. \A lane : \A T \in ForLane(lane, AtMost(Unsynced(lane), ReadLimit)) : T \subseteq Memory
    BY <1>1, ChosenIn DEF ForLane
  <1> QED
    BY <1>2 DEF Coverage

(* Relations add what is linked to something found. *)
LEMMA RelationsFind ==
    ASSUME TypeOK, Relations
    PROVE  \/ hits' = hits
           \/ \E seeds \in SUBSET Found : hits' = Hit(Linked(seeds) \ Found, hits)
  <1>1. \A T \in FirstBy(Found, SeedLimit, LAMBDA m : hits[m]) : T \subseteq Found
    BY DEF FirstBy
  <1> QED
    BY <1>1 DEF Relations

(* A group of the event model stands on exactly what the model named. *)
LEMMA EventGroup ==
    ASSUME NEW review, NEW e \in ByEvent(review)
    PROVE  /\ \A g \in e : Members(g) = review /\ g.role \in {"current", "conflicting"}
           /\ \A g, h \in e : g = h
  <1>1. CASE e = {}
    BY <1>1
  <1>2. ASSUME NEW m \in review, NEW role \in {"current", "conflicting"},
               e = {Group(m, role, Beside(m, review))}
        PROVE  /\ \A g \in e : Members(g) = review /\ g.role \in {"current", "conflicting"}
               /\ \A g, h \in e : g = h
    BY <1>2 DEF Group, Members, Beside
  <1>3. \/ e = {}
        \/ \E m \in review, role \in {"current", "conflicting"} :
              e = {Group(m, role, Beside(m, review))}
    BY DEF ByEvent
  <1> QED
    BY <1>1, <1>2, <1>3, Zenon

-----------------------------------------------------------------------------
(* The groups of an answer, taken apart: those of the chains, of the event  *)
(* model's first and second review, and of each memory left on its own.     *)
ChainGroups(heads) == {Group(heads[c], RoleOf(heads[c]), c \ {heads[c]}) : c \in Chains}
Free == Loaded \ UNION Chains
ToldIn(events) == UNION {Members(g) : g \in events}
Singles(events) == {Group(m, RoleOf(m), {}) : m \in Free \ ToldIn(events)}

(* The groups a resolution leaves: chains, shared events and single memories. *)
LEMMA ResolvedGroups ==
    ASSUME Resolve
    PROVE  \E heads \in [Chains -> Loaded], one, two \in SUBSET Free :
             \E first \in ByEvent(one) : \E second \in ByEvent(Fresh(two, first)) :
                /\ \A chain \in Chains : heads[chain] \in Head(chain)
                /\ groups' = ChainGroups(heads) \cup (first \cup second) \cup Singles(first \cup second)
  <1>1. \A review \in Reviews(Free) : review \in SUBSET Free
    BY DEF Reviews
  <1>2. \E heads \in [Chains -> Loaded], one \in Reviews(Free) :
             /\ \A chain \in Chains : heads[chain] \in Head(chain)
             /\ \E first \in ByEvent(one), two \in Reviews(Free) :
                \E second \in ByEvent(Fresh(two, first)) :
                   groups' = ChainGroups(heads) \cup (first \cup second) \cup Singles(first \cup second)
    BY Zenon DEF Resolve, Free, ToldIn, Singles, ChainGroups
  <1>3. PICK heads \in [Chains -> Loaded], one \in Reviews(Free), two \in Reviews(Free) :
             /\ \A chain \in Chains : heads[chain] \in Head(chain)
             /\ \E first \in ByEvent(one) : \E second \in ByEvent(Fresh(two, first)) :
                   groups' = ChainGroups(heads) \cup (first \cup second) \cup Singles(first \cup second)
    BY <1>2, Zenon
  <1>4. one \in SUBSET Free /\ two \in SUBSET Free
    BY <1>1, <1>3, Zenon
  <1> QED
    BY <1>3, <1>4, Zenon

(* The group of a chain stands on the chain, and is led by its head. *)
LEMMA ChainGroup ==
    ASSUME NEW heads \in [Chains -> Loaded], \A chain \in Chains : heads[chain] \in Head(chain),
           NEW c \in Chains
    PROVE  LET g == Group(heads[c], RoleOf(heads[c]), c \ {heads[c]})
           IN  Members(g) = c /\ g.primary = heads[c] /\ heads[c] \in c
  <1>1. heads[c] \in c
    BY DEF Head
  <1> QED
    BY <1>1 DEF Group, Members

(* Every group stands on loaded records, in one of the roles. *)
LEMMA ResolvedTyped ==
    ASSUME TypeOK, Resolve
    PROVE  \A g \in groups' :
              Members(g) \subseteq Loaded /\ g.role \in {"current", "historical", "conflicting"}
  <1>1. PICK heads \in [Chains -> Loaded], one, two \in SUBSET Free :
             \E first \in ByEvent(one) : \E second \in ByEvent(Fresh(two, first)) :
                /\ \A chain \in Chains : heads[chain] \in Head(chain)
                /\ groups' = ChainGroups(heads) \cup (first \cup second) \cup Singles(first \cup second)
    BY ResolvedGroups, Zenon
  <1>2. PICK first \in ByEvent(one) : \E second \in ByEvent(Fresh(two, first)) :
                /\ \A chain \in Chains : heads[chain] \in Head(chain)
                /\ groups' = ChainGroups(heads) \cup (first \cup second) \cup Singles(first \cup second)
    BY <1>1, Zenon
  <1>3. PICK second \in ByEvent(Fresh(two, first)) :
                /\ \A chain \in Chains : heads[chain] \in Head(chain)
                /\ groups' = ChainGroups(heads) \cup (first \cup second) \cup Singles(first \cup second)
    BY <1>2, Zenon
  <1>4. Fresh(two, first) \subseteq Free /\ Free \subseteq Loaded
    BY DEF Fresh, Free
  <1>5. \A m : RoleOf(m) \in {"current", "historical"}
    BY DEF RoleOf
  <1>6. \A c \in Chains : c \subseteq Loaded
    BY DEF Chains
  <1>7. \A g \in ChainGroups(heads) : Members(g) \subseteq Loaded /\ g.role \in {"current", "historical"}
    <2> TAKE g \in ChainGroups(heads)
    <2>1. PICK c \in Chains : g = Group(heads[c], RoleOf(heads[c]), c \ {heads[c]})
      BY DEF ChainGroups
    <2>2. Members(g) = c
      BY <1>3, <2>1, ChainGroup
    <2>3. g.role = RoleOf(heads[c])
      BY <2>1 DEF Group
    <2> QED
      BY <1>5, <1>6, <2>2, <2>3
  <1>8. \A g \in first \cup second : Members(g) \subseteq Loaded /\ g.role \in {"current", "conflicting"}
    BY <1>2, <1>3, <1>4, EventGroup
  <1>9. \A g \in Singles(first \cup second) : Members(g) \subseteq Loaded /\ g.role \in {"current", "historical"}
    BY <1>4, <1>5 DEF Singles, Group, Members
  <1> QED
    BY <1>3, <1>7, <1>8, <1>9

-----------------------------------------------------------------------------
(* The types hold at the start, and no step breaks them. *)
LEMMA InitTyped == Init => TypeInv
  <1> SUFFICES ASSUME Init PROVE TypeInv
    OBVIOUS
  <1> USE RecallAssumption DEF Init
  <1>1. Loaded = {}
    BY DEF Loaded
  <1>2. memory \in [Memory -> Validity] /\ hits \in [Memory -> Nat]
    BY DEF Validity
  <1>3. record \in [Memory -> {NoRecord, "active", "superseded"}]
    OBVIOUS
  <1>4. TypeOK
    BY <1>2, <1>3 DEF TypeOK, Stage
  <1> QED
    BY <1>1, <1>4 DEF TypeInv, StageInv, Stage

(* A stage that leaves records and evidence alone keeps their types. *)
LEMMA FindingTyped ==
    ASSUME TypeInv, UNCHANGED <<store, request, record, evidence>>, hits' \in [Memory -> Nat],
           view' \in BOOLEAN, seeding' \in BOOLEAN, degraded' \subseteq Code,
           pc \in Stage, pc' \in Stage,
           pc \in {"intent", "semantic", "reads", "coverage", "relations", "score", "filter", "resolve"},
           \/ pc \in {"intent", "semantic", "reads", "coverage", "relations"}
              /\ pc' \in {"semantic", "reads", "coverage", "relations", "filter", "failed"}
           \/ pc = "score" /\ pc' = "resolve"
           \/ pc' = "failed"
    PROVE  TypeInv'
  <1>1. Loaded' = Loaded
    BY DEF Loaded
  <1>2. TypeOK'
    BY <1>1 DEF TypeInv, TypeOK, store, evidence
  <1>3. StageInv'
    BY <1>1 DEF TypeInv, StageInv, evidence
  <1> QED
    BY <1>2, <1>3 DEF TypeInv

(* The stages that search keep the types. *)
LEMMA StageTyped ==
    ASSUME TypeInv,
           Intent \/ Semantic \/ TimeReads \/ Coverage \/ Relations \/ Score \/ Fail
    PROVE  TypeInv'
  <1> USE DEF TypeInv
  <1>0. hits \in [Memory -> Nat] /\ degraded \subseteq Code /\ view \in BOOLEAN /\ seeding \in BOOLEAN
    BY DEF TypeOK
  <1>1. CASE Intent
    <2>1. view' \in BOOLEAN /\ degraded' \subseteq Code
      BY <1>0, <1>1 DEF Intent, Degrade, Code
    <2> QED
      BY <1>0, <1>1, <2>1, FindingTyped DEF Intent, Stage
  <1>2. CASE Semantic
    <2>1. hits' \in [Memory -> Nat]
      <3>1. \/ hits' = hits
            \/ \E s, a, u \in SUBSET Memory : hits' = HitBy(s, a, u)
        BY <1>2, SemanticFinds
      <3> QED
        BY SMTT(30), <1>0, <3>1, HitByTyped
    <2>2. degraded' \subseteq Code /\ seeding' \in BOOLEAN
      <3>1. CASE Degrade({"semantic"}) /\ seeding' = FALSE
        BY <1>0, <3>1 DEF Degrade, Code
      <3>2. ASSUME NEW down, Degrade({"vector" : lane \in down}), seeding' = (down = {})
            PROVE degraded' \subseteq Code /\ seeding' \in BOOLEAN
        BY <1>0, <3>2 DEF Degrade, Code
      <3> QED
        BY <1>2, <3>1, <3>2 DEF Semantic
    <2> QED
      BY <1>0, <1>2, <2>1, <2>2, FindingTyped DEF Semantic, Stage
  <1>3. CASE TimeReads
    <2>1. hits' \in [Memory -> Nat]
      <3>1. PICK s, a, u \in SUBSET Memory : hits' = HitBy(s, a, u)
        BY <1>3, TimeReadsFinds
      <3> QED
        BY <1>0, <3>1, HitByTyped
    <2> QED
      BY <1>0, <1>3, <2>1, FindingTyped DEF TimeReads, Stage
  <1>4. CASE Coverage
    <2>1. hits' \in [Memory -> Nat]
      <3>1. PICK s, a, u \in SUBSET Memory : hits' = HitBy(s, a, u)
        BY <1>4, CoverageFinds
      <3> QED
        BY <1>0, <3>1, HitByTyped
    <2> QED
      BY <1>0, <1>4, <2>1, FindingTyped DEF Coverage, Stage
  <1>5. CASE Relations
    <2>1. hits' \in [Memory -> Nat]
      <3>1. \A S : Linked(S) \ Found \in SUBSET Memory
        BY DEF Linked
      <3>2. \/ hits' = hits
            \/ \E seeds : hits' = Hit(Linked(seeds) \ Found, hits)
        BY <1>5, RelationsFind
      <3>3. \A S \in SUBSET Memory : Hit(S, hits) \in [Memory -> Nat]
        BY <1>0, HitTyped
      <3> QED
        BY <1>0, <3>1, <3>2, <3>3, Zenon
    <2>2. degraded' \subseteq Code
      BY <1>0, <1>5 DEF Relations, Degrade, Code
    <2> QED
      BY <1>0, <1>5, <2>1, <2>2, FindingTyped DEF Relations, Stage
  <1>6. CASE Score
    <2>1. degraded' \subseteq Code
      BY <1>0, <1>6 DEF Score, Degrade, Code
    <2> QED
      BY <1>0, <1>6, <2>1, FindingTyped DEF Score, Stage
  <1>7. CASE Fail
    BY <1>0, <1>7, FindingTyped DEF Fail, Stage
  <1> QED
    BY <1>1, <1>2, <1>3, <1>4, <1>5, <1>6, <1>7

(* So do the stages that make the answer. *)
LEMMA AnswerTyped ==
    ASSUME TypeInv, Filter \/ Resolve \/ Select \/ Recheck
    PROVE  TypeInv'
  <1> USE DEF TypeInv
  <1>1. CASE Filter
    <2>1. record' \in [Memory -> {NoRecord, "active", "superseded"}]
      BY <1>1 DEF Filter, Eligible
    <2>2. hits' \in [Memory -> Nat]
      BY <1>1 DEF Filter
    <2>3. groups = {} /\ groups' = {} /\ pc' = "score" /\ selected = {} /\ selected' = {}
      BY <1>1 DEF Filter, StageInv, Stage, evidence, TypeOK
    <2>4. TypeOK'
      BY <1>1, <2>1, <2>2, <2>3 DEF Filter, TypeOK, store, evidence, Stage
    <2> QED
      BY <2>3, <2>4 DEF StageInv, Stage
  <1>2. CASE Resolve
    <2>1. Loaded' = Loaded /\ pc' = "select" /\ pc = "resolve"
      BY <1>2 DEF Resolve, Loaded
    <2>2. selected = {} /\ selected' = {}
      BY <1>2 DEF Resolve, StageInv, TypeOK, Stage
    <2>3. degraded' \subseteq Code
      BY <1>2 DEF Resolve, Degrade, TypeOK, Code
    <2>4. \A g \in groups' : Members(g) \subseteq Loaded' /\ g.role \in {"current", "historical", "conflicting"}
      BY <1>2, <2>1, ResolvedTyped
    <2>5. UNCHANGED <<store, request, view, seeding, hits, record, sufficiency>>
      BY <1>2 DEF Resolve
    <2>6. TypeOK'
      BY <2>1, <2>2, <2>3, <2>4, <2>5 DEF TypeOK, store, Stage
    <2> QED
      BY <2>1, <2>2, <2>6 DEF StageInv, Stage
  <1>3. CASE Select
    <2>1. Loaded' = Loaded /\ selected' \subseteq groups
      BY <1>3, ChosenIn DEF Select, Loaded
    <2>2. TypeOK'
      BY <1>3, <2>1 DEF Select, TypeOK, store, Stage
    <2> QED
      BY <1>3, <2>1, <2>2 DEF Select, StageInv
  <1>4. CASE Recheck
    <2>1. Loaded' = Loaded
      BY <1>4 DEF Recheck, Loaded
    <2>2. selected' \subseteq groups
      <3>1. \A T \in Best(Stable(groups)) : T \subseteq groups
        BY ChosenIn DEF Stable
      <3> QED
        BY <1>4, <3>1 DEF Recheck, TypeOK
    <2>3. degraded' \subseteq Code
      BY <1>4 DEF Recheck, Degrade, TypeOK, Code
    <2>4. sufficiency' \in {"unknown", "empty", "conflicted", "partial", "sufficient"}
      BY <1>4 DEF Recheck, Sufficiency
    <2>5. pc' = "done" /\ UNCHANGED <<store, request, view, seeding, hits, record, groups>>
      BY <1>4 DEF Recheck
    <2>6. TypeOK'
      BY <2>1, <2>2, <2>3, <2>4, <2>5 DEF TypeOK, store, Stage
    <2> QED
      BY <2>1, <2>5, <2>6 DEF StageInv
  <1> QED
    BY <1>1, <1>2, <1>3, <1>4

(* So do the writes of others. *)
LEMMA WriteTyped ==
    ASSUME TypeInv, Write
    PROVE  TypeInv'
  <1> USE DEF TypeInv
  <1>0. UNCHANGED recall /\ Loaded' = Loaded
    BY DEF Write, Replace, Delete, Sync, recall, Loaded, evidence
  <1>a. StageInv'
    BY <1>0 DEF StageInv, recall, evidence
  <1>b. ASSUME /\ memory' \in [Memory -> Validity]
               /\ links' \subseteq Memory \X Memory
               /\ \A link \in links' :
                     /\ Scope[link[1]] = Scope[link[2]]
                     /\ memory'[link[1]] \in {"superseded", "retracted"}
               /\ index' \subseteq Memory /\ outstanding' \subseteq Memory /\ synced' \subseteq Memory
        PROVE  TypeInv'
    <2>1. TypeOK'
      BY <1>0, <1>b DEF TypeOK, recall, evidence
    <2> QED
      BY <1>a, <2>1
  <1>1. ASSUME NEW old \in Memory, NEW new \in Memory, Replace(old, new)
        PROVE  TypeInv'
    <2>1. PICK v \in {"superseded", "retracted"} : memory' = [memory EXCEPT ![old] = v, ![new] = "active"]
      BY <1>1 DEF Replace
    <2>2. memory[old] = "active" /\ memory[new] = "none" /\ old # new /\ Scope[old] = Scope[new]
      BY <1>1 DEF Replace
    <2>3. memory' \in [Memory -> Validity] /\ memory'[old] = v
      BY <2>1, <2>2 DEF TypeOK, Validity
    <2>4. links' = links \cup {<<old, new>>}
      BY <1>1 DEF Replace
    <2>5. \A link \in links : memory'[link[1]] = memory[link[1]] \/ link[1] = old
      BY <2>1, <2>2 DEF TypeOK
    <2>6. \A link \in links' :
                     /\ Scope[link[1]] = Scope[link[2]]
                     /\ memory'[link[1]] \in {"superseded", "retracted"}
      BY <2>2, <2>3, <2>4, <2>5 DEF TypeOK
    <2>7. links' \subseteq Memory \X Memory
      BY <2>4 DEF TypeOK
    <2> QED
      BY <1>1, <1>b, <2>3, <2>6, <2>7 DEF Replace, TypeOK
  <1>2. ASSUME NEW m \in Memory, Delete(m)
        PROVE  TypeInv'
    <2>1. memory' = [memory EXCEPT ![m] = "deleted"] /\ links' = {link \in links : m \notin {link[1], link[2]}}
      BY <1>2 DEF Delete
    <2>2. memory' \in [Memory -> Validity]
      BY <2>1 DEF TypeOK, Validity
    <2>3. \A link \in links' : memory'[link[1]] = memory[link[1]]
      BY <2>1 DEF TypeOK
    <2> QED
      BY <1>2, <1>b, <2>1, <2>2, <2>3 DEF Delete, TypeOK
  <1>3. ASSUME NEW m \in Memory, Sync(m)
        PROVE  TypeInv'
    <2>1. index' \subseteq Memory /\ outstanding' \subseteq Memory /\ synced' \subseteq Memory
      BY <1>3 DEF Sync, TypeOK
    <2> QED
      BY <1>3, <1>b, <2>1 DEF Sync, TypeOK
  <1> QED
    BY <1>1, <1>2, <1>3 DEF Write

(* Every step keeps the types. *)
LEMMA NextTyped == TypeInv /\ [Next]_vars => TypeInv'
  <1> SUFFICES ASSUME TypeInv, [Next]_vars PROVE TypeInv'
    OBVIOUS
  <1>1. CASE UNCHANGED vars
    <2>1. Loaded' = Loaded
      BY <1>1 DEF vars, recall, Loaded
    <2> QED
      BY <1>1, <2>1 DEF vars, store, recall, evidence, TypeInv, TypeOK, StageInv
  <1> QED
    BY <1>1, StageTyped, AnswerTyped, WriteTyped DEF Next

(* Every state has the types the model gives it. *)
THEOREM TypeCorrect == Spec => []TypeOK
  <1>1. Spec => []TypeInv
    BY InitTyped, NextTyped, PTL DEF Spec
  <1>2. TypeInv => TypeOK
    BY DEF TypeInv
  <1> QED
    BY <1>1, <1>2, PTL

-----------------------------------------------------------------------------
(* What a lane answers lies in the lane, and nothing comes from a closed one. *)
LEMMA LanesKeepScope ==
    ASSUME TypeInv, [Next]_vars, ~UNCHANGED hits, ~(Relations \/ Filter)
    PROVE  \A m \in Memory : hits'[m] > 0 => m \in Found \/ Allowed(m)
  <1>1. ASSUME NEW s \in SUBSET Memory, NEW a \in SUBSET Memory, NEW u \in SUBSET Memory,
               hits' = HitBy(s, a, u),
               \A m \in s \cup a \cup u : Allowed(m)
        PROVE  \A m \in Memory : hits'[m] > 0 => m \in Found \/ Allowed(m)
    <2>1. hits \in [Memory -> Nat]
      BY DEF TypeInv, TypeOK
    <2> QED
      BY <1>1, <2>1, HitByTyped
  <1>2. \A m \in Memory : Scope[m] \in Scopes
    BY RecallAssumption
  <1> DEFINE Kept(lane, T) == (lane \notin request.lanes => T = {}) /\
                              \A m \in T : (lane = "session" => Scope[m] = "session")
                                        /\ (lane = "agent" => Scope[m] \in {"session", "past", "agent"})
  <1>3. ASSUME NEW s, NEW a, NEW u, Kept("session", s), Kept("agent", a), Kept("user", u)
        PROVE  \A m \in s \cup a \cup u : Allowed(m)
    BY <1>3 DEF Allowed
  <1>4. \A T \in {{}} : \A lane : Kept(lane, T)
    OBVIOUS
  <1>5. CASE Semantic
    <2>1. \A lane, d : \A T \in ForLane(lane, IF d THEN {{}} ELSE AtMost(Indexed(lane), Quota)) : Kept(lane, T)
      <3>1. \A lane : \A m \in Indexed(lane) :
                  /\ lane = "session" => Scope[m] = "session"
                  /\ lane = "agent" => Scope[m] \in {"session", "past", "agent"}
        BY DEF Indexed
      <3> QED
        BY <3>1, ChosenIn DEF ForLane
    <2> HIDE DEF Kept
    <2>2. PICK s, a, u \in SUBSET Memory, down \in SUBSET Lane :
                 /\ s \in ForLane("session", IF "session" \in down THEN {{}} ELSE AtMost(Indexed("session"), Quota))
                 /\ a \in ForLane("agent", IF "agent" \in down THEN {{}} ELSE AtMost(Indexed("agent"), Quota))
                 /\ u \in ForLane("user", IF "user" \in down THEN {{}} ELSE AtMost(Indexed("user"), Quota))
                 /\ hits' = HitBy(s, a, u)
      BY <1>5, SemanticFinds, Zenon DEF vars, recall, TypeInv
    <2>3. Kept("session", s) /\ Kept("agent", a) /\ Kept("user", u)
      BY <2>1, <2>2, Zenon
    <2> QED
      BY <1>1, <1>3, <2>2, <2>3
  <1>6. CASE TimeReads
    <2>1. \A lane, c : \A T \in ForLane(lane, IF c THEN AtMost(InTable(lane), ReadLimit) ELSE {{}}) : Kept(lane, T)
      BY ChosenIn DEF ForLane, InTable
    <2> HIDE DEF Kept
    <2>2. PICK s, a, u \in SUBSET Memory :
                 /\ s \in ForLane("session", IF view THEN AtMost(InTable("session"), ReadLimit) ELSE {{}})
                 /\ a \in ForLane("agent", IF view THEN AtMost(InTable("agent"), ReadLimit) ELSE {{}})
                 /\ u \in ForLane("user", IF view THEN AtMost(InTable("user"), ReadLimit) ELSE {{}})
                 /\ hits' = HitBy(s, a, u)
      BY <1>6, TimeReadsFinds, Zenon DEF TypeInv
    <2>3. Kept("session", s) /\ Kept("agent", a) /\ Kept("user", u)
      BY <2>1, <2>2, Zenon
    <2> QED
      BY <1>1, <1>3, <2>2, <2>3
  <1>7. CASE Coverage
    <2>1. \A lane : \A T \in ForLane(lane, AtMost(Unsynced(lane), ReadLimit)) : Kept(lane, T)
      BY ChosenIn DEF ForLane, Unsynced, InTable
    <2> HIDE DEF Kept
    <2>2. PICK s, a, u \in SUBSET Memory :
                 /\ s \in ForLane("session", AtMost(Unsynced("session"), ReadLimit))
                 /\ a \in ForLane("agent", AtMost(Unsynced("agent"), ReadLimit))
                 /\ u \in ForLane("user", AtMost(Unsynced("user"), ReadLimit))
                 /\ hits' = HitBy(s, a, u)
      BY <1>7, CoverageFinds, Zenon DEF TypeInv
    <2>3. Kept("session", s) /\ Kept("agent", a) /\ Kept("user", u)
      BY <2>1, <2>2, Zenon
    <2> QED
      BY <1>1, <1>3, <2>2, <2>3
  <1>8. Semantic \/ TimeReads \/ Coverage
    BY DEF Next, vars, recall, Intent, Score, Resolve, Select, Recheck, Fail, Write, Replace, Delete, Sync
  <1> QED
    BY <1>5, <1>6, <1>7, <1>8

(* Nothing is found, and so nothing loaded, that the lanes do not allow. *)
LEMMA NextScope == TypeInv /\ ScopeInv /\ [Next]_vars => ScopeInv'
  <1> SUFFICES ASSUME TypeInv, ScopeInv, [Next]_vars PROVE ScopeInv'
    OBVIOUS
  <1>1. request' = request
    BY DEF Next, vars, recall, Intent, Semantic, TimeReads, Coverage, Relations, Filter, Score,
           Resolve, Select, Recheck, Fail, Write, Replace, Delete, Sync
  <1>2. \A m : Allowed(m)' <=> Allowed(m)
    BY <1>1 DEF Allowed
  <1>3. SUFFICES /\ \A m \in Memory : hits'[m] > 0 => m \in Found \/ Allowed(m)
                 /\ \A m \in Memory : record'[m] # NoRecord => m \in Found \cup Loaded
    BY <1>2 DEF ScopeInv, Found, Loaded
  <1>4. CASE Filter
    <2>1. PICK candidates \in Candidates :
              record' = [m \in Memory |-> IF m \in candidates /\ Eligible(m) THEN memory[m] ELSE NoRecord]
      BY <1>4 DEF Filter
    <2>2. \A m \in Memory : hits'[m] = 0
      BY <1>4 DEF Filter
    <2> QED
      BY <2>1, <2>2, ChosenIn
  <1>5. CASE Relations
    <2>1. hits \in [Memory -> Nat] /\ links \subseteq Memory \X Memory
      BY DEF TypeInv, TypeOK
    <2>2. ASSUME NEW seeds \in SUBSET Found, hits' = Hit(Linked(seeds) \ Found, hits)
          PROVE  \A m \in Memory : hits'[m] > 0 => m \in Found \/ Allowed(m)
      <3>1. \A m \in Linked(seeds) : \E s \in Found : Scope[m] = Scope[s]
        <4> SUFFICES ASSUME NEW m \in Linked(seeds) PROVE \E s \in Found : Scope[m] = Scope[s]
          OBVIOUS
        <4>1. PICK s \in seeds : <<s, m>> \in links \/ <<m, s>> \in links
          BY DEF Linked
        <4>2. \A link \in links : Scope[link[1]] = Scope[link[2]]
          BY DEF TypeInv, TypeOK
        <4>3. Scope[s] = Scope[m]
          BY <4>1, <4>2
        <4> QED
          BY <4>1, <4>3
      <3>2. \A m \in Linked(seeds) : Allowed(m)
        BY <3>1 DEF ScopeInv, Allowed
      <3>3. Linked(seeds) \ Found \in SUBSET Memory
        BY DEF Linked
      <3>4. \A m \in Memory : Hit(Linked(seeds) \ Found, hits)[m] > 0 <=> (m \in Linked(seeds) \ Found \/ hits[m] > 0)
        BY <2>1, <3>3, HitTyped
      <3> QED
        BY <2>2, <3>2, <3>4 DEF Found
    <2>3. record' = record
      BY <1>5 DEF Relations
    <2> QED
      BY <1>5, <2>2, <2>3, RelationsFind DEF TypeInv, Found, Loaded
  <1>6. CASE ~(Relations \/ Filter)
    <2>1. record' = record
      BY <1>6 DEF Next, vars, recall, Intent, Semantic, TimeReads, Coverage, Score,
           Resolve, Select, Recheck, Fail, Write, Replace, Delete, Sync
    <2>2. CASE hits' = hits
      BY <2>1, <2>2 DEF Found, Loaded
    <2> QED
      BY <1>6, <2>1, <2>2, LanesKeepScope DEF Loaded
  <1> QED
    BY <1>4, <1>5, <1>6

(* A caller who closes the wider lanes is told nothing from them, whatever *)
(* path of the recall found it.                                            *)
THEOREM ScopesAreKept == Spec => []ScopeKept
  <1>1. Init => TypeInv /\ ScopeInv
    <2>1. Init => ScopeInv
      BY DEF Init, ScopeInv, Found, Loaded
    <2> QED
      BY <2>1, InitTyped
  <1>2. (TypeInv /\ ScopeInv) /\ [Next]_vars => (TypeInv /\ ScopeInv)'
    BY NextTyped, NextScope
  <1>3. TypeInv /\ ScopeInv => ScopeKept
    <2> SUFFICES ASSUME TypeInv, ScopeInv PROVE ScopeKept
      OBVIOUS
    <2>1. Cited \subseteq Loaded
      BY DEF Cited, TypeInv, TypeOK
    <2> QED
      BY <2>1 DEF ScopeKept, ScopeInv, Allowed
  <1> QED
    BY <1>1, <1>2, <1>3, PTL DEF Spec

-----------------------------------------------------------------------------
(* What the writers and the stages may do to the store. *)
LEMMA StoreSteps ==
    ASSUME [Next]_vars
    PROVE  \/ UNCHANGED store
           \/ Write /\ UNCHANGED recall
  BY DEF Next, vars, store, recall, evidence, Intent, Semantic, TimeReads, Coverage, Relations,
         Filter, Score, Resolve, Select, Recheck, Fail, Write, Replace, Delete, Sync

(* A memory that waits after a step waited before it, and is where it was: a *)
(* write of it, its deletion or its indexing would have ended the wait.      *)
LEMMA StillWaiting ==
    ASSUME TypeInv, CoverInv, [Next]_vars, NEW m \in Memory, Waiting(m)'
    PROVE  /\ Waiting(m)
           /\ m \in index => m \in index'
           /\ m \in outstanding => m \in outstanding'
  <1> USE DEF TypeInv
  <1>1. CASE UNCHANGED store
    BY <1>1 DEF store, Waiting
  <1>2. ASSUME NEW old \in Memory, NEW new \in Memory, Replace(old, new)
        PROVE  Waiting(m) /\ UNCHANGED index /\ outstanding \subseteq outstanding'
    <2>1. PICK v \in {"superseded", "retracted"} : memory' = [memory EXCEPT ![old] = v, ![new] = "active"]
      BY <1>2 DEF Replace
    <2>2. memory[new] = "none" /\ UNCHANGED <<index, synced>> /\ outstanding' = outstanding \cup {old, new}
      BY <1>2 DEF Replace
    <2>3. m # new
      BY <2>2 DEF CoverInv, Waiting
    <2>4. memory'[m] = memory[m] \/ memory'[m] = v
      BY <2>1, <2>3 DEF TypeOK
    <2> QED
      BY <2>2, <2>4 DEF Waiting
  <1>3. ASSUME NEW k \in Memory, Delete(k)
        PROVE  Waiting(m) /\ UNCHANGED index /\ outstanding \subseteq outstanding'
    BY <1>3 DEF Delete, Waiting, TypeOK
  <1>4. ASSUME NEW k \in Memory, Sync(k)
        PROVE  Waiting(m) /\ (m \in index => m \in index') /\ (m \in outstanding => m \in outstanding')
    BY <1>4 DEF Sync, Waiting, TypeOK
  <1> QED
    BY <1>1, <1>2, <1>3, <1>4, StoreSteps DEF Write

(* A memory that was there at the start stays a row of some kind. *)
LEMMA StoredStays ==
    ASSUME TypeInv, \A m \in Stored : memory[m] # "none", [Next]_vars
    PROVE  \A m \in Stored : memory'[m] # "none"
  <1> USE RecallAssumption DEF TypeInv
  <1>1. CASE UNCHANGED store
    BY <1>1 DEF store
  <1>2. ASSUME NEW old \in Memory, NEW new \in Memory, Replace(old, new)
        PROVE  \A m \in Stored : memory'[m] # "none"
    BY <1>2 DEF Replace, TypeOK
  <1>3. ASSUME NEW k \in Memory, Delete(k)
        PROVE  \A m \in Stored : memory'[m] # "none"
    BY <1>3 DEF Delete, TypeOK
  <1>4. ASSUME NEW k \in Memory, Sync(k)
        PROVE  \A m \in Stored : memory'[m] # "none"
    BY <1>4 DEF Sync
  <1> QED
    BY <1>1, <1>2, <1>3, <1>4, StoreSteps DEF Write

(* A code that a recall has left stays. *)
LEMMA DegradedGrows == [Next]_vars => degraded \subseteq degraded'
  BY DEF Next, vars, recall, evidence, Degrade, Intent, Semantic, TimeReads, Coverage, Relations,
         Filter, Score, Resolve, Select, Recheck, Fail, Write, Replace, Delete, Sync

(* Before the coverage reads are done, no step makes a memory unfound. *)
LEMMA FoundGrows ==
    ASSUME TypeInv, [Next]_vars, ~Filter
    PROVE  Found \subseteq Found'
  <1>0. hits \in [Memory -> Nat]
    BY DEF TypeInv, TypeOK
  <1>1. ASSUME NEW s \in SUBSET Memory, NEW a \in SUBSET Memory, NEW u \in SUBSET Memory,
               hits' = HitBy(s, a, u)
        PROVE  Found \subseteq Found'
    BY <1>0, <1>1, HitByTyped DEF Found
  <1>2. CASE Semantic
    <2>1. \/ hits' = hits
          \/ \E s, a, u \in SUBSET Memory : hits' = HitBy(s, a, u)
      BY <1>2, SemanticFinds DEF TypeInv
    <2>2. hits' = hits => Found \subseteq Found'
      BY DEF Found
    <2> QED
      BY <1>1, <2>1, <2>2
  <1>3. CASE TimeReads
    <2>1. \E s, a, u \in SUBSET Memory : hits' = HitBy(s, a, u)
      BY <1>3, TimeReadsFinds DEF TypeInv
    <2> QED
      BY <1>1, <2>1
  <1>4. CASE Coverage
    <2>1. \E s, a, u \in SUBSET Memory : hits' = HitBy(s, a, u)
      BY <1>4, CoverageFinds DEF TypeInv
    <2> QED
      BY <1>1, <2>1
  <1>5. CASE Relations
    <2>1. hits' = hits \/ \E S \in SUBSET Memory : hits' = Hit(S, hits)
      <3>1. \A seeds : Linked(seeds) \ Found \in SUBSET Memory
        BY DEF Linked
      <3>2. \/ hits' = hits
            \/ \E seeds : hits' = Hit(Linked(seeds) \ Found, hits)
        BY <1>5, RelationsFind DEF TypeInv
      <3> QED
        BY <3>1, <3>2, Zenon
    <2>2. ASSUME NEW S \in SUBSET Memory, hits' = Hit(S, hits) PROVE Found \subseteq Found'
      BY <1>0, <2>2, HitTyped DEF Found
    <2>3. hits' = hits => Found \subseteq Found'
      BY DEF Found
    <2> QED
      BY <2>1, <2>2, <2>3
  <1>6. CASE UNCHANGED hits
    BY <1>6 DEF Found
  <1> QED
    BY <1>2, <1>3, <1>4, <1>5, <1>6
    DEF Next, vars, recall, Intent, Score, Resolve, Select, Recheck, Fail, Write, Replace, Delete, Sync

(* The index was asked without a failure: what waited in it is found. *)
LEMMA SemanticCovers ==
    ASSUME TypeInv, CoverInv, Cardinality(Memory) <= Quota, Semantic, degraded' \subseteq {"intent"},
           NEW m \in Memory, Waiting(m), Scope[m] \in request.lanes
    PROVE  m \in Found' \cup outstanding
  <1> USE DEF TypeInv
  <1>1. SUFFICES ASSUME m \in index PROVE m \in Found'
    BY DEF CoverInv
  <1>2. PICK s, a, u \in SUBSET Memory, down \in SUBSET Lane :
                 /\ s \in ForLane("session", IF "session" \in down THEN {{}} ELSE AtMost(Indexed("session"), Quota))
                 /\ a \in ForLane("agent", IF "agent" \in down THEN {{}} ELSE AtMost(Indexed("agent"), Quota))
                 /\ u \in ForLane("user", IF "user" \in down THEN {{}} ELSE AtMost(Indexed("user"), Quota))
                 /\ hits' = HitBy(s, a, u)
                 /\ down # {} => "vector" \in degraded'
    BY SemanticFinds, Zenon
  <1>3. down = {}
    BY <1>2
  <1>4. \A lane \in Lane \cap request.lanes : \A T \in ForLane(lane, AtMost(Indexed(lane), Quota)) : T = Indexed(lane)
    <2>1. \A lane : Indexed(lane) \in SUBSET Memory
      BY DEF Indexed, TypeOK
    <2>2. Quota \in Nat
      BY RecallAssumption
    <2>3. \A lane : \A T \in AtMost(Indexed(lane), Quota) : T = Indexed(lane)
      BY <2>1, <2>2, AllTaken
    <2> QED
      BY <2>3 DEF ForLane
  <1>5. m \in Indexed(Scope[m])
    BY <1>1 DEF Indexed
  <1>6. Scope[m] \in {"session", "agent", "user"}
    BY RecallAssumption DEF TypeOK, Lane
  <1>7. m \in s \cup a \cup u
    <2>1. /\ s \in ForLane("session", AtMost(Indexed("session"), Quota))
          /\ a \in ForLane("agent", AtMost(Indexed("agent"), Quota))
          /\ u \in ForLane("user", AtMost(Indexed("user"), Quota))
      BY <1>2, <1>3
    <2> QED
      BY <1>4, <1>5, <1>6, <2>1 DEF Lane
  <1>8. hits \in [Memory -> Nat]
    BY DEF TypeOK
  <1> QED
    BY <1>2, <1>7, <1>8, HitByTyped DEF Found

(* The coverage reads find what waits outstanding. *)
LEMMA CoverageCovers ==
    ASSUME TypeInv, Cardinality(Memory) <= ReadLimit, Coverage,
           NEW m \in Memory, Waiting(m), Scope[m] \in request.lanes, m \in outstanding
    PROVE  m \in Found'
  <1> USE DEF TypeInv
  <1>1. PICK s, a, u \in SUBSET Memory :
                 /\ s \in ForLane("session", AtMost(Unsynced("session"), ReadLimit))
                 /\ a \in ForLane("agent", AtMost(Unsynced("agent"), ReadLimit))
                 /\ u \in ForLane("user", AtMost(Unsynced("user"), ReadLimit))
                 /\ hits' = HitBy(s, a, u)
    BY CoverageFinds, Zenon
  <1>2. \A lane \in Lane \cap request.lanes : \A T \in ForLane(lane, AtMost(Unsynced(lane), ReadLimit)) : T = Unsynced(lane)
    <2>1. \A lane : Unsynced(lane) \in SUBSET Memory
      BY DEF Unsynced, InTable
    <2>2. ReadLimit \in Nat
      BY RecallAssumption
    <2>3. \A lane : \A T \in AtMost(Unsynced(lane), ReadLimit) : T = Unsynced(lane)
      BY <2>1, <2>2, AllTaken
    <2> QED
      BY <2>3 DEF ForLane
  <1>3. m \in Unsynced(Scope[m])
    BY DEF Unsynced, InTable, Waiting
  <1>4. Scope[m] \in {"session", "agent", "user"}
    BY RecallAssumption DEF TypeOK, Lane
  <1>5. m \in s \cup a \cup u
    BY <1>1, <1>2, <1>3, <1>4 DEF Lane
  <1>6. hits \in [Memory -> Nat]
    BY DEF TypeOK
  <1> QED
    BY <1>1, <1>5, <1>6, HitByTyped DEF Found

(* When the stage that is next changes. *)
LEMMA StageMoves ==
    ASSUME [Next]_vars
    PROVE  /\ pc' \in {"reads", "coverage"} => pc' = pc \/ Semantic \/ TimeReads
           /\ pc' = "relations" => pc' = pc \/ Coverage
           /\ pc \in {"reads", "coverage", "relations"} => ~Filter
           /\ Semantic => pc' = "reads"
           /\ TimeReads => pc = "reads" /\ pc' = "coverage"
           /\ Coverage => pc = "coverage" /\ pc' = "relations"
           /\ request' = request
           /\ pc = pc' => ~Semantic /\ ~TimeReads /\ ~Coverage
  BY DEF Next, vars, recall, evidence, Intent, Semantic, TimeReads, Coverage, Relations,
         Filter, Score, Resolve, Select, Recheck, Fail, Write, Replace, Delete, Sync

(* Every step keeps what waits within reach. *)
LEMMA NextCovers ==
    ASSUME Cardinality(Memory) <= Quota, Cardinality(Memory) <= ReadLimit,
           TypeInv, CoverInv, [Next]_vars
    PROVE  CoverInv'
  <1>1. \A m \in Stored : memory'[m] # "none"
    BY StoredStays DEF CoverInv
  <1>2. ASSUME NEW m \in Memory, Waiting(m)' PROVE m \in index' \cup outstanding'
    BY <1>2, StillWaiting DEF CoverInv
  <1>3. ASSUME pc' \in {"reads", "coverage"}, degraded' \subseteq {"intent"},
               NEW m \in Memory, Waiting(m)', Scope[m] \in request'.lanes
        PROVE  m \in Found' \cup outstanding'
    <2>1. Waiting(m) /\ Scope[m] \in request.lanes /\ degraded \subseteq {"intent"}
      BY <1>3, StillWaiting, StageMoves, DegradedGrows
    <2>2. m \in outstanding => m \in outstanding'
      BY <1>3, StillWaiting
    <2>3. CASE Semantic
      BY <1>3, <2>1, <2>2, <2>3, SemanticCovers
    <2>4. CASE pc \in {"reads", "coverage"}
      <3>1. Found \subseteq Found'
        BY <2>4, StageMoves, FoundGrows
      <3> QED
        BY <2>1, <2>2, <2>4, <3>1 DEF CoverInv
    <2> QED
      BY <1>3, <2>3, <2>4, StageMoves
  <1>4. ASSUME pc' = "relations", degraded' \subseteq {"intent"},
               NEW m \in Stored \ synced', memory'[m] = "active", Scope[m] \in request'.lanes
        PROVE  m \in Found'
    <2>0. m \in Memory /\ Waiting(m)'
      BY <1>4, RecallAssumption DEF Waiting
    <2>1. Waiting(m) /\ Scope[m] \in request.lanes /\ degraded \subseteq {"intent"}
      BY <1>4, <2>0, StillWaiting, StageMoves, DegradedGrows
    <2>2. ~Filter
      BY <1>4, StageMoves DEF Filter
    <2>3. Found \subseteq Found'
      BY <2>2, FoundGrows
    <2>4. CASE pc = "relations"
      BY <2>1, <2>3, <2>4 DEF CoverInv, NothingMissed, Waiting
    <2>5. CASE Coverage
      <3>1. m \in Found \cup outstanding
        BY <2>0, <2>1, <2>5, StageMoves DEF CoverInv
      <3> QED
        BY <2>0, <2>1, <2>3, <2>5, <3>1, CoverageCovers
    <2> QED
      BY <1>4, <2>4, <2>5, StageMoves
  <1>5. NothingMissed'
    BY <1>4 DEF NothingMissed
  <1> QED
    BY <1>1, <1>2, <1>3, <1>5 DEF CoverInv

(* No gap between the index and what covers the rest: where no path failed   *)
(* and the limits hold every memory there is, a memory of a lane's own scope *)
(* active all along is a candidate, unless it was indexed in between.        *)
THEOREM NothingIsMissed ==
    ASSUME Cardinality(Memory) <= Quota, Cardinality(Memory) <= ReadLimit
    PROVE  Spec => []NothingMissed
  <1>1. Init => TypeInv /\ CoverInv
    <2>1. Init => CoverInv
      BY RecallAssumption DEF Init, CoverInv, NothingMissed, Waiting
    <2> QED
      BY <2>1, InitTyped
  <1>2. (TypeInv /\ CoverInv) /\ [Next]_vars => (TypeInv /\ CoverInv)'
    BY NextTyped, NextCovers
  <1>3. TypeInv /\ CoverInv => NothingMissed
    BY DEF CoverInv
  <1> QED
    BY <1>1, <1>2, <1>3, PTL DEF Spec

-----------------------------------------------------------------------------
(* Two chains that meet are one: what they share is apart from the rest, too. *)
LEMMA ChainsDisjoint == \A c, d \in Chains : c # d => c \cap d = {}
  <1> SUFFICES ASSUME NEW c \in Chains, NEW d \in Chains, c \cap d # {} PROVE c = d
    OBVIOUS
  <1>1. Apart(c) /\ Apart(d) /\ c \subseteq Loaded /\ d \subseteq Loaded
    BY DEF Chains
  <1>2. Apart(c \cap d)
    BY <1>1 DEF Apart
  <1>3. c \cap d \notin (SUBSET c) \ {{}, c}
    BY <1>2 DEF Chains
  <1>4. d \cap c \notin (SUBSET d) \ {{}, d}
    <2>1. d \cap c = c \cap d
      OBVIOUS
    <2> QED
      BY <1>2, <2>1 DEF Chains
  <1>5. c \cap d = c /\ d \cap c = d
    <2>1. c \cap d \in SUBSET c /\ d \cap c \in SUBSET d /\ d \cap c # {}
      OBVIOUS
    <2> QED
      BY <1>3, <1>4, <2>1
  <1> QED
    BY <1>5

(* Two loaded memories of which one replaced the other are in one chain. *)
LEMMA ChainOfLink ==
    ASSUME TypeOK, NEW old \in Loaded, NEW new \in Loaded, <<old, new>> \in links, old # new
    PROVE  \E c \in Chains : {old, new} \subseteq c
  <1> DEFINE c == {m \in Loaded : \A S \in SUBSET Loaded : Apart(S) /\ old \in S => m \in S}
  <1>1. c \subseteq Loaded /\ old \in c
    OBVIOUS
  <1>2. \A S \in SUBSET Loaded : Apart(S) /\ old \in S => c \subseteq S
    OBVIOUS
  <1>3. Apart(c)
    <2> SUFFICES ASSUME NEW link \in links, {link[1], link[2]} \subseteq Loaded
                 PROVE  link[1] \in c <=> link[2] \in c
      BY DEF Apart
    <2>1. \A S : Apart(S) => (link[1] \in S <=> link[2] \in S)
      BY DEF Apart
    <2> QED
      BY <2>1
  <1> HIDE DEF c
  <1>4. new \in c
    <2>1. \A S : Apart(S) /\ old \in S => new \in S
      <3>1. <<old, new>>[1] = old /\ <<old, new>>[2] = new
        OBVIOUS
      <3> QED
        BY <3>1 DEF Apart
    <2> QED
      BY <1>1, <1>3, <2>1
  <1>5. Cardinality(c) > 1
    <2>0. Loaded \subseteq Memory
      BY DEF Loaded
    <2>1. IsFiniteSet(c)
      BY <1>1, <2>0, RecallAssumption, FS_Subset
    <2>2. IsFiniteSet({old}) /\ Cardinality({old}) = 1
      BY FS_Singleton
    <2>3. Cardinality({old} \cup {new}) = 2
      <3>1. new \notin {old}
        OBVIOUS
      <3>2. Cardinality({old} \cup {new}) = Cardinality({old}) + 1
        BY <2>2, <3>1, FS_AddElement, Zenon
      <3> QED
        BY <2>2, <3>2
    <2>4. Cardinality({old} \cup {new}) <= Cardinality(c)
      BY <1>1, <1>4, <2>1, FS_Subset
    <2>5. Cardinality(c) \in Nat
      BY <2>1, FS_CardinalityType
    <2> QED
      BY <2>3, <2>4, <2>5
  <1>6. ASSUME NEW T \in (SUBSET c) \ {{}, c}, Apart(T) PROVE FALSE
    <2>1. T \subseteq Loaded /\ c \ T \subseteq Loaded
      BY <1>1
    <2>2. old \notin T
      BY <1>2, <1>6, <2>1
    <2>3. Apart(c \ T)
      BY <1>3, <1>6 DEF Apart
    <2>4. c \subseteq c \ T
      BY <1>1, <1>2, <2>1, <2>2, <2>3
    <2>5. PICK m \in T : m \in c
      BY <1>6
    <2> QED
      BY <2>4, <2>5
  <1>7. c \in Chains
    BY <1>1, <1>3, <1>5, <1>6 DEF Chains
  <1> QED
    BY <1>1, <1>4, <1>7

(* The groups that are made are apart from one another. *)
LEMMA ResolvedDisjoint ==
    ASSUME TypeOK, Resolve
    PROVE  Disjoint(groups')
  <1>1. PICK heads \in [Chains -> Loaded], one, two \in SUBSET Free :
             \E first \in ByEvent(one) : \E second \in ByEvent(Fresh(two, first)) :
                /\ \A chain \in Chains : heads[chain] \in Head(chain)
                /\ groups' = ChainGroups(heads) \cup (first \cup second) \cup Singles(first \cup second)
    BY ResolvedGroups, Zenon
  <1>a. PICK first \in ByEvent(one) : \E second \in ByEvent(Fresh(two, first)) :
                /\ \A chain \in Chains : heads[chain] \in Head(chain)
                /\ groups' = ChainGroups(heads) \cup (first \cup second) \cup Singles(first \cup second)
    BY <1>1, Zenon
  <1>2. PICK second \in ByEvent(Fresh(two, first)) :
                /\ \A chain \in Chains : heads[chain] \in Head(chain)
                /\ groups' = ChainGroups(heads) \cup (first \cup second) \cup Singles(first \cup second)
    BY <1>a, Zenon
  <1> DEFINE events == first \cup second
  <1>3. ASSUME NEW g \in ChainGroups(heads)
        PROVE  /\ Members(g) \cap Free = {}
               /\ \A h \in ChainGroups(heads) : g # h => Members(g) \cap Members(h) = {}
    <2>1. \A k \in ChainGroups(heads) :
             \E c \in Chains : Members(k) = c /\ k = Group(heads[c], RoleOf(heads[c]), c \ {heads[c]})
      <3> TAKE k \in ChainGroups(heads)
      <3>1. PICK c \in Chains : k = Group(heads[c], RoleOf(heads[c]), c \ {heads[c]})
        BY DEF ChainGroups
      <3>2. Members(k) = c
        BY <1>2, <3>1, ChainGroup
      <3> QED
        BY <3>1, <3>2
    <2>2. PICK c \in Chains : Members(g) = c /\ g = Group(heads[c], RoleOf(heads[c]), c \ {heads[c]})
      BY <1>3, <2>1
    <2>3. Members(g) \cap Free = {}
      BY <2>2 DEF Free
    <2>4. ASSUME NEW h \in ChainGroups(heads), g # h PROVE Members(g) \cap Members(h) = {}
      <3>1. PICK d \in Chains : Members(h) = d /\ h = Group(heads[d], RoleOf(heads[d]), d \ {heads[d]})
        BY <2>1
      <3>2. c # d
        BY <2>2, <2>4, <3>1
      <3> QED
        BY <2>2, <3>1, <3>2, ChainsDisjoint
    <2> QED
      BY <2>3, <2>4
  <1>4. \A g \in first : Members(g) = one /\ \A h \in first : g = h
    BY EventGroup
  <1>5. \A g \in second : Members(g) = Fresh(two, first) /\ \A h \in second : g = h
    BY EventGroup
  <1>6. ASSUME NEW g \in first, NEW h \in second PROVE Members(g) \cap Members(h) = {}
    BY <1>4, <1>5 DEF Fresh
  <1>7. Disjoint(events) /\ \A g \in events : Members(g) \subseteq Free /\ Members(g) \subseteq ToldIn(events)
    <2>1. Disjoint(events)
      BY <1>4, <1>5, <1>6 DEF Disjoint
    <2>2. \A g \in events : Members(g) \subseteq Free
      BY <1>4, <1>5 DEF Fresh
    <2>3. \A g \in events : Members(g) \subseteq ToldIn(events)
      BY DEF ToldIn
    <2> QED
      BY <2>1, <2>2, <2>3
  <1> HIDE DEF events
  <1>8. \A g \in Singles(events) : \E m \in Free \ ToldIn(events) : g = Group(m, RoleOf(m), {}) /\ Members(g) = {m}
    BY DEF Singles, Group, Members
  <1>9. Disjoint(Singles(events)) /\ \A g \in Singles(events) : Members(g) \subseteq Free \ ToldIn(events)
    <2>1. ASSUME NEW g \in Singles(events), NEW h \in Singles(events), g # h PROVE Members(g) \cap Members(h) = {}
      <3>1. PICK m \in Free : g = Group(m, RoleOf(m), {}) /\ Members(g) = {m}
        BY <1>8
      <3>2. PICK n \in Free : h = Group(n, RoleOf(n), {}) /\ Members(h) = {n}
        BY <1>8
      <3>3. m # n
        BY <2>1, <3>1, <3>2
      <3> QED
        BY <3>1, <3>2, <3>3
    <2> QED
      BY <1>8, <2>1 DEF Disjoint
  <1>10. groups' = ChainGroups(heads) \cup events \cup Singles(events)
    BY <1>2 DEF events
  <1> QED
    BY <1>3, <1>7, <1>9, <1>10 DEF Disjoint

(* A replacement whose ends are both loaded is told in one group, and a *)
(* memory that is current is not led by the one it replaced.            *)
LEMMA ResolvedWhole ==
    ASSUME TypeOK, WholeInv, Resolve,
           NEW link \in links, {link[1], link[2]} \subseteq Loaded
    PROVE  \E g \in groups' : Together(link, g)
  <1>1. PICK heads \in [Chains -> Loaded], one, two \in SUBSET Free :
             \E first \in ByEvent(one) : \E second \in ByEvent(Fresh(two, first)) :
                /\ \A chain \in Chains : heads[chain] \in Head(chain)
                /\ groups' = ChainGroups(heads) \cup (first \cup second) \cup Singles(first \cup second)
    BY ResolvedGroups, Zenon
  <1>2. (\A chain \in Chains : heads[chain] \in Head(chain)) /\ ChainGroups(heads) \subseteq groups'
    BY <1>1
  <1>3. link = <<link[1], link[2]>> /\ link[1] # link[2] /\ record[link[1]] # "active"
    BY DEF TypeOK, WholeInv
  <1>4. PICK c \in Chains : {link[1], link[2]} \subseteq c
    BY <1>3, ChainOfLink
  <1> DEFINE g == Group(heads[c], RoleOf(heads[c]), c \ {heads[c]})
  <1>5. Members(g) = c /\ g.primary = heads[c] /\ heads[c] \in c
    BY <1>2, ChainGroup
  <1>6. g \in groups'
    BY <1>2 DEF ChainGroups
  <1>7. record[link[2]] = "active" => record[heads[c]] = "active"
    BY <1>2, <1>4 DEF Head
  <1> QED
    BY <1>3, <1>4, <1>5, <1>6, <1>7 DEF Together

(* Every step keeps the evidence whole. *)
LEMMA NextWhole == TypeInv /\ WholeInv /\ [Next]_vars => WholeInv'
  <1> SUFFICES ASSUME TypeInv, WholeInv, [Next]_vars PROVE WholeInv'
    OBVIOUS
  <1> USE DEF TypeInv
  <1>1. CASE UNCHANGED recall /\ Write
    <2>1. Loaded' = Loaded /\ groups' = groups /\ record' = record /\ pc' = pc
      BY <1>1 DEF recall, evidence, Loaded
    <2>2. \A link : \A g : Together(link, g)' <=> Together(link, g)
      BY <2>1 DEF Together, Members
    <2>3. ASSUME NEW L, links' \subseteq links \cup L,
                 \A link \in L : link[1] # link[2] /\ ~({link[1], link[2]} \subseteq Loaded),
                 \A m \in Loaded : memory'[m] # "none"
          PROVE  WholeInv'
      <3>1. \A link \in links' : {link[1], link[2]} \subseteq Loaded => link \in links
        BY <2>3
      <3>2. \A link \in links' : link[1] # link[2]
        BY <2>3 DEF WholeInv
      <3>3. Disjoint(groups)'
        BY <2>1 DEF WholeInv, Disjoint, Members
      <3> QED
        BY <2>1, <2>2, <2>3, <3>1, <3>2, <3>3 DEF WholeInv
    <2>4. ASSUME NEW old \in Memory, NEW new \in Memory, Replace(old, new)
          PROVE  WholeInv'
      <3>1. memory[new] = "none" /\ old # new /\ links' = links \cup {<<old, new>>}
        BY <2>4 DEF Replace
      <3>2. new \notin Loaded
        BY <3>1 DEF WholeInv
      <3>3. \A m \in Loaded : memory'[m] # "none"
        BY <2>4 DEF Replace, WholeInv, TypeOK, Loaded
      <3>4. \A link \in {<<old, new>>} : link[1] # link[2] /\ ~({link[1], link[2]} \subseteq Loaded)
        BY <3>1, <3>2
      <3>5. links' \subseteq links \cup {<<old, new>>}
        BY <3>1
      <3> QED
        BY <2>3, <3>3, <3>4, <3>5, Zenon
    <2>5. ASSUME NEW m \in Memory, Delete(m) \/ Sync(m)
          PROVE  WholeInv'
      <3> DEFINE L == {}
      <3>1. links' \subseteq links \cup L
        BY <2>5 DEF Delete, Sync
      <3>2. \A k \in Loaded : memory'[k] # "none"
        BY <2>5 DEF Delete, Sync, WholeInv, TypeOK, Loaded
      <3>3. \A link \in L : link[1] # link[2] /\ ~({link[1], link[2]} \subseteq Loaded)
        OBVIOUS
      <3> HIDE DEF L
      <3> QED
        BY <2>3, <3>1, <3>2, <3>3, Zenon
    <2> QED
      BY <1>1, <2>4, <2>5 DEF Write
  <1>2. CASE Filter
    <2>1. PICK candidates \in Candidates :
              record' = [m \in Memory |-> IF m \in candidates /\ Eligible(m) THEN memory[m] ELSE NoRecord]
      BY <1>2 DEF Filter
    <2>2. memory' = memory /\ links' = links /\ groups' = {} /\ pc' = "score"
      BY <1>2 DEF Filter, store, evidence, StageInv, Stage
    <2>3. \A m \in Loaded' : m \in Memory /\ record'[m] = memory[m] /\ memory[m] \in {"active", "superseded"}
      BY <2>1 DEF Loaded, Eligible
    <2>4. \A link \in links : memory[link[1]] # "active"
      BY DEF TypeOK
    <2> QED
      BY <2>2, <2>3, <2>4 DEF WholeInv, Disjoint
  <1>3. CASE Resolve
    <2>1. memory' = memory /\ links' = links /\ record' = record /\ Loaded' = Loaded
      BY <1>3 DEF Resolve, store, Loaded
    <2>2. Disjoint(groups)'
      BY <1>3, ResolvedDisjoint DEF Disjoint, Members
    <2>3. \A link : \A g : Together(link, g)' <=> Together(link, g)
      BY <2>1 DEF Together, Members
    <2>4. \A link \in links : {link[1], link[2]} \subseteq Loaded => \E g \in groups' : Together(link, g)
      BY <1>3, ResolvedWhole
    <2> QED
      BY <2>1, <2>2, <2>3, <2>4 DEF WholeInv
  <1>4. CASE /\ UNCHANGED <<store, record, groups>>
             /\ pc' \in {"select", "recheck", "done"} => pc \in {"select", "recheck", "done"}
    <2>1. memory' = memory /\ links' = links /\ record' = record /\ groups' = groups /\ Loaded' = Loaded
      BY <1>4 DEF store, Loaded
    <2>2. \A link : \A g : Together(link, g)' <=> Together(link, g)
      BY <2>1 DEF Together, Members
    <2>3. Disjoint(groups)'
      BY <2>1 DEF WholeInv, Disjoint, Members
    <2> QED
      BY <1>4, <2>1, <2>2, <2>3 DEF WholeInv
  <1>5. \/ UNCHANGED recall /\ Write
        \/ Filter
        \/ Resolve
        \/ /\ UNCHANGED <<store, record, groups>>
           /\ pc' \in {"select", "recheck", "done"} => pc \in {"select", "recheck", "done"}
    BY DEF Next, vars, store, recall, evidence, Intent, Semantic, TimeReads, Coverage, Relations,
           Filter, Score, Resolve, Select, Recheck, Fail, Write, Replace, Delete, Sync
  <1> QED
    BY <1>1, <1>2, <1>3, <1>4, <1>5

(* No memory is in two groups of an answer, and of two memories it cites one *)
(* of which replaced the other, both are in one group, which the replaced    *)
(* one does not lead.                                                        *)
THEOREM WholeEvidence == Spec => []EvidenceIsWhole
  <1>1. Init => TypeInv /\ WholeInv
    <2>1. Init => WholeInv
      BY DEF Init, WholeInv, Loaded, Disjoint
    <2> QED
      BY <2>1, InitTyped
  <1>2. (TypeInv /\ WholeInv) /\ [Next]_vars => (TypeInv /\ WholeInv)'
    BY NextTyped, NextWhole
  <1>3. TypeInv /\ WholeInv => EvidenceIsWhole
    <2> SUFFICES ASSUME TypeInv, WholeInv PROVE EvidenceIsWhole
      OBVIOUS
    <2>1. selected \subseteq groups /\ Cited \subseteq Loaded
      BY DEF Cited, TypeInv, TypeOK
    <2>2. \A g, h \in selected : g # h => Members(g) \cap Members(h) = {}
      BY <2>1 DEF WholeInv, Disjoint
    <2>3. ASSUME NEW link \in links, {link[1], link[2]} \subseteq Cited
          PROVE  \E g \in selected : Together(link, g)
      <3>1. pc \in {"select", "recheck", "done"}
        BY <2>1, <2>3 DEF Cited, TypeInv, TypeOK, StageInv
      <3>2. PICK g \in groups : Together(link, g)
        BY <2>1, <2>3, <3>1 DEF WholeInv
      <3>3. PICK h \in selected : link[1] \in Members(h)
        BY <2>3 DEF Cited
      <3>4. g = h
        BY <2>1, <3>2, <3>3 DEF WholeInv, Disjoint, Together
      <3> QED
        BY <3>2, <3>3, <3>4
    <2> QED
      BY <2>2, <2>3 DEF EvidenceIsWhole, Together
  <1> QED
    BY <1>1, <1>2, <1>3, PTL DEF Spec

-----------------------------------------------------------------------------
(* What an answer cites is there when it is given, unless the last read *)
(* failed and the answer says so.                                       *)
THEOREM CitedStillThere == Spec => StillThere
  <1>1. TypeOK /\ [Next]_vars =>
          [pc' = "done" =>
              \/ "relation" \in degraded'
              \/ \A m \in Cited' : memory[m] \notin {"none", "deleted"}]_vars
    <2> SUFFICES ASSUME TypeOK, Next, pc' = "done"
                 PROVE  \/ "relation" \in degraded'
                        \/ \A m \in Cited' : memory[m] \notin {"none", "deleted"}
      OBVIOUS
    <2>1. Recheck
      BY DEF Next, recall, evidence, Intent, Semantic, TimeReads, Coverage, Relations,
             Filter, Score, Resolve, Select, Recheck, Fail, Write, Replace, Delete, Sync, Running
    <2>2. CASE Degrade({"relation"})
      BY <2>2 DEF Degrade
    <2>3. CASE \A g \in selected' : Present(g)
      BY <2>3 DEF Cited, Members, Present
    <2>4. ASSUME selected' \in Best(Stable(groups)) PROVE \A g \in selected' : Present(g)
      BY <2>4, ChosenIn DEF Stable
    <2> QED
      BY <2>1, <2>2, <2>3, <2>4 DEF Recheck
  <1> QED
    BY <1>1, TypeCorrect, PTL DEF Spec, StillThere

=============================================================================
