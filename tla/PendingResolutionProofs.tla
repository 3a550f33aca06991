---------------------- MODULE PendingResolutionProofs ----------------------
(***************************************************************************)
(* Proofs about PendingResolution, for every number of writing processes,  *)
(* set of messages, frames and memories, and finite set of pending items.  *)
(*                                                                         *)
(* The inductive invariant IInv says of a stored row that its targets were *)
(* all memories once and that it was closed for a cause (StoredInv), and   *)
(* of a write under way the same of the rows it has read and of those it   *)
(* plans to save, which may also rest on its own plans before them         *)
(* (LocalInv).  That an item with an answer is not closed without one      *)
(* needs AnswerInv besides: while a row may be cleaned up under a write    *)
(* that has read it, it is false.                                          *)
(***************************************************************************)
EXTENDS PendingResolution, SequenceLemmas

Word == (UNION {{Frame[m][d] : d \in Dimension} : m \in Message}) \cup {Unknown}
Frames == [Dimension -> Word]
Rows == [status : Status, frame : Frames, group : Seq(Message), targets : SUBSET Memory,
         seen : SUBSET Message]
ActionName == {"add", "update", "defer", "noop", "ambiguous"}
Plans == [action : ActionName, targets : SUBSET Memory, item : Item \cup {None}, row : Rows,
          new : Memory \cup {None}]
Items == [id : Item, row : Rows, due : BOOLEAN]
Locals == [pc : {"idle", "plan"}, messages : SUBSET Message, candidates : SUBSET Message,
           items : Seq(Items), claimed : SUBSET Memory, plans : Seq(Plans)]

TypeInv ==
    /\ memory \in [Memory -> {"none", "active", "history", "deleted"}]
    /\ pending \in [Item -> Rows]
    /\ due \subseteq Item
    /\ answers \in [Item -> SUBSET Memory]
    /\ writes \in 0..MaxWrites
    /\ proc \in [Process -> Locals]

Ever == {m \in Memory : memory[m] # "none"}                   \* have been stored
Dead == {m \in Memory : memory[m] \in {"history", "deleted"}}  \* are never active again

(* A row is about something, and in conflict with memories in M. *)
RowInv(row, M) == row.group # <<>> /\ row.targets # {} /\ row.targets \subseteq M

(* What a write has read of an item, given the memories in E and the items *)
(* U that are past their time.                                             *)
ItemInv(item, E, U) ==
    /\ item.row.status = "open" /\ RowInv(item.row, E)
    /\ item.due => item.id \in U

(* What a plan rests on: memories in E, some of them in D are not current *)
(* when it takes effect.                                                  *)
PlanInv(plan, E, D, U) ==
    /\ plan.action = "update" => plan.targets \subseteq E
    /\ plan.item # None =>
         /\ plan.row.status \in {"open"} \cup Terminal
         /\ RowInv(plan.row, E)
         /\ plan.row.status = "obsolete" => plan.row.targets \cap D # {}
         /\ plan.row.status = "expired" => plan.item \in U
         /\ plan.new # None => plan.row.status = "resolved"

(* No plan brings a memory back that it or an earlier one replaces. *)
OrderInv(plans) ==
    \A k \in DOMAIN plans : \A j \in DOMAIN plans :
        j <= k /\ plans[j].action = "update" => plans[k].new \notin plans[j].targets

LocalInv(l, E, D, U) ==
    /\ \A k \in DOMAIN l.items : ItemInv(l.items[k], E, U)
    /\ \A k \in DOMAIN l.plans :
         PlanInv(l.plans[k], E \cup NewOf(l.plans), D \cup ReplacedBy(l.plans), U)
    /\ OrderInv(l.plans)
    /\ l.claimed \subseteq ReplacedBy(l.plans)

(* A row that is there was deferred for a conflict and closed for a cause. *)
RowStands(row, i, E, D, U) ==
    /\ row.targets \subseteq E
    /\ row.status \notin {"absent", "gone"} => row.group # <<>> /\ row.targets # {}
    /\ row.status = "obsolete" => row.targets \cap D # {}
    /\ row.status = "expired" => i \in U
StoredInv(i) == RowStands(pending[i], i, Ever, Dead, due)

IInv ==
    /\ TypeInv
    /\ \A i \in Item : StoredInv(i)
    /\ \A p \in Process : LocalInv(proc[p], Ever, Dead, due) /\ NewOf(proc[p].plans) \cap Ever = {}
    /\ \A p \in Process : \A q \in Process :
         p # q => NewOf(proc[p].plans) \cap NewOf(proc[q].plans) = {}

-----------------------------------------------------------------------------
(* A set of numbers up to n that is not empty has a greatest member. *)
LEMMA MaxOf ==
    ASSUME NEW n \in Nat, NEW S \in SUBSET (1..n), S # {}
    PROVE  Max(S) \in S /\ \A y \in S : Max(S) >= y
  <1> DEFINE T == {k \in Nat : \E x \in S : k = n - x}
  <1>1. T \subseteq Nat /\ T # {}
    <2>1. PICK x \in S : TRUE
      OBVIOUS
    <2>2. x \in Nat /\ x <= n /\ n - x \in Nat
      BY <2>1
    <2>3. n - x \in T
      BY <2>2
    <2> QED
      BY <2>3
  <1>2. PICK k \in T : \A y \in T : k <= y
    <2> HIDE DEF T
    <2> QED
      BY <1>1, LeastExists
  <1>3. PICK x \in S : k = n - x
    BY <1>2
  <1>4. \A y \in S : x >= y
    <2> TAKE y \in S
    <2>1. n - y \in T
      BY SMT
    <2>2. k <= n - y
      BY <1>2, <2>1
    <2> QED
      BY <1>3, <2>2
  <1>5. \E z \in S : \A y \in S : z >= y
    BY <1>4
  <1> QED
    BY <1>5, Zenon DEF Max

(* Of the first numbers the greatest is the last. *)
LEMMA MaxOfFirst ==
    ASSUME NEW n \in Nat, n > 0
    PROVE  Max(1..n) = n /\ (1..n) \ {n} = 1..(n-1)
  <1>1. 1..n \in SUBSET (1..n) /\ 1..n # {} /\ n \in 1..n
    OBVIOUS
  <1>2. Max(1..n) \in 1..n /\ \A y \in 1..n : Max(1..n) >= y
    BY <1>1, MaxOf
  <1>3. Max(1..n) >= n /\ Max(1..n) <= n /\ Max(1..n) \in Nat
    BY <1>1, <1>2
  <1> QED
    BY <1>3

(* The first numbers are a finite set, and so is each of its subsets. *)
LEMMA FirstOnes ==
    ASSUME NEW n \in Nat, NEW D, D = 1..n
    PROVE  IsFiniteSet(D) /\ \A T \in SUBSET D : T # {} => Max(T) \in T
  <1>1. IsFiniteSet(1..n)
    BY FS_Interval
  <1> QED
    BY <1>1, MaxOf

(* A left fold the way the community modules define it, by a function of *)
(* what came before and the position.                                    *)
IsLeftFold(base, op, D, it) ==
    \A T \in SUBSET D : it[T] = IF T = {} THEN base ELSE op[<<it[T \ {Max(T)}], Max(T)>>]

(* It exists. *)
LEMMA LeftFoldExists ==
    ASSUME NEW n \in Nat, NEW D, D = 1..n, NEW V, NEW base \in V, NEW op \in [V \X D -> V]
    PROVE  \E it \in [SUBSET D -> V] : IsLeftFold(base, op, D, it)
  <1> DEFINE G == [q \in D \X V |-> op[<<q[2], q[1]>>]]
             P == [T \in SUBSET D |-> Max(T)]
  <1>1. G \in [D \X V -> V] /\ \A k \in D, v \in V : G[<<k, v>>] = op[<<v, k>>]
    OBVIOUS
  <1>2. \A T \in SUBSET D : P[T] = Max(T) /\ (T # {} => P[T] \in T)
    BY FirstOnes
  <1> HIDE DEF G, P
  <1>3. IsFiniteSet(D) /\ Picks(P, D)
    BY <1>2, FirstOnes DEF Picks
  <1>4. PICK it \in [SUBSET D -> V] : IsFold(P, G, base, D, it)
    BY <1>1, <1>3, FoldExists
  <1>5. ASSUME NEW T \in SUBSET D
        PROVE  it[T] = IF T = {} THEN base ELSE op[<<it[T \ {Max(T)}], Max(T)>>]
    <2>1. CASE T = {}
      BY <1>4, <2>1 DEF IsFold, Round
    <2>2. CASE T # {}
      <3>1. Max(T) \in D /\ P[T] = Max(T) /\ it[T \ {Max(T)}] \in V
        BY <1>2, <2>2
      <3>2. it[T] = G[<<Max(T), it[T \ {Max(T)}]>>]
        BY <1>4, <2>2, <3>1 DEF IsFold, Round
      <3> QED
        BY <1>1, <2>2, <3>1, <3>2
    <2> QED
      BY <2>1, <2>2
  <1> QED
    BY <1>4, <1>5 DEF IsLeftFold

-----------------------------------------------------------------------------
(* What a message says is a frame, and filling a frame in leaves one. *)
LEMMA FilledTyped ==
    /\ \A m \in Message : Frame[m] \in Frames
    /\ \A f \in Frames, m \in Message : Filled(f, m) \in Frames
  <1>1. ASSUME NEW m \in Message PROVE Frame[m] \in Frames /\ \A d \in Dimension : Frame[m][d] \in Word
    <2>1. \A d \in Dimension : Frame[m][d] \in Word
      <3> TAKE d \in Dimension
      <3>1. Frame[m][d] \in {Frame[m][e] : e \in Dimension}
        OBVIOUS
      <3> QED
        BY <3>1 DEF Word
    <2>2. Frame[m] = [d \in Dimension |-> Frame[m][d]]
      BY PendingResolutionAssumption
    <2> QED
      BY <2>1, <2>2 DEF Frames
  <1> QED
    BY <1>1 DEF Filled, Frames

(* The same as a recursive function, the way FoldLeft defines it. *)
FillFold(base, seq, it) ==
    it = [s \in SUBSET (DOMAIN seq) |->
            IF s = {} THEN base ELSE LET x == Max(s) IN Filled(it[s \ {x}], seq[x])]

(* Filling a frame in from a sequence of messages leaves a frame. *)
LEMMA FillTyped ==
    ASSUME NEW base \in Frames, NEW seq \in Seq(Message)
    PROVE  FoldLeft(Filled, base, seq) \in Frames
  <1> DEFINE n == Len(seq)
             D == 1..n
             op == [q \in Frames \X (1..n) |-> Filled(q[1], seq[q[2]])]
             chosen == CHOOSE it : FillFold(base, seq, it)
  <1>1. n \in Nat /\ DOMAIN seq = D /\ \A k \in D : seq[k] \in Message
    OBVIOUS
  <1>2. FoldLeft(Filled, base, seq) = chosen[D]
    <2>1. FoldLeft(Filled, base, seq) = chosen[DOMAIN seq]
      BY Zenon DEF FoldLeft, MapThenFoldSet, FillFold
    <2> QED
      BY <1>1, <2>1
  <1> HIDE DEF n
  <1>3. op \in [Frames \X D -> Frames] /\ \A v \in Frames, k \in D : op[<<v, k>>] = Filled(v, seq[k])
    BY <1>1, FilledTyped
  <1> HIDE DEF op, D
  <1>4. D = 1..n
    BY DEF D
  <1>5. IsFiniteSet(D) /\ \A T \in SUBSET D : T # {} => Max(T) \in T
    BY <1>1, <1>4, FirstOnes
  <1>a. PICK it \in [SUBSET D -> Frames] : IsLeftFold(base, op, D, it)
    BY <1>1, <1>3, <1>4, LeftFoldExists
  <1>6. FillFold(base, seq, it)
    <2>1. it = [T \in SUBSET D |-> it[T]] /\ \A T \in SUBSET D : it[T] \in Frames
      BY <1>a
    <2>2. ASSUME NEW T \in SUBSET D
          PROVE  it[T] = IF T = {} THEN base ELSE Filled(it[T \ {Max(T)}], seq[Max(T)])
      <3>1. CASE T = {}
        BY <1>a, <3>1 DEF IsLeftFold
      <3>2. CASE T # {}
        <4>1. Max(T) \in D /\ it[T \ {Max(T)}] \in Frames
          BY <1>5, <2>1, <3>2
        <4>2. it[T] = op[<<it[T \ {Max(T)}], Max(T)>>]
          BY <1>a, <3>2 DEF IsLeftFold
        <4> QED
          BY <1>3, <3>2, <4>1, <4>2
      <3> QED
        BY <3>1, <3>2
    <2>3. it = [T \in SUBSET D |-> IF T = {} THEN base ELSE Filled(it[T \ {Max(T)}], seq[Max(T)])]
      BY <2>1, <2>2
    <2> QED
      BY <1>1, <2>3 DEF FillFold
  <1>7. FillFold(base, seq, chosen)
    BY <1>6, Zenon
  <1> HIDE DEF chosen
  <1>8. \A T \in SUBSET D : chosen[T] = IF T = {} THEN base ELSE Filled(chosen[T \ {Max(T)}], seq[Max(T)])
    BY <1>1, <1>7 DEF FillFold
  <1> DEFINE Bad == {T \in SUBSET D : chosen[T] \notin Frames}
  <1>9. ASSUME Bad # {} PROVE FALSE
    <2>0. Bad \in SUBSET (SUBSET D)
      OBVIOUS
    <2> HIDE DEF Bad
    <2>1. PICK T \in Bad : \A x \in T : T \ {x} \notin Bad
      BY <1>5, <1>9, <2>0, SmallestSet
    <2>2. T \in SUBSET D /\ chosen[T] \notin Frames
      BY DEF Bad
    <2>3. T # {}
      BY <1>8, <2>2
    <2>4. Max(T) \in T /\ Max(T) \in D
      BY <1>5, <2>2, <2>3
    <2>5. chosen[T \ {Max(T)}] \in Frames
      BY <2>1, <2>2, <2>4 DEF Bad
    <2>6. chosen[T] = Filled(chosen[T \ {Max(T)}], seq[Max(T)])
      BY <1>8, <2>2, <2>3
    <2> QED
      BY <1>1, <2>2, <2>4, <2>5, <2>6, FilledTyped
  <1> QED
    BY <1>2, <1>9

(* So does composing an item's frame with evidence. *)
LEMMA ComposedTyped ==
    ASSUME NEW row \in Rows, row.group # <<>>, NEW used, IsFiniteSet(used), used \subseteq Message
    PROVE  Composed(row, SetToSeq(used)) \in Frames
  <1>1. row.frame \in Frames /\ row.group \in Seq(Message)
    BY DEF Rows
  <1>2. Tail(row.group) \in Seq(Message)
    BY <1>1
  <1>3. SetToSeq(used) \in Seq(Message)
    <2>1. Cardinality(used) \in Nat /\ SetToSeq(used) \in [1..Cardinality(used) -> used]
      BY SetToSeqLists
    <2> DEFINE n == Cardinality(used)
               q == SetToSeq(used)
    <2>2. n \in Nat /\ q \in [1..n -> Message]
      BY <2>1
    <2> HIDE DEF n, q
    <2>3. q \in Seq(Message)
      BY <2>2
    <2> QED
      BY <2>3 DEF q
  <1>4. Tail(row.group) \o SetToSeq(used) \in Seq(Message)
    BY <1>2, <1>3
  <1> QED
    BY <1>1, <1>4, FillTyped DEF Composed

-----------------------------------------------------------------------------
(* A decision that defers or updates is about memories it was asked about. *)
LEMMA DecisionIs ==
    ASSUME NEW asked \in SUBSET Memory, NEW decision \in Decisions[asked]
    PROVE  /\ decision.action \in ActionName /\ decision.action # "none"
           /\ decision.targets \subseteq asked
           /\ decision.action \in {"defer", "update"} => decision.targets # {}
  <1>1. PICK answer \in [asked -> Answer] : decision = Decide(answer)
    BY DEF Decisions
  <1> DEFINE near == {m \in DOMAIN answer : answer[m] # "none"}
  <1>2. near \subseteq asked
    OBVIOUS
  <1>3. \/ decision \in {[action |-> "add", targets |-> {}], [action |-> "ambiguous", targets |-> {}]}
        \/ /\ near # {}
           /\ decision \in {[action |-> a, targets |-> near] : a \in {"defer", "noop", "update"}}
    BY <1>1 DEF Decide, Action
  <1> QED
    BY <1>2, <1>3 DEF ActionName

(* A free id is that of a memory that was never stored. *)
LEMMA FreeIs ==
    /\ FreeMemories \subseteq Memory \ Ever /\ FreeItems \subseteq Item
    /\ \A p \in Process : FreeMemories \cap NewOf(proc[p].plans) = {}
  BY DEF FreeMemories, FreeItems, Ever

(* The plan for a decision, field by field. *)
LEMMA PlanIs ==
    ASSUME NEW decision, decision.action \in ActionName, decision.targets \subseteq Memory,
           NEW item \in Item \cup {None}, NEW row \in Rows, NEW plan, plan = Plan(decision, item, row),
           decision.action \in {"add", "update"} => FreeMemories # {}
    PROVE  /\ plan \in Plans
           /\ plan.action = decision.action /\ plan.targets = decision.targets
           /\ plan.item = item /\ plan.row = row
           /\ decision.action \in {"add", "update"} => plan.new \in FreeMemories
           /\ decision.action \notin {"add", "update"} => plan.new = None
  <1> DEFINE new == IF decision.action \in {"add", "update"} THEN CHOOSE m \in FreeMemories : TRUE ELSE None
  <1>1. /\ decision.action \in {"add", "update"} => new \in FreeMemories
        /\ decision.action \notin {"add", "update"} => new = None
    OBVIOUS
  <1>2. plan = [action |-> decision.action, targets |-> decision.targets, item |-> item, row |-> row, new |-> new]
    BY DEF Plan
  <1>3. new \in Memory \cup {None}
    BY <1>1, FreeIs
  <1> HIDE DEF new
  <1> QED
    BY <1>1, <1>2, <1>3 DEF Plans

(* The plan that does nothing but write a row back. *)
LEMMA NoopPlan ==
    ASSUME NEW id \in Item \cup {None}, NEW row \in Rows, NEW plan, plan = Plan(Action("noop", {}), id, row)
    PROVE  /\ plan \in Plans /\ plan.action = "noop" /\ plan.targets = {} /\ plan.item = id /\ plan.row = row
           /\ plan.new = None
  <1>1. plan = [action |-> "noop", targets |-> {}, item |-> id, row |-> row, new |-> None]
    BY DEF Plan, Action
  <1> QED
    BY <1>1 DEF Plans, ActionName

-----------------------------------------------------------------------------
(* What plans rest on stays so when more is stored, replaced and overdue. *)
LEMMA PlanMonotone ==
    ASSUME NEW plan, NEW E, NEW D, NEW U, NEW E2, NEW D2, NEW U2,
           E \subseteq E2, D \subseteq D2, U \subseteq U2, PlanInv(plan, E, D, U)
    PROVE  PlanInv(plan, E2, D2, U2)
  BY DEF PlanInv, RowInv

(* The same for all that a write holds. *)
LEMMA LocalMonotone ==
    ASSUME NEW l, NEW E, NEW D, NEW U, NEW E2, NEW D2, NEW U2,
           E \subseteq E2, D \subseteq D2, U \subseteq U2, LocalInv(l, E, D, U)
    PROVE  LocalInv(l, E2, D2, U2)
  <1>1. ASSUME NEW k \in DOMAIN l.items PROVE ItemInv(l.items[k], E2, U2)
    BY DEF LocalInv, ItemInv, RowInv
  <1>2. ASSUME NEW k \in DOMAIN l.plans
        PROVE  PlanInv(l.plans[k], E2 \cup NewOf(l.plans), D2 \cup ReplacedBy(l.plans), U2)
    <2> DEFINE plan == l.plans[k]
               A == E \cup NewOf(l.plans)
               B == D \cup ReplacedBy(l.plans)
               A2 == E2 \cup NewOf(l.plans)
               B2 == D2 \cup ReplacedBy(l.plans)
    <2>1. PlanInv(plan, A, B, U) /\ A \subseteq A2 /\ B \subseteq B2
      BY DEF LocalInv
    <2> HIDE DEF plan, A, B, A2, B2
    <2>2. PlanInv(plan, A2, B2, U2)
      BY <2>1, PlanMonotone
    <2> QED
      BY <2>2 DEF plan, A2, B2
  <1> QED
    BY <1>1, <1>2 DEF LocalInv

(* And for a stored row. *)
LEMMA RowMonotone ==
    ASSUME NEW row, NEW i, NEW E, NEW D, NEW U, NEW E2, NEW D2, NEW U2,
           E \subseteq E2, D \subseteq D2, U \subseteq U2, RowStands(row, i, E, D, U)
    PROVE  RowStands(row, i, E2, D2, U2)
  BY DEF RowStands

(* A row that a plan saves stands when the plan takes effect. *)
LEMMA PlannedRowStands ==
    ASSUME NEW plan, plan.item # None, NEW E, NEW D, NEW U, PlanInv(plan, E, D, U)
    PROVE  RowStands(plan.row, plan.item, E, D, U)
  BY DEF PlanInv, RowInv, RowStands, Terminal

(* What one more plan adds. *)
Replaces(plan) == IF plan.action = "update" THEN plan.targets ELSE {}
AppendedTo(plans, plan, longer) ==
    /\ longer \in Seq(Plans) /\ Len(longer) = Len(plans) + 1
    /\ DOMAIN plans = 1..Len(plans) /\ DOMAIN longer = 1..(Len(plans) + 1)
    /\ Len(plans) \in Nat
    /\ \A k \in 1..Len(plans) : longer[k] = plans[k]
    /\ longer[Len(plans) + 1] = plan

(* Appending is that. *)
LEMMA Appended ==
    ASSUME NEW plans \in Seq(Plans), NEW plan \in Plans
    PROVE  AppendedTo(plans, plan, Append(plans, plan))
  BY DEF AppendedTo

(* The memories a list of plans stores and replaces, and the items it saves, *)
(* with one more plan.                                                       *)
LEMMA AppendedNames ==
    ASSUME NEW plans, NEW plan, NEW longer, AppendedTo(plans, plan, longer)
    PROVE  /\ NewOf(longer) = NewOf(plans) \cup ({plan.new} \ {None})
           /\ ReplacedBy(longer) = ReplacedBy(plans) \cup Replaces(plan)
           /\ ItemsOf(longer) = ItemsOf(plans) \cup ({plan.item} \ {None})
  <1> DEFINE n == Len(plans)
  <1>1. /\ n \in Nat /\ DOMAIN plans = 1..n /\ DOMAIN longer = 1..(n+1)
        /\ \A k \in 1..n : longer[k] = plans[k]
        /\ longer[n+1] = plan
    BY DEF AppendedTo
  <1> HIDE DEF n
  <1>2. DOMAIN longer = (DOMAIN plans) \cup {n+1} /\ n+1 \in DOMAIN longer
    BY <1>1
  <1>3. \A k \in DOMAIN plans : longer[k] = plans[k]
    BY <1>1
  <1>4. NewOf(longer) = NewOf(plans) \cup ({plan.new} \ {None})
    <2>1. \A x : x \in NewOf(longer) <=> x # None /\ \E k \in DOMAIN longer : x = longer[k].new
      BY DEF NewOf
    <2>2. \A x : x \in NewOf(plans) <=> x # None /\ \E k \in DOMAIN plans : x = plans[k].new
      BY DEF NewOf
    <2>3. ASSUME NEW x PROVE x \in NewOf(longer) <=> x \in NewOf(plans) \/ (x = plan.new /\ x # None)
      BY <1>1, <1>2, <1>3, <2>1, <2>2
    <2> QED
      BY <2>3
  <1>5. ItemsOf(longer) = ItemsOf(plans) \cup ({plan.item} \ {None})
    <2>1. \A x : x \in ItemsOf(longer) <=> x # None /\ \E k \in DOMAIN longer : x = longer[k].item
      BY DEF ItemsOf
    <2>2. \A x : x \in ItemsOf(plans) <=> x # None /\ \E k \in DOMAIN plans : x = plans[k].item
      BY DEF ItemsOf
    <2>3. ASSUME NEW x PROVE x \in ItemsOf(longer) <=> x \in ItemsOf(plans) \/ (x = plan.item /\ x # None)
      BY <1>1, <1>2, <1>3, <2>1, <2>2
    <2> QED
      BY <2>3
  <1>6. ReplacedBy(longer) = ReplacedBy(plans) \cup Replaces(plan)
    <2>1. \A x : x \in ReplacedBy(longer) <=> \E k \in DOMAIN longer : longer[k].action = "update" /\ x \in longer[k].targets
      BY DEF ReplacedBy
    <2>2. \A x : x \in ReplacedBy(plans) <=> \E k \in DOMAIN plans : plans[k].action = "update" /\ x \in plans[k].targets
      BY DEF ReplacedBy
    <2>3. \A x : x \in Replaces(plan) <=> plan.action = "update" /\ x \in plan.targets
      BY DEF Replaces
    <2>4. ASSUME NEW x PROVE x \in ReplacedBy(longer) <=> x \in ReplacedBy(plans) \/ x \in Replaces(plan)
      BY <1>1, <1>2, <1>3, <2>1, <2>2, <2>3
    <2> QED
      BY <2>4
  <1> QED
    BY <1>4, <1>5, <1>6

(* One more plan: it rests on what is stored and planned so far, and what it *)
(* stores is new.                                                            *)
PlanFits(plan, plans, E, D, U) ==
    /\ PlanInv(plan, E \cup NewOf(plans), D \cup ReplacedBy(plans), U)
    /\ plan.new \notin E \cup NewOf(plans)
    /\ plan.new \notin plan.targets

(* A write that adds such a plan still holds nothing unfounded. *)
LEMMA PlanAdded ==
    ASSUME NEW l \in Locals, NEW next \in Locals, NEW plan \in Plans,
           NEW E \in SUBSET Memory, NEW D, NEW U, LocalInv(l, E, D, U),
           PlanFits(plan, l.plans, E, D, U),
           next.plans = Append(l.plans, plan), next.items \in {l.items, Tail(l.items)},
           next.claimed \subseteq l.claimed \cup Replaces(plan)
    PROVE  LocalInv(next, E, D, U)
  <1> DEFINE plans == l.plans
             longer == next.plans
             n == Len(plans)
  <1>0. plans \in Seq(Plans) /\ l.items \in Seq(Items)
    BY DEF Locals
  <1>1. AppendedTo(plans, plan, longer)
    BY <1>0, Appended
  <1>2. /\ n \in Nat /\ DOMAIN plans = 1..n /\ DOMAIN longer = 1..(n+1)
        /\ \A k \in 1..n : longer[k] = plans[k]
        /\ longer[n+1] = plan
    BY <1>1 DEF AppendedTo
  <1> HIDE DEF n
  <1>3. NewOf(plans) \subseteq NewOf(longer) /\ ReplacedBy(longer) = ReplacedBy(plans) \cup Replaces(plan)
    BY <1>1, AppendedNames
  <1>4. ASSUME NEW k \in DOMAIN next.items PROVE ItemInv(next.items[k], E, U)
    <2>1. \E j \in DOMAIN l.items : next.items[k] = l.items[j]
      <3>1. CASE next.items = l.items
        BY <3>1
      <3>2. CASE next.items = Tail(l.items)
        <4>1. CASE l.items = <<>>
          <5>1. next.items \in Seq(Items)
            BY DEF Locals
          <5> QED
            BY <3>2, <4>1, <5>1
        <4>2. CASE l.items # <<>>
          <5>1. k + 1 \in DOMAIN l.items /\ next.items[k] = l.items[k+1]
            BY <1>0, <3>2, <4>2
          <5> QED
            BY <5>1
        <4> QED
          BY <4>1, <4>2
      <3> QED
        BY <3>1, <3>2
    <2> QED
      BY <2>1 DEF LocalInv
  <1>5. ASSUME NEW k \in DOMAIN longer
        PROVE  PlanInv(longer[k], E \cup NewOf(longer), D \cup ReplacedBy(longer), U)
    <2> DEFINE A == E \cup NewOf(plans)
               B == D \cup ReplacedBy(plans)
               A2 == E \cup NewOf(longer)
               B2 == D \cup ReplacedBy(longer)
               this == longer[k]
    <2>1. PlanInv(this, A, B, U)
      <3>1. CASE k \in 1..n
        BY <1>2, <3>1 DEF LocalInv
      <3>2. CASE k = n + 1
        BY <1>2, <3>2 DEF PlanFits
      <3> QED
        BY <1>2, <3>1, <3>2
    <2>2. A \subseteq A2 /\ B \subseteq B2
      BY <1>3
    <2> HIDE DEF A, B, A2, B2, this
    <2>3. PlanInv(this, A2, B2, U)
      BY <2>1, <2>2, PlanMonotone
    <2> QED
      BY <2>3 DEF A2, B2, this
  <1>6. OrderInv(longer)
    <2> SUFFICES ASSUME NEW k \in DOMAIN longer, NEW j \in DOMAIN longer, j <= k, longer[j].action = "update"
                 PROVE  longer[k].new \notin longer[j].targets
      BY DEF OrderInv
    <2>1. CASE k \in 1..n
      <3>1. j \in 1..n /\ longer[k] = plans[k] /\ longer[j] = plans[j]
        BY <1>2, <2>1
      <3> QED
        BY <1>2, <2>1, <3>1 DEF LocalInv, OrderInv
    <2>2. CASE k = n + 1 /\ j \in 1..n
      <3>1. longer[j] = plans[j] /\ longer[k] = plan
        BY <1>2, <2>2
      <3>2. plans[j].targets \subseteq E \cup NewOf(plans)
        BY <1>2, <2>2, <3>1 DEF LocalInv, PlanInv
      <3> QED
        BY <3>1, <3>2 DEF PlanFits
    <2>3. CASE k = n + 1 /\ j = n + 1
      BY <1>2, <2>3 DEF PlanFits
    <2> QED
      BY <1>2, <2>1, <2>2, <2>3
  <1>7. next.claimed \subseteq ReplacedBy(longer)
    BY <1>3 DEF LocalInv
  <1> QED
    BY <1>4, <1>5, <1>6, <1>7 DEF LocalInv

-----------------------------------------------------------------------------
(* What a step of a write may leave its locals as: within the invariant, *)
(* with memory ids no other write has, and naming no item that was gone. *)
HeldBy(l) == ItemsOf(l.plans) \cup {l.items[k].id : k \in DOMAIN l.items}
Takes(p, next) ==
    /\ next \in Locals
    /\ LocalInv(next, Ever, Dead, due)
    /\ NewOf(next.plans) \cap Ever = {}
    /\ \A q \in Process : q # p => NewOf(next.plans) \cap NewOf(proc[q].plans) = {}
    /\ \A i \in HeldBy(next) : i \in HeldBy(proc[p]) \/ pending[i].status # "gone"

(* Nothing, to begin with and when a write is over. *)
LEMMA FreeHoldsNothing ==
    /\ Free \in Locals /\ NewOf(Free.plans) = {} /\ HeldBy(Free) = {}
    /\ \A E, D, U : LocalInv(Free, E, D, U)
  <1>1. Free \in Locals
    BY DEF Free, Locals
  <1>2. DOMAIN Free.plans = {} /\ DOMAIN Free.items = {} /\ Free.claimed = {}
    BY DEF Free
  <1>3. NewOf(Free.plans) = {} /\ HeldBy(Free) = {}
    BY <1>2 DEF NewOf, HeldBy, ItemsOf
  <1>4. ASSUME NEW E, NEW D, NEW U PROVE LocalInv(Free, E, D, U)
    <2>1. \A k \in DOMAIN Free.items : ItemInv(Free.items[k], E, U)
      BY <1>2
    <2>2. \A k \in DOMAIN Free.plans :
            PlanInv(Free.plans[k], E \cup NewOf(Free.plans), D \cup ReplacedBy(Free.plans), U)
      BY <1>2
    <2>3. OrderInv(Free.plans) /\ Free.claimed \subseteq ReplacedBy(Free.plans)
      BY <1>2 DEF OrderInv
    <2> QED
      BY <2>1, <2>2, <2>3, Zenon DEF LocalInv
  <1> QED
    BY <1>1, <1>3, <1>4

(* A write may always be given up. *)
LEMMA TakesFree ==
    ASSUME NEW p \in Process
    PROVE  Takes(p, Free)
  BY FreeHoldsNothing DEF Takes

(* The row of the first item left, as the write has read it. *)
LEMMA HeadIs ==
    ASSUME IInv, NEW p \in Process, proc[p].items # <<>>, NEW item, item = Head(proc[p].items)
    PROVE  /\ item \in Items /\ ItemInv(item, Ever, due) /\ item.id \in HeldBy(proc[p])
           /\ Tail(proc[p].items) \in Seq(Items)
  <1> DEFINE items == proc[p].items
  <1>1. proc[p] \in Locals /\ items \in Seq(Items) /\ LocalInv(proc[p], Ever, Dead, due)
    BY DEF IInv, TypeInv, Locals
  <1>2. 1 \in DOMAIN items /\ item = items[1] /\ Tail(items) \in Seq(Items) /\ item \in Items
    BY <1>1
  <1> QED
    BY <1>1, <1>2 DEF LocalInv, HeldBy

(* Fewer items and fewer candidates. *)
Lesser(l, next) ==
    /\ next.plans = l.plans /\ next.claimed = l.claimed
    /\ next.items = Tail(l.items) /\ l.items # <<>>

(* What is left of the items was among them. *)
LEMMA TailHolds ==
    ASSUME NEW l \in Locals, l.items # <<>>
    PROVE  /\ \A k \in DOMAIN Tail(l.items) : \E j \in DOMAIN l.items : Tail(l.items)[k] = l.items[j]
  <1>1. l.items \in Seq(Items)
    BY DEF Locals
  <1>2. ASSUME NEW k \in DOMAIN Tail(l.items)
        PROVE  k + 1 \in DOMAIN l.items /\ Tail(l.items)[k] = l.items[k+1]
    BY <1>1
  <1> QED
    BY <1>2

(* An item that is skipped leaves the write within the invariant. *)
LEMMA TakesLess ==
    ASSUME IInv, NEW p \in Process, NEW next \in Locals, Lesser(proc[p], next)
    PROVE  Takes(p, next)
  <1> DEFINE l == proc[p]
  <1>1. l \in Locals /\ LocalInv(l, Ever, Dead, due)
    BY DEF IInv, TypeInv
  <1>2. /\ next.plans = l.plans /\ next.claimed = l.claimed
        /\ \A k \in DOMAIN next.items : \E j \in DOMAIN l.items : next.items[k] = l.items[j]
    BY <1>1, TailHolds DEF Lesser
  <1>3. LocalInv(next, Ever, Dead, due)
    BY <1>1, <1>2 DEF LocalInv
  <1>4. HeldBy(next) \subseteq HeldBy(l)
    BY <1>2 DEF HeldBy
  <1>5. NewOf(l.plans) \cap Ever = {} /\ \A q \in Process : q # p => NewOf(l.plans) \cap NewOf(proc[q].plans) = {}
    BY DEF IInv
  <1> QED
    BY <1>2, <1>3, <1>4, <1>5 DEF Takes

(* One more plan. *)
OneMore(l, next, plan) ==
    /\ next.plans = Append(l.plans, plan)
    /\ next.items \in {l.items, Tail(l.items)} /\ (l.items = <<>> => next.items = <<>>)
    /\ next.claimed \subseteq l.claimed \cup Replaces(plan)

(* So does a plan more that rests on what is stored and planned. *)
LEMMA TakesPlan ==
    ASSUME IInv, NEW p \in Process, NEW next \in Locals, NEW plan \in Plans, OneMore(proc[p], next, plan),
           PlanInv(plan, Ever \cup NewOf(proc[p].plans), Dead \cup ReplacedBy(proc[p].plans), due),
           plan.new \in FreeMemories \cup {None},
           plan.new \notin plan.targets,
           plan.item # None => plan.item \in HeldBy(proc[p]) \/ pending[plan.item].status # "gone"
    PROVE  Takes(p, next)
  <1> DEFINE l == proc[p]
             longer == next.plans
  <1>1. l \in Locals /\ LocalInv(l, Ever, Dead, due) /\ l.plans \in Seq(Plans)
    BY DEF IInv, TypeInv, Locals
  <1>2. AppendedTo(l.plans, plan, longer)
    BY <1>1, Appended DEF OneMore
  <1>3. /\ NewOf(longer) = NewOf(l.plans) \cup ({plan.new} \ {None})
        /\ ItemsOf(longer) = ItemsOf(l.plans) \cup ({plan.item} \ {None})
    BY <1>2, AppendedNames
  <1>4. /\ FreeMemories \subseteq Memory \ Ever /\ None \notin Ever
        /\ \A q \in Process : FreeMemories \cap NewOf(proc[q].plans) = {} /\ None \notin NewOf(proc[q].plans)
    BY FreeIs, PendingResolutionAssumption DEF Ever, NewOf
  <1>5. PlanFits(plan, l.plans, Ever, Dead, due)
    BY <1>4 DEF PlanFits
  <1>6. LocalInv(next, Ever, Dead, due)
    <2>1. Ever \in SUBSET Memory
      BY DEF Ever
    <2>2. /\ next.plans = Append(l.plans, plan) /\ next.items \in {l.items, Tail(l.items)}
          /\ next.claimed \subseteq l.claimed \cup Replaces(plan)
      BY DEF OneMore
    <2> HIDE DEF l
    <2> QED
      BY <1>1, <1>5, <2>1, <2>2, PlanAdded
  <1>7. HeldBy(next) \subseteq HeldBy(l) \cup ({plan.item} \ {None})
    <2>1. \A k \in DOMAIN next.items : \E j \in DOMAIN l.items : next.items[k] = l.items[j]
      <3>1. CASE next.items = l.items
        BY <3>1
      <3>2. CASE next.items = Tail(l.items) /\ l.items # <<>>
        BY <1>1, <3>2, TailHolds
      <3> QED
        BY <3>1, <3>2 DEF OneMore
    <2> QED
      BY <1>3, <2>1 DEF HeldBy
  <1>8. NewOf(l.plans) \cap Ever = {} /\ \A q \in Process : q # p => NewOf(l.plans) \cap NewOf(proc[q].plans) = {}
    BY DEF IInv
  <1>9. NewOf(longer) \cap Ever = {} /\ \A q \in Process : q # p => NewOf(longer) \cap NewOf(proc[q].plans) = {}
    BY <1>3, <1>4, <1>8
  <1> QED
    BY <1>6, <1>7, <1>9 DEF Takes

-----------------------------------------------------------------------------
(* A memory that was stored and is not active is never active again. *)
LEMMA EverIs ==
    ASSUME IInv
    PROVE  Ever \subseteq Active \cup Dead /\ Active \subseteq Ever /\ Active \cap Dead = {}
  BY DEF IInv, TypeInv, Ever, Dead, Active

(* Listing a finite set. *)
LEMMA ListingIs ==
    ASSUME NEW S, NEW listed \in SetToSeqs(S)
    PROVE  /\ DOMAIN listed = 1..Cardinality(S)
           /\ \A k \in DOMAIN listed : listed[k] \in S
  BY DEF SetToSeqs

(* A write that begins reads rows as they are stored. *)
LEMMA BeginTakes ==
    ASSUME IInv, NEW p \in Process, Begin(p)
    PROVE  \E next : Takes(p, next) /\ Becomes(p, next)
  <1>1. PICK messages \in (SUBSET Message) \ {{}} :
          \E candidates \in SUBSET (messages \cap UserMessage), items \in SUBSET Open :
             \E listed \in SetToSeqs(items) :
                Becomes(p, [Free EXCEPT
                          !.pc = "plan", !.messages = messages, !.candidates = candidates,
                          !.items = [k \in DOMAIN listed |->
                              [id |-> listed[k], row |-> pending[listed[k]],
                               due |-> listed[k] \in due]]])
    BY DEF Begin
  <1>2. PICK candidates \in SUBSET (messages \cap UserMessage), items \in SUBSET Open :
             \E listed \in SetToSeqs(items) :
                Becomes(p, [Free EXCEPT
                          !.pc = "plan", !.messages = messages, !.candidates = candidates,
                          !.items = [k \in DOMAIN listed |->
                              [id |-> listed[k], row |-> pending[listed[k]],
                               due |-> listed[k] \in due]]])
    BY <1>1
  <1>3. PICK listed \in SetToSeqs(items) :
                Becomes(p, [Free EXCEPT
                          !.pc = "plan", !.messages = messages, !.candidates = candidates,
                          !.items = [k \in DOMAIN listed |->
                              [id |-> listed[k], row |-> pending[listed[k]],
                               due |-> listed[k] \in due]]])
    BY <1>2
  <1> DEFINE n == Cardinality(items)
             read == [k \in DOMAIN listed |->
                        [id |-> listed[k], row |-> pending[listed[k]], due |-> listed[k] \in due]]
             next == [Free EXCEPT !.pc = "plan", !.messages = messages, !.candidates = candidates,
                                  !.items = read]
  <1>4. Becomes(p, next)
    BY <1>3
  <1>5. n \in Nat
    <2>1. IsFiniteSet(items)
      BY PendingResolutionAssumption, FS_Subset DEF Open
    <2> QED
      BY <2>1, FS_CardinalityType
  <1>6. DOMAIN listed = 1..n /\ \A k \in 1..n : listed[k] \in items
    BY ListingIs
  <1> HIDE DEF n
  <1>7. ASSUME NEW i \in items
        PROVE  /\ i \in Item /\ pending[i] \in Rows /\ pending[i].status = "open"
               /\ RowInv(pending[i], Ever)
    <2>1. i \in Item /\ pending[i].status = "open"
      BY DEF Open
    <2>2. RowStands(pending[i], i, Ever, Dead, due) /\ pending[i] \in Rows
      BY <2>1 DEF IInv, TypeInv, StoredInv
    <2> QED
      BY <2>1, <2>2 DEF RowStands, RowInv
  <1>8. /\ read \in Seq(Items) /\ DOMAIN read = 1..n
        /\ \A k \in 1..n : /\ ItemInv(read[k], Ever, due)
                           /\ pending[read[k].id].status # "gone"
    <2>1. ASSUME NEW k \in 1..n
          PROVE  /\ read[k] \in Items /\ ItemInv(read[k], Ever, due)
                 /\ pending[read[k].id].status # "gone"
      <3> DEFINE i == listed[k]
                 item == read[k]
      <3>1. item = [id |-> i, row |-> pending[i], due |-> i \in due] /\ i \in items
        BY <1>6
      <3> DEFINE flag == i \in due
      <3>a. flag \in BOOLEAN /\ (flag => i \in due)
        OBVIOUS
      <3>b. item = [id |-> i, row |-> pending[i], due |-> flag]
        BY <3>1
      <3> HIDE DEF item, i, flag
      <3>2. item \in Items /\ item.id = i /\ item.row = pending[i] /\ (item.due => i \in due)
        BY <1>7, <3>1, <3>a, <3>b DEF Items
      <3>3. ItemInv(item, Ever, due) /\ pending[item.id].status # "gone"
        BY <1>7, <3>1, <3>2 DEF ItemInv
      <3> QED
        BY <3>2, <3>3 DEF item
    <2>2. DOMAIN read = 1..n /\ read = [k \in 1..n |-> read[k]]
      BY <1>6
    <2> HIDE DEF read
    <2> QED
      BY <1>5, <2>1, <2>2
  <1> HIDE DEF read
  <1>b. Free \in Locals /\ Free.plans = <<>> /\ Free.claimed = {}
    BY FreeHoldsNothing DEF Free
  <1>c. messages \in SUBSET Message /\ candidates \in SUBSET Message
    OBVIOUS
  <1>9. next.plans = <<>> /\ next.items = read /\ next.claimed = {} /\ next \in Locals
    BY <1>8, <1>b, <1>c DEF Locals
  <1> HIDE DEF next
  <1>11. DOMAIN next.plans = {} /\ NewOf(next.plans) = {}
    BY <1>9 DEF NewOf
  <1>12. LocalInv(next, Ever, Dead, due)
    <2>1. \A k \in DOMAIN next.items : ItemInv(next.items[k], Ever, due)
      BY <1>8, <1>9
    <2>2. \A k \in DOMAIN next.plans :
            PlanInv(next.plans[k], Ever \cup NewOf(next.plans), Dead \cup ReplacedBy(next.plans), due)
      BY <1>11
    <2>3. OrderInv(next.plans) /\ next.claimed \subseteq ReplacedBy(next.plans)
      BY <1>9, <1>11 DEF OrderInv
    <2> QED
      BY <2>1, <2>2, <2>3, Zenon DEF LocalInv
  <1>13. \A i \in HeldBy(next) : pending[i].status # "gone"
    BY <1>8, <1>9, <1>11 DEF HeldBy, ItemsOf
  <1>14. Takes(p, next)
    BY <1>9, <1>11, <1>12, <1>13 DEF Takes
  <1> QED
    BY <1>4, <1>14

-----------------------------------------------------------------------------
(* What evidence an item finds: messages of the write, and candidates. *)
LEMMA EvidenceIs ==
    ASSUME NEW item, NEW fresh \in SUBSET Message, NEW candidates \in SUBSET Message,
           NEW e \in Evidence(item, fresh, candidates)
    PROVE  e.used \subseteq Message /\ IsFiniteSet(e.used) /\ e.messages \subseteq Message
  <1>1. \/ \E c \in candidates : e = [used |-> {c}, messages |-> {c} \cap fresh]
        \/ e = [used |-> {}, messages |-> {m \in fresh \cap UserMessage : MessageRelated(item.row, m)}]
    BY DEF Evidence
  <1>2. CASE \E c \in candidates : e = [used |-> {c}, messages |-> {c} \cap fresh]
    <2>1. PICK c \in candidates : e = [used |-> {c}, messages |-> {c} \cap fresh]
      BY <1>2
    <2>2. IsFiniteSet({c})
      BY FS_Singleton
    <2> QED
      BY <2>1, <2>2
  <1>3. CASE e = [used |-> {}, messages |-> {m \in fresh \cap UserMessage : MessageRelated(item.row, m)}]
    <2>1. IsFiniteSet({})
      BY FS_EmptySet
    <2> QED
      BY <1>3, <2>1
  <1> QED
    BY <1>1, <1>2, <1>3

(* The row that the reconsideration of an item saves. *)
LEMMA ResolutionIs ==
    ASSUME NEW item \in Items, item.row.group # <<>>, NEW e, e.used \subseteq Message,
           IsFiniteSet(e.used), e.messages \subseteq Message, NEW action,
           NEW row, row = Resolution(item, e, action)
    PROVE  /\ row \in Rows /\ row.targets = item.row.targets /\ row.group = item.row.group
           /\ action = "none" => row.status = "obsolete"
           /\ action = "defer" => row.status = "open"
           /\ action \notin {"none", "defer"} => row.status = "resolved"
  <1> DEFINE old == item.row
             status == CASE action = "none" -> "obsolete" [] action = "defer" -> "open" [] OTHER -> "resolved"
             composed == Composed(item.row, SetToSeq(e.used))
             frame == IF action = "none" THEN old.frame ELSE composed
             seen == old.seen \cup e.messages
  <1>1. old \in Rows
    BY DEF Items
  <1>2. composed \in Frames
    <2> DEFINE used == e.used
    <2>1. used \subseteq Message /\ IsFiniteSet(used)
      OBVIOUS
    <2> HIDE DEF used
    <2>2. Composed(old, SetToSeq(used)) \in Frames
      <3> HIDE DEF old
      <3>1. old.group # <<>>
        BY DEF old
      <3> QED
        BY <1>1, <2>1, <3>1, ComposedTyped
    <2> QED
      BY <2>2 DEF used
  <1>3. frame \in Frames /\ seen \in SUBSET Message
    <2>1. old.frame \in Frames /\ old.seen \in SUBSET Message
      BY <1>1 DEF Rows
    <2> HIDE DEF composed, old
    <2> QED
      BY <1>2, <2>1
  <1>4. row = [old EXCEPT !.seen = seen, !.status = status, !.frame = frame]
    BY Zenon DEF Resolution
  <1>5. /\ action = "none" => status = "obsolete"
        /\ action = "defer" => status = "open"
        /\ action \notin {"none", "defer"} => status = "resolved"
    OBVIOUS
  <1>6. status \in Status
    BY DEF Status, Terminal
  <1>7. item.row = old
    OBVIOUS
  <1> HIDE DEF frame, seen, composed, old, status
  <1> QED
    BY <1>1, <1>3, <1>4, <1>5, <1>6, <1>7 DEF Rows

-----------------------------------------------------------------------------
(* The plan that closes an item's row and does nothing else. *)
Closing(item, closed) == Plan(Action("noop", {}), item.id, [item.row EXCEPT !.status = closed])

(* The plans that reconsidering an item may add are grounded. *)
LEMMA ClosedPlan ==
    ASSUME IInv, NEW p \in Process, proc[p].items # <<>>,
           NEW item, item = Head(proc[p].items),
           NEW closed, closed = ClosedBy(item, proc[p].claimed), closed # "open",
           NEW plan, plan = Closing(item, closed)
    PROVE  /\ plan \in Plans /\ plan.new = None /\ plan.item = item.id /\ plan.targets = {}
           /\ PlanInv(plan, Ever \cup NewOf(proc[p].plans), Dead \cup ReplacedBy(proc[p].plans), due)
  <1> DEFINE l == proc[p]
             old == item.row
             row == [old EXCEPT !.status = closed]
             D == Dead \cup ReplacedBy(l.plans)
             E == Ever \cup NewOf(l.plans)
  <1>1. item \in Items /\ ItemInv(item, Ever, due) /\ item.id \in Item
    BY HeadIs DEF Items
  <1>2. l.claimed \subseteq ReplacedBy(l.plans)
    BY DEF IInv, LocalInv
  <1>3. /\ closed \in {"expired", "obsolete"}
        /\ closed = "expired" => item.id \in due
        /\ closed = "obsolete" => old.targets \cap D # {}
    BY <1>1, <1>2 DEF ClosedBy, ItemInv
  <1>4. old \in Rows
    BY <1>1 DEF Items
  <1>5. row \in Rows /\ row.status = closed /\ row.group = old.group /\ row.targets = old.targets
    <2>1. closed \in Status
      BY <1>3 DEF Status, Terminal
    <2> HIDE DEF old
    <2> QED
      BY <1>4, <2>1 DEF Rows
  <1>6. old.group # <<>> /\ old.targets # {} /\ old.targets \subseteq E
    BY <1>1 DEF ItemInv, RowInv
  <1>8. plan = Plan(Action("noop", {}), item.id, row)
    BY DEF Closing
  <1>7. item.id \in Item \cup {None}
    BY <1>1
  <1> HIDE DEF row, old
  <1>9. /\ plan \in Plans /\ plan.action = "noop" /\ plan.targets = {} /\ plan.item = item.id /\ plan.row = row
        /\ plan.new = None
    <2>1. row \in Rows
      BY <1>5
    <2> QED
      BY <1>7, <1>8, <2>1, NoopPlan
  <1> HIDE DEF D, E
  <1>10. PlanInv(plan, E, D, due)
    BY <1>3, <1>5, <1>6, <1>9 DEF PlanInv, RowInv, Terminal
  <1> QED
    BY <1>9, <1>10 DEF D, E

(* What the plan for an item has to be. *)
Grounded(plan, p, item, decision) ==
    /\ plan \in Plans /\ plan.new \in FreeMemories \cup {None} /\ plan.item = item.id
    /\ plan.new \notin plan.targets
    /\ Replaces(plan) = Claims(decision)
    /\ PlanInv(plan, Ever \cup NewOf(proc[p].plans), Dead \cup ReplacedBy(proc[p].plans), due)

(* action is "none" when no target is left, and otherwise the decision's. *)
Settles(decision, action, item) ==
    \/ /\ action = "none" /\ decision = Action("noop", {})
       /\ item.row.targets \cap Active = {}
    \/ /\ action = decision.action /\ action # "ambiguous"
       /\ decision \in Decisions[item.row.targets \cap Active]
       /\ decision.action \in {"add", "update"} => FreeMemories # {}

(* The plan for an item that has found evidence is grounded. *)
LEMMA ResolvedPlan ==
    ASSUME IInv, NEW p \in Process, proc[p].items # <<>>,
           NEW item, item = Head(proc[p].items),
           NEW e, e.used \subseteq Message, IsFiniteSet(e.used), e.messages \subseteq Message,
           NEW decision, NEW action,
           Settles(decision, action, item),
           NEW plan, plan = Plan(decision, item.id, Resolution(item, e, action))
    PROVE  Grounded(plan, p, item, decision)
  <1> DEFINE l == proc[p]
             old == item.row
             row == Resolution(item, e, action)
             asked == item.row.targets \cap Active
             D == Dead \cup ReplacedBy(l.plans)
             E == Ever \cup NewOf(l.plans)
  <1>1. item \in Items /\ ItemInv(item, Ever, due) /\ item.id \in Item /\ old \in Rows
    BY HeadIs DEF Items
  <1>2. old.group # <<>> /\ old.targets # {} /\ old.targets \subseteq Ever
    BY <1>1 DEF ItemInv, RowInv
  <1>3. /\ row \in Rows /\ row.targets = old.targets /\ row.group = old.group
        /\ action = "none" => row.status = "obsolete"
        /\ action = "defer" => row.status = "open"
        /\ action \notin {"none", "defer"} => row.status = "resolved"
    BY <1>1, <1>2, ResolutionIs
  <1>4. asked \in SUBSET Memory /\ asked \subseteq Ever
    BY EverIs DEF Active
  <1>5. /\ decision.action \in ActionName
        /\ decision.targets \subseteq asked
        /\ decision.action \in {"add", "update"} => FreeMemories # {} /\ action = decision.action
        /\ action = "none" => decision.action = "noop" /\ old.targets \cap Active = {}
        /\ action # "none" => action = decision.action
    <2>1. CASE action = "none" /\ decision = Action("noop", {}) /\ item.row.targets \cap Active = {}
      BY <2>1 DEF Action, ActionName
    <2>2. CASE /\ action = decision.action /\ action # "ambiguous"
               /\ decision \in Decisions[asked]
               /\ decision.action \in {"add", "update"} => FreeMemories # {}
      <3>1. decision.action \in ActionName /\ decision.action # "none" /\ decision.targets \subseteq asked
        <4> HIDE DEF asked
        <4> QED
          BY <1>4, <2>2, DecisionIs
      <3> QED
        BY <2>2, <3>1
    <2> QED
      BY <2>1, <2>2 DEF Settles
  <1>6. action = "none" => old.targets \cap D # {}
    BY <1>2, <1>5, EverIs
  <1>7. plan = Plan(decision, item.id, row)
    OBVIOUS
  <1> HIDE DEF row, asked
  <1>8. /\ plan \in Plans /\ plan.action = decision.action /\ plan.targets = decision.targets
        /\ plan.item = item.id /\ plan.row = row
        /\ decision.action \in {"add", "update"} => plan.new \in FreeMemories
        /\ decision.action \notin {"add", "update"} => plan.new = None
    <2>1. decision.targets \subseteq Memory /\ item.id \in Item \cup {None} /\ decision.action \in ActionName
      BY <1>1, <1>4, <1>5
    <2>2. decision.action \in {"add", "update"} => FreeMemories # {}
      BY <1>5
    <2>3. row \in Rows
      BY <1>3
    <2> QED
      BY <1>7, <2>1, <2>2, <2>3, PlanIs
  <1>9. plan.new \in FreeMemories \cup {None} /\ plan.new \notin plan.targets
    BY <1>4, <1>5, <1>8, FreeIs, PendingResolutionAssumption
  <1>10. Replaces(plan) = Claims(decision)
    BY <1>8 DEF Replaces, Claims
  <1>11. PlanInv(plan, E, D, due)
    <2>1. plan.targets \subseteq E
      BY <1>4, <1>5, <1>8
    <2>2. RowInv(row, E)
      BY <1>2, <1>3 DEF RowInv
    <2>3. /\ row.status \in {"open"} \cup Terminal /\ row.status # "expired"
          /\ row.status = "obsolete" => row.targets \cap D # {}
      <3> HIDE DEF D
      <3> QED
        BY <1>3, <1>6 DEF Terminal
    <2>4. plan.new # None => row.status = "resolved"
      BY <1>3, <1>5, <1>8
    <2> QED
      BY <1>8, <2>1, <2>2, <2>3, <2>4 DEF PlanInv
  <1> QED
    BY <1>8, <1>9, <1>10, <1>11 DEF Grounded

(* A step that reconsiders an item. *)
LEMMA ReconcileTakes ==
    ASSUME IInv, NEW p \in Process, Reconcile(p)
    PROVE  \E next : Takes(p, next) /\ Becomes(p, next)
  <1> DEFINE local == proc[p]
             item == Head(local.items)
             rest == [local EXCEPT !.items = Tail(@)]
             fresh == local.messages \ item.row.seen
             closed == ClosedBy(item, local.claimed)
             active == item.row.targets \cap Active
  <1>1. local.items # <<>>
    BY DEF Reconcile
  <1>2. \/ Becomes(p, rest)
        \/ closed # "open" /\ Planned(p, Plan(Action("noop", {}), item.id, [item.row EXCEPT !.status = closed]), rest)
        \/ \E e \in Evidence(item, fresh, local.candidates) :
             LET left == [rest EXCEPT !.candidates = @ \ e.used]
             IN \/ Becomes(p, rest)
                \/ /\ active = {}
                   /\ Planned(p, Plan(Action("noop", {}), item.id, Resolution(item, e, "none")), left)
                \/ \E decision \in Decisions[active] :
                      \/ Becomes(p, Free)
                      \/ /\ decision.action # "ambiguous"
                         /\ decision.action \in {"add", "update"} => FreeMemories # {}
                         /\ Planned(p, Plan(decision, item.id, Resolution(item, e, decision.action)),
                                    [left EXCEPT !.claimed = @ \cup Claims(decision)])
    BY Zenon DEF Reconcile
  <1>3. /\ local \in Locals /\ Tail(local.items) \in Seq(Items) /\ item.id \in HeldBy(local)
        /\ local.plans \in Seq(Plans) /\ local.candidates \subseteq Message /\ local.messages \subseteq Message
        /\ local.claimed \subseteq Memory /\ item \in Items
    BY <1>1, HeadIs DEF IInv, TypeInv, Locals
  <1> DEFINE tail == Tail(local.items)
  <1>4. rest \in Locals /\ rest.plans = local.plans /\ rest.claimed = local.claimed /\ rest.items = tail
        /\ rest.candidates = local.candidates
    <2>1. rest = [local EXCEPT !.items = tail]
      OBVIOUS
    <2> HIDE DEF rest, tail, local
    <2>2. tail \in Seq(Items) /\ local \in Locals
      BY <1>3 DEF tail, local
    <2> QED
      BY <2>1, <2>2 DEF Locals
  <1>5. ASSUME Becomes(p, rest) PROVE \E next : Takes(p, next) /\ Becomes(p, next)
    <2>1. Takes(p, rest)
      <3> HIDE DEF rest
      <3> QED
        BY <1>1, <1>4, TakesLess DEF Lesser
    <2> QED
      BY <1>5, <2>1
  <1>6. ASSUME Becomes(p, Free) PROVE \E next : Takes(p, next) /\ Becomes(p, next)
    BY <1>6, TakesFree
  <1>7. ASSUME NEW left \in Locals, left.plans = local.plans, left.items = tail,
               NEW plan \in Plans, left.claimed \subseteq local.claimed \cup Replaces(plan),
               plan.item = item.id, plan.new \in FreeMemories \cup {None}, plan.new \notin plan.targets,
               PlanInv(plan, Ever \cup NewOf(local.plans), Dead \cup ReplacedBy(local.plans), due),
               Planned(p, plan, left)
        PROVE  \E next : Takes(p, next) /\ Becomes(p, next)
    <2> DEFINE longer == Append(left.plans, plan)
               next == [left EXCEPT !.plans = longer]
    <2>1. Becomes(p, next)
      BY <1>7 DEF Planned
    <2>2. longer \in Seq(Plans) /\ longer = Append(local.plans, plan)
      <3>1. left.plans \in Seq(Plans)
        BY <1>3, <1>7
      <3> QED
        BY <1>7, <3>1
    <2> HIDE DEF longer
    <2>3. /\ next \in Locals /\ next.plans = longer /\ next.items = left.items /\ next.claimed = left.claimed
      BY <2>2 DEF Locals
    <2> HIDE DEF next
    <2>4. OneMore(local, next, plan)
      BY <1>1, <1>7, <2>2, <2>3 DEF OneMore
    <2>5. Takes(p, next)
      <3> HIDE DEF item
      <3> QED
        BY <1>3, <1>7, <2>3, <2>4, TakesPlan
    <2> QED
      BY <2>1, <2>5
  <1> QED
    <2>1. CASE closed # "open" /\ Planned(p, Plan(Action("noop", {}), item.id, [item.row EXCEPT !.status = closed]), rest)
      <3> DEFINE plan == Plan(Action("noop", {}), item.id, [item.row EXCEPT !.status = closed])
      <3>1. /\ plan \in Plans /\ plan.new = None /\ plan.item = item.id /\ plan.targets = {}
            /\ PlanInv(plan, Ever \cup NewOf(local.plans), Dead \cup ReplacedBy(local.plans), due)
        BY <1>1, <2>1, ClosedPlan DEF Closing
      <3>2. Planned(p, plan, rest)
        BY <2>1
      <3> HIDE DEF plan, rest, item, tail
      <3> QED
        BY <1>4, <1>7, <3>1, <3>2
    <2>2. ASSUME NEW e \in Evidence(item, fresh, local.candidates)
          PROVE  /\ e.used \subseteq Message /\ IsFiniteSet(e.used) /\ e.messages \subseteq Message
      <3>1. fresh \in SUBSET Message /\ local.candidates \in SUBSET Message
        BY <1>3
      <3> HIDE DEF fresh, item
      <3> QED
        BY <3>1, EvidenceIs
    <2>3. ASSUME NEW e \in Evidence(item, fresh, local.candidates),
                 NEW left, left = [rest EXCEPT !.candidates = @ \ e.used], active = {},
                 Planned(p, Plan(Action("noop", {}), item.id, Resolution(item, e, "none")), left)
          PROVE  \E next : Takes(p, next) /\ Becomes(p, next)
      <3> DEFINE decision == Action("noop", {})
                 plan == Plan(decision, item.id, Resolution(item, e, "none"))
      <3>1. Grounded(plan, p, item, decision)
        <4> DEFINE action == "none"
        <4>1. e.used \subseteq Message /\ IsFiniteSet(e.used) /\ e.messages \subseteq Message
          BY <2>2
        <4>2. Settles(decision, action, item)
          BY <2>3 DEF Settles
        <4>3. plan = Plan(decision, item.id, Resolution(item, e, action)) /\ item = Head(proc[p].items)
          BY <2>3
        <4> HIDE DEF decision, action, plan, item
        <4> QED
          BY <1>1, <4>1, <4>2, <4>3, ResolvedPlan
      <3>2. Planned(p, plan, left)
        BY <2>3
      <3>3. left \in Locals /\ left.plans = local.plans /\ left.items = tail /\ left.claimed = local.claimed
        <4> HIDE DEF rest, tail
        <4> DEFINE candidates == rest.candidates \ e.used
        <4>1. candidates \in SUBSET Message /\ left = [rest EXCEPT !.candidates = candidates]
          BY <1>3, <1>4, <2>3
        <4> HIDE DEF candidates
        <4> QED
          BY <1>4, <4>1 DEF Locals
      <3> HIDE DEF plan, rest, item, tail
      <3> QED
        BY <1>7, <3>1, <3>2, <3>3 DEF Grounded
    <2>4. ASSUME NEW e \in Evidence(item, fresh, local.candidates),
                 NEW left, left = [rest EXCEPT !.candidates = @ \ e.used],
                 NEW decision \in Decisions[active], decision.action # "ambiguous",
                 decision.action \in {"add", "update"} => FreeMemories # {},
                 Planned(p, Plan(decision, item.id, Resolution(item, e, decision.action)),
                            [left EXCEPT !.claimed = @ \cup Claims(decision)])
          PROVE  \E next : Takes(p, next) /\ Becomes(p, next)
      <3> DEFINE action == decision.action
                 plan == Plan(decision, item.id, Resolution(item, e, action))
                 claimed == left.claimed \cup Claims(decision)
                 more == [left EXCEPT !.claimed = claimed]
      <3>1. Grounded(plan, p, item, decision)
        <4>1. e.used \subseteq Message /\ IsFiniteSet(e.used) /\ e.messages \subseteq Message
          BY <2>2
        <4>2. Settles(decision, action, item)
          BY <2>4 DEF Settles
        <4>3. plan = Plan(decision, item.id, Resolution(item, e, action)) /\ item = Head(proc[p].items)
          BY <2>4
        <4> HIDE DEF action, plan, item
        <4> QED
          BY <1>1, <4>1, <4>2, <4>3, ResolvedPlan
      <3>2. Planned(p, plan, more)
        BY <2>4
      <3>3. left \in Locals /\ left.plans = local.plans /\ left.items = tail /\ left.claimed = local.claimed
        <4> HIDE DEF rest, tail
        <4> DEFINE candidates == rest.candidates \ e.used
        <4>1. candidates \in SUBSET Message /\ left = [rest EXCEPT !.candidates = candidates]
          BY <1>3, <1>4, <2>4
        <4> HIDE DEF candidates
        <4> QED
          BY <1>4, <4>1 DEF Locals
      <3>6. \A x \in Plans : x.targets \subseteq Memory
        BY DEF Plans
      <3>4. claimed \in SUBSET Memory /\ claimed = local.claimed \cup Replaces(plan)
        BY <1>3, <3>1, <3>3, <3>6 DEF Grounded, Replaces
      <3> HIDE DEF claimed, plan, rest, item, tail
      <3>5. more \in Locals /\ more.plans = local.plans /\ more.items = tail /\ more.claimed = claimed
        BY <3>3, <3>4 DEF Locals
      <3> HIDE DEF more
      <3> QED
        BY <1>7, <3>1, <3>2, <3>4, <3>5 DEF Grounded
    <2> QED
      BY <1>2, <1>5, <1>6, <2>1, <2>3, <2>4, Zenon

-----------------------------------------------------------------------------
(* What the plan for a candidate has to be. *)
FitsCandidate(plan, p) ==
    /\ plan \in Plans /\ plan.new \in FreeMemories \cup {None} /\ plan.new \notin plan.targets
    /\ plan.item # None => plan.item \in HeldBy(proc[p]) \/ pending[plan.item].status # "gone"
    /\ PlanInv(plan, Ever \cup NewOf(proc[p].plans), Dead \cup ReplacedBy(proc[p].plans), due)

(* The decision on a candidate is about memories stored or planned. *)
LEMMA OverlayDecision ==
    ASSUME IInv, NEW p \in Process,
           NEW decision \in Decisions[(Active \cup NewOf(proc[p].plans)) \ ReplacedBy(proc[p].plans)]
    PROVE  /\ decision.action \in ActionName /\ decision.targets \subseteq Memory
           /\ decision.targets \subseteq Ever \cup NewOf(proc[p].plans)
           /\ decision.action \in {"defer", "update"} => decision.targets # {}
           /\ decision.targets \cap FreeMemories = {}
  <1> DEFINE asked == (Active \cup NewOf(proc[p].plans)) \ ReplacedBy(proc[p].plans)
  <1>1. Active \subseteq Ever /\ Ever \subseteq Memory
    BY EverIs DEF Ever
  <1>2. NewOf(proc[p].plans) \subseteq Memory
    <2> DEFINE plans == proc[p].plans
    <2>1. plans \in Seq(Plans)
      BY DEF IInv, TypeInv, Locals
    <2> HIDE DEF plans
    <2>2. NewOf(plans) \subseteq Memory
      <3>1. \A k \in DOMAIN plans : plans[k].new \in Memory \cup {None}
        <4> TAKE k \in DOMAIN plans
        <4>1. plans[k] \in Plans
          BY <2>1
        <4> QED
          BY <4>1 DEF Plans
      <3> QED
        BY <3>1 DEF NewOf
    <2> QED
      BY <2>2 DEF plans
  <1>3. asked \in SUBSET Memory /\ asked \subseteq Ever \cup NewOf(proc[p].plans) /\ asked \cap FreeMemories = {}
    BY <1>1, <1>2, FreeIs
  <1> HIDE DEF asked
  <1>4. /\ decision.action \in ActionName /\ decision.targets \subseteq asked
        /\ decision.action \in {"defer", "update"} => decision.targets # {}
    <2>1. decision \in Decisions[asked]
      BY DEF asked
    <2> QED
      BY <1>3, <2>1, DecisionIs
  <1> QED
    BY <1>3, <1>4

(* No row is one, too. *)
LEMMA AbsentIs == Absent \in Rows /\ Absent.targets = {} /\ Absent.status = "absent"
  <1> DEFINE frame == [d \in Dimension |-> Unknown]
  <1>1. frame \in Frames
    <2>1. Unknown \in Word
      <3> DEFINE said == UNION {{Frame[m][d] : d \in Dimension} : m \in Message}
      <3>1. Word = said \cup {Unknown}
        BY DEF Word
      <3> HIDE DEF said
      <3> QED
        BY <3>1
    <2> QED
      BY <2>1 DEF Frames
  <1>2. Absent = [status |-> "absent", frame |-> frame, group |-> <<>>, targets |-> {}, seen |-> {}]
    BY DEF Absent
  <1>3. <<>> \in Seq(Message)
    OBVIOUS
  <1> HIDE DEF frame
  <1> QED
    BY <1>1, <1>2, <1>3 DEF Rows, Status

(* A plan without an item. *)
LEMMA PlainPlanFits ==
    ASSUME IInv, NEW p \in Process,
           NEW decision \in Decisions[(Active \cup NewOf(proc[p].plans)) \ ReplacedBy(proc[p].plans)],
           IdsFor(decision), NEW plan, plan = Plan(decision, None, Absent)
    PROVE  FitsCandidate(plan, p)
  <1>1. /\ decision.action \in ActionName /\ decision.targets \subseteq Memory
        /\ decision.targets \subseteq Ever \cup NewOf(proc[p].plans)
        /\ decision.targets \cap FreeMemories = {}
    BY OverlayDecision
  <1>2. Absent \in Rows
    BY AbsentIs
  <1> DEFINE row == Absent
             item == None
  <1>3. plan = Plan(decision, item, row) /\ row \in Rows /\ item \in Item \cup {None} /\ item = None
    BY <1>2
  <1> HIDE DEF row, item
  <1>4. decision.action \in {"add", "update"} => FreeMemories # {}
    BY DEF IdsFor
  <1>5. /\ plan \in Plans /\ plan.action = decision.action /\ plan.targets = decision.targets
        /\ plan.item = item /\ plan.row = row
        /\ decision.action \in {"add", "update"} => plan.new \in FreeMemories
        /\ decision.action \notin {"add", "update"} => plan.new = None
    BY <1>1, <1>3, <1>4, PlanIs
  <1>6. plan.new \in FreeMemories \cup {None} /\ plan.new \notin plan.targets
    BY <1>1, <1>5, PendingResolutionAssumption
  <1> QED
    BY <1>1, <1>3, <1>5, <1>6 DEF FitsCandidate, PlanInv

(* A candidate that opens a group of its own. *)
LEMMA NewGroupFits ==
    ASSUME IInv, NEW p \in Process, NEW c \in Message, FreeItems # {},
           NEW decision \in Decisions[(Active \cup NewOf(proc[p].plans)) \ ReplacedBy(proc[p].plans)],
           decision.action = "defer",
           NEW plan, plan = Plan(decision, CHOOSE i \in FreeItems : TRUE,
                 [status |-> "open", frame |-> Frame[c], group |-> <<c>>,
                  targets |-> decision.targets, seen |-> {c}])
    PROVE  FitsCandidate(plan, p)
  <1> DEFINE E == Ever \cup NewOf(proc[p].plans)
             D == Dead \cup ReplacedBy(proc[p].plans)
             targets == decision.targets
             frame == Frame[c]
             group == <<c>>
             row == [status |-> "open", frame |-> frame, group |-> group, targets |-> targets, seen |-> {c}]
             item == CHOOSE i \in FreeItems : TRUE
  <1>1. /\ decision.action \in ActionName /\ decision.targets \subseteq Memory
        /\ targets \subseteq E /\ targets # {} /\ targets \in SUBSET Memory
    BY OverlayDecision
  <1>2. item \in Item /\ pending[item].status = "absent"
    BY DEF FreeItems
  <1>3. frame \in Frames /\ group \in Seq(Message) /\ group # <<>>
    BY FilledTyped
  <1>4. plan = Plan(decision, item, row)
    OBVIOUS
  <1> HIDE DEF item, frame, group, E, D, targets
  <1>5. /\ row \in Rows /\ row.status = "open" /\ row.targets = targets /\ row.group = group
    BY <1>1, <1>3 DEF Rows, Status
  <1> HIDE DEF row
  <1>6. /\ plan \in Plans /\ plan.action = decision.action /\ plan.targets = decision.targets
        /\ plan.item = item /\ plan.row = row
        /\ decision.action \in {"add", "update"} => plan.new \in FreeMemories
        /\ decision.action \notin {"add", "update"} => plan.new = None
    <2>1. item \in Item \cup {None} /\ (decision.action \in {"add", "update"} => FreeMemories # {})
      BY <1>2
    <2> QED
      BY <1>1, <1>4, <1>5, <2>1, PlanIs
  <1>7. plan.new = None /\ plan.new \notin plan.targets
    BY <1>1, <1>6, PendingResolutionAssumption
  <1>8. PlanInv(plan, E, D, due)
    BY <1>1, <1>3, <1>5, <1>6, <1>7 DEF PlanInv, RowInv
  <1> QED
    BY <1>2, <1>6, <1>7, <1>8 DEF FitsCandidate, E, D

(* A candidate that joins a group the write has deferred before. *)
LEMMA JoinedGroupFits ==
    ASSUME IInv, NEW p \in Process, NEW c \in Message,
           NEW decision \in Decisions[(Active \cup NewOf(proc[p].plans)) \ ReplacedBy(proc[p].plans)],
           decision.action = "defer", NEW g \in Groups(proc[p].plans),
           NEW plan, plan = Plan(decision, g.item,
                 [g.row EXCEPT !.group = Append(@, c), !.targets = @ \cup decision.targets,
                               !.seen = @ \cup {c}])
    PROVE  FitsCandidate(plan, p)
  <1> DEFINE plans == proc[p].plans
             E == Ever \cup NewOf(plans)
             D == Dead \cup ReplacedBy(plans)
             old == g.row
             group == Append(old.group, c)
             targets == old.targets \cup decision.targets
             seen == old.seen \cup {c}
             row == [old EXCEPT !.group = group, !.targets = targets, !.seen = seen]
             item == g.item
  <1>1. /\ decision.action \in ActionName /\ decision.targets \subseteq Memory
        /\ decision.targets \subseteq E /\ decision.targets # {}
    BY OverlayDecision
  <1>2. g \in Plans /\ item # None /\ pending[item].status = "absent" /\ PlanInv(g, E, D, due)
    <2>1. PICK k \in DOMAIN plans : g = plans[k] /\ plans[k].item # None /\ pending[plans[k].item].status = "absent"
      BY DEF Groups
    <2>2. plans \in Seq(Plans) /\ LocalInv(proc[p], Ever, Dead, due)
      BY DEF IInv, TypeInv, Locals
    <2>3. plans[k] \in Plans
      <3> HIDE DEF plans
      <3> QED
        BY <2>2
    <2> QED
      BY <2>1, <2>2, <2>3 DEF LocalInv
  <1>3. old \in Rows /\ item \in Item
    BY <1>2 DEF Plans
  <1>4. /\ old.status \in {"open"} \cup Terminal /\ old.group # <<>> /\ old.targets \subseteq E
        /\ old.status = "obsolete" => old.targets \cap D # {}
        /\ old.status = "expired" => item \in due
    BY <1>2 DEF PlanInv, RowInv
  <1>5. /\ group \in Seq(Message) /\ group # <<>> /\ targets \in SUBSET Memory /\ seen \in SUBSET Message
        /\ targets \subseteq E /\ targets # {} /\ old.targets \subseteq targets
    <2>1. old.group \in Seq(Message) /\ old.targets \in SUBSET Memory /\ old.seen \in SUBSET Message
      BY <1>3 DEF Rows
    <2> HIDE DEF old, E
    <2> QED
      BY <1>1, <1>4, <2>1
  <1>6. plan = Plan(decision, item, row)
    BY Zenon
  <1> HIDE DEF item, group, targets, seen, old, E, D
  <1>7. /\ row \in Rows /\ row.status = old.status /\ row.targets = targets /\ row.group = group
    BY <1>3, <1>5 DEF Rows
  <1> HIDE DEF row
  <1>8. /\ plan \in Plans /\ plan.action = decision.action /\ plan.targets = decision.targets
        /\ plan.item = item /\ plan.row = row
        /\ decision.action \in {"add", "update"} => plan.new \in FreeMemories
        /\ decision.action \notin {"add", "update"} => plan.new = None
    <2>1. item \in Item \cup {None} /\ (decision.action \in {"add", "update"} => FreeMemories # {})
      BY <1>3
    <2> QED
      BY <1>1, <1>6, <1>7, <2>1, PlanIs
  <1>9. plan.new = None /\ plan.new \notin plan.targets
    BY <1>1, <1>8, PendingResolutionAssumption
  <1>10. PlanInv(plan, E, D, due)
    <2>1. row.status = "obsolete" => row.targets \cap D # {}
      BY <1>4, <1>5, <1>7
    <2>2. row.status \in {"open"} \cup Terminal /\ RowInv(row, E)
      BY <1>4, <1>5, <1>7 DEF RowInv
    <2>3. (plan.action = "update" => plan.targets \subseteq E) /\ plan.new = None
      BY <1>8, <1>9
    <2>4. row.status = "expired" => item \in due
      BY <1>4, <1>7
    <2> QED
      BY <1>8, <2>1, <2>2, <2>3, <2>4 DEF PlanInv
  <1> QED
    BY <1>2, <1>8, <1>9, <1>10 DEF FitsCandidate, E, D

(* A step that decides on a candidate. *)
LEMMA PlanCandidateTakes ==
    ASSUME IInv, NEW p \in Process, PlanCandidate(p)
    PROVE  \E next : Takes(p, next) /\ Becomes(p, next)
  <1> DEFINE local == proc[p]
             overlay == (Active \cup NewOf(local.plans)) \ ReplacedBy(local.plans)
  <1>0. local.items = <<>>
    BY DEF PlanCandidate
  <1>1. PICK c \in local.candidates, decision \in Decisions[overlay] :
            LET left == [local EXCEPT !.candidates = @ \ {c}]
            IN \/ Becomes(p, Free)
               \/ /\ IdsFor(decision)
                  /\ \/ /\ decision.action = "defer"
                        /\ \E plan \in Collected(c, decision, local.plans) : Planned(p, plan, left)
                     \/ Planned(p, Plan(decision, None, Absent), left)
    BY Zenon DEF PlanCandidate
  <1> DEFINE candidates == local.candidates \ {c}
             left == [local EXCEPT !.candidates = candidates]
  <1>2. local \in Locals /\ candidates \in SUBSET Message /\ c \in Message
    BY DEF IInv, TypeInv, Locals
  <1>3. left \in Locals /\ left.plans = local.plans /\ left.items = local.items /\ left.claimed = local.claimed
    <2> HIDE DEF candidates, local
    <2> QED
      BY <1>2 DEF Locals
  <1>4. ASSUME NEW plan, FitsCandidate(plan, p), Planned(p, plan, left)
        PROVE  \E next : Takes(p, next) /\ Becomes(p, next)
    <2> DEFINE longer == Append(left.plans, plan)
               next == [left EXCEPT !.plans = longer]
    <2>1. Becomes(p, next)
      BY <1>4 DEF Planned
    <2>2. longer \in Seq(Plans) /\ longer = Append(local.plans, plan)
      <3>1. left.plans \in Seq(Plans) /\ plan \in Plans
        BY <1>2, <1>3, <1>4 DEF Locals, FitsCandidate
      <3> HIDE DEF left
      <3> QED
        BY <1>3, <3>1
    <2> HIDE DEF longer, left, overlay
    <2>3. /\ next \in Locals /\ next.plans = longer /\ next.items = left.items /\ next.claimed = left.claimed
      BY <1>3, <2>2 DEF Locals
    <2> HIDE DEF next
    <2>4. OneMore(local, next, plan)
      BY <1>3, <2>2, <2>3 DEF OneMore
    <2>5. Takes(p, next)
      <3> HIDE DEF local
      <3> QED
        BY <1>4, <2>3, <2>4, TakesPlan DEF FitsCandidate, local
    <2> QED
      BY <2>1, <2>5
  <1>5. CASE Becomes(p, Free)
    BY <1>5, TakesFree
  <1>6. CASE IdsFor(decision) /\ Planned(p, Plan(decision, None, Absent), left)
    <2> DEFINE plan == Plan(decision, None, Absent)
    <2>1. FitsCandidate(plan, p)
      BY <1>6, PlainPlanFits
    <2>2. Planned(p, plan, left)
      BY <1>6
    <2> HIDE DEF plan, left
    <2> QED
      BY <1>4, <2>1, <2>2
  <1>7. CASE /\ IdsFor(decision) /\ decision.action = "defer"
             /\ \E plan \in Collected(c, decision, local.plans) : Planned(p, plan, left)
    <2>1. PICK plan \in Collected(c, decision, local.plans) : Planned(p, plan, left)
      BY <1>7
    <2>2. FitsCandidate(plan, p)
      <3>1. CASE Joinable(c, decision, local.plans) = {}
        <4>1. plan = Plan(decision, CHOOSE i \in FreeItems : TRUE,
                 [status |-> "open", frame |-> Frame[c], group |-> <<c>>,
                  targets |-> decision.targets, seen |-> {c}])
          BY <2>1, <3>1 DEF Collected
        <4>2. FreeItems # {} /\ decision.action = "defer"
          BY <1>7 DEF IdsFor
        <4> QED
          BY <1>2, <4>1, <4>2, NewGroupFits
      <3>2. CASE Joinable(c, decision, local.plans) # {}
        <4>1. PICK g \in Joinable(c, decision, local.plans) :
                plan = Plan(decision, g.item,
                 [g.row EXCEPT !.group = Append(@, c), !.targets = @ \cup decision.targets,
                               !.seen = @ \cup {c}])
          BY <2>1, <3>2, Zenon DEF Collected
        <4>2. g \in Groups(local.plans) /\ decision.action = "defer"
          BY <1>7 DEF Joinable
        <4> QED
          BY <1>2, <4>1, <4>2, JoinedGroupFits
      <3> QED
        BY <3>1, <3>2
    <2> HIDE DEF left
    <2> QED
      BY <1>4, <2>1, <2>2
  <1> QED
    BY <1>1, <1>5, <1>6, <1>7, Zenon

-----------------------------------------------------------------------------
(* The tables as a transaction sees them. *)
DBs == [ok : BOOLEAN, active : SUBSET Memory, pending : [Item -> Rows], answers : [Item -> SUBSET Memory]]

IsApplied(after, db, plan) ==
    /\ after \in DBs
    /\ after.ok => db.ok /\ Applies(db, plan)
    /\ after.active = (db.active \ Replaces(plan)) \cup ({plan.new} \ {None})
    /\ \A i \in Item : after.pending[i] = IF i = plan.item THEN plan.row ELSE db.pending[i]
    /\ \A i \in Item : after.answers[i] =
          IF i = plan.item /\ plan.new # None THEN db.answers[i] \cup {plan.new} ELSE db.answers[i]

(* One plan applied, table by table. *)
LEMMA AppliedTyped ==
    ASSUME NEW db \in DBs, NEW plan \in Plans, NEW after, after = Applied(db, plan)
    PROVE  IsApplied(after, db, plan)
  <1> DEFINE ok == db.ok /\ Applies(db, plan)
             active == (db.active \ Replaces(plan)) \cup ({plan.new} \ {None})
             rows == IF plan.item = None THEN db.pending ELSE [db.pending EXCEPT ![plan.item] = plan.row]
             answered == IF plan.item = None \/ plan.new = None THEN db.answers
                         ELSE [db.answers EXCEPT ![plan.item] = @ \cup {plan.new}]
  <1>1. Applied(db, plan) = [ok |-> ok, active |-> active, pending |-> rows, answers |-> answered]
    BY Zenon DEF Applied, Replaces
  <1>2. /\ plan.item \in Item \cup {None} /\ plan.new \in Memory \cup {None} /\ plan.row \in Rows
        /\ None \notin Item
    BY PendingResolutionAssumption DEF Plans
  <1>3. db.active \in SUBSET Memory /\ db.pending \in [Item -> Rows] /\ db.answers \in [Item -> SUBSET Memory]
    BY DEF DBs
  <1>4. ok \in BOOLEAN
    BY DEF DBs
  <1>5. active \in SUBSET Memory
    BY <1>2, <1>3
  <1>6. rows \in [Item -> Rows] /\ \A i \in Item : rows[i] = IF i = plan.item THEN plan.row ELSE db.pending[i]
    BY <1>2, <1>3
  <1>7. /\ answered \in [Item -> SUBSET Memory]
        /\ \A i \in Item : answered[i] =
              IF i = plan.item /\ plan.new # None THEN db.answers[i] \cup {plan.new} ELSE db.answers[i]
    <2>1. CASE plan.item = None \/ plan.new = None
      BY <1>2, <1>3, <2>1
    <2>2. CASE ~(plan.item = None \/ plan.new = None)
      <3>1. answered = [db.answers EXCEPT ![plan.item] = @ \cup {plan.new}]
        BY <2>2
      <3> HIDE DEF answered
      <3>2. plan.item \in Item /\ {plan.new} \subseteq Memory
        BY <1>2, <2>2
      <3> QED
        BY <1>3, <2>2, <3>1, <3>2
    <2> QED
      BY <2>1, <2>2
  <1>8. ok => db.ok /\ Applies(db, plan)
    OBVIOUS
  <1>9. active = (db.active \ Replaces(plan)) \cup ({plan.new} \ {None})
    OBVIOUS
  <1>10. after = [ok |-> ok, active |-> active, pending |-> rows, answers |-> answered]
    BY <1>1
  <1> HIDE DEF ok, active, rows, answered
  <1>11. after \in DBs /\ after.ok = ok /\ after.active = active /\ after.pending = rows /\ after.answers = answered
    BY <1>4, <1>5, <1>6, <1>7, <1>10 DEF DBs
  <1>12. after.ok => db.ok /\ Applies(db, plan)
    BY <1>8, <1>11
  <1> QED
    BY <1>6, <1>7, <1>9, <1>11, <1>12 DEF IsApplied

(* Tables stay tables. *)
LEMMA AppliedIsDB == \A db \in DBs, plan \in Plans : Applied(db, plan) \in DBs
  BY AppliedTyped DEF IsApplied

(* The same as a recursive function, the way FoldLeft defines it. *)
ApplyFold(base, plans, it) ==
    it = [s \in SUBSET (DOMAIN plans) |->
            IF s = {} THEN base ELSE LET x == Max(s) IN Applied(it[s \ {x}], plans[x])]

(* db[k] is what the tables are after the first k plans. *)
AppliesInOrder(base, plans, db) ==
    /\ db[0] = base
    /\ \A k \in 1..Len(plans) : db[k] = Applied(db[k-1], plans[k])

(* Applying the plans one after the other goes through such states. *)
LEMMA PlansApplied ==
    ASSUME NEW base \in DBs, NEW plans \in Seq(Plans)
    PROVE  \E db \in [0..Len(plans) -> DBs] :
              AppliesInOrder(base, plans, db) /\ FoldLeft(Applied, base, plans) = db[Len(plans)]
  <1> DEFINE n == Len(plans)
             D == 1..n
             op == [q \in DBs \X (1..n) |-> Applied(q[1], plans[q[2]])]
             chosen == CHOOSE it : ApplyFold(base, plans, it)
  <1>1. n \in Nat /\ DOMAIN plans = D /\ \A k \in D : plans[k] \in Plans
    OBVIOUS
  <1>2. FoldLeft(Applied, base, plans) = chosen[D]
    <2>1. FoldLeft(Applied, base, plans) = chosen[DOMAIN plans]
      BY Zenon DEF FoldLeft, MapThenFoldSet, ApplyFold
    <2> QED
      BY <1>1, <2>1
  <1> HIDE DEF n
  <1>3. op \in [DBs \X D -> DBs] /\ \A v \in DBs, k \in D : op[<<v, k>>] = Applied(v, plans[k])
    BY <1>1, AppliedIsDB
  <1> HIDE DEF op, D
  <1>4. D = 1..n
    BY DEF D
  <1>5. IsFiniteSet(D) /\ \A T \in SUBSET D : T # {} => Max(T) \in T
    BY <1>1, <1>4, FirstOnes
  <1>a. PICK it \in [SUBSET D -> DBs] : IsLeftFold(base, op, D, it)
    BY <1>1, <1>3, <1>4, LeftFoldExists
  <1>6. ApplyFold(base, plans, it)
    <2>1. it = [T \in SUBSET D |-> it[T]] /\ \A T \in SUBSET D : it[T] \in DBs
      BY <1>a
    <2>2. ASSUME NEW T \in SUBSET D
          PROVE  it[T] = IF T = {} THEN base ELSE Applied(it[T \ {Max(T)}], plans[Max(T)])
      <3>1. CASE T = {}
        BY <1>a, <3>1 DEF IsLeftFold
      <3>2. CASE T # {}
        <4>1. Max(T) \in D /\ it[T \ {Max(T)}] \in DBs
          BY <1>5, <2>1, <3>2
        <4>2. it[T] = op[<<it[T \ {Max(T)}], Max(T)>>]
          BY <1>a, <3>2 DEF IsLeftFold
        <4> QED
          BY <1>3, <3>2, <4>1, <4>2
      <3> QED
        BY <3>1, <3>2
    <2>3. it = [T \in SUBSET D |-> IF T = {} THEN base ELSE Applied(it[T \ {Max(T)}], plans[Max(T)])]
      BY <2>1, <2>2
    <2> QED
      BY <1>1, <2>3 DEF ApplyFold
  <1>7. ApplyFold(base, plans, chosen)
    BY <1>6, Zenon
  <1> HIDE DEF chosen
  <1>8. \A T \in SUBSET D : chosen[T] = IF T = {} THEN base ELSE Applied(chosen[T \ {Max(T)}], plans[Max(T)])
    BY <1>1, <1>7 DEF ApplyFold
  <1> DEFINE db == [k \in 0..n |-> chosen[1..k]]
  <1>9. ASSUME NEW k \in 0..n PROVE db[k] = chosen[1..k] /\ (1..k) \in SUBSET D
    BY <1>1, <1>4
  <1>10. db[0] = base
    <2>1. 0 \in 0..n /\ 1..0 = {} /\ {} \in SUBSET D
      BY <1>1
    <2>2. db[0] = chosen[{}]
      BY <1>9, <2>1
    <2> HIDE DEF db
    <2> QED
      BY <1>8, <2>1, <2>2
  <1>11. ASSUME NEW k \in 1..n PROVE db[k] = Applied(db[k-1], plans[k])
    <2>1. k \in Nat /\ k > 0 /\ k \in 0..n /\ k - 1 \in 0..n
      BY <1>1
    <2>2. Max(1..k) = k /\ (1..k) \ {k} = 1..(k-1)
      BY <2>1, MaxOfFirst
    <2>3. db[k] = chosen[1..k] /\ db[k-1] = chosen[1..(k-1)] /\ (1..k) \in SUBSET D
      BY <1>9, <2>1
    <2> HIDE DEF db
    <2>4. 1..k # {}
      BY <2>1
    <2> DEFINE T == 1..k
    <2>5. T \in SUBSET D /\ T # {} /\ Max(T) = k /\ T \ {k} = 1..(k-1)
      BY <2>2, <2>3, <2>4
    <2> HIDE DEF T
    <2>6. chosen[T] = Applied(chosen[T \ {Max(T)}], plans[Max(T)])
      BY <1>8, <2>5
    <2>7. chosen[T] = Applied(chosen[1..(k-1)], plans[k])
      BY <2>5, <2>6
    <2> QED
      BY <2>3, <2>7 DEF T
  <1>12. db = [k \in 0..n |-> db[k]]
    OBVIOUS
  <1>13. db[n] = chosen[D]
    <2>1. n \in 0..n
      BY <1>1
    <2> QED
      BY <1>4, <1>9, <2>1
  <1> HIDE DEF db
  <1> DEFINE Bad == {k \in 0..n : db[k] \notin DBs}
  <1>14. ASSUME Bad # {} PROVE FALSE
    <2>1. Bad \subseteq Nat
      OBVIOUS
    <2>2. PICK k \in Bad : \A y \in Bad : k <= y
      BY <1>14, <2>1, LeastExists
    <2>3. k # 0 /\ k \in 1..n /\ k - 1 \in 0..n
      BY <1>1, <1>10, <2>2
    <2>4. k - 1 \notin Bad
      <3>1. k \in Nat /\ k - 1 \in Nat
        BY <1>1, <2>3
      <3> HIDE DEF Bad
      <3> QED
        BY <2>2, <3>1
    <2>5. db[k-1] \in DBs /\ plans[k] \in Plans
      BY <1>1, <1>4, <2>3, <2>4
    <2>6. Applied(db[k-1], plans[k]) \in DBs
      BY <2>5, AppliedIsDB
    <2> QED
      BY <1>11, <2>2, <2>3, <2>6
  <1>15. db \in [0..n -> DBs]
    BY <1>12, <1>14
  <1>16. AppliesInOrder(base, plans, db) /\ FoldLeft(Applied, base, plans) = db[n]
    BY <1>2, <1>10, <1>11, <1>13 DEF AppliesInOrder, n
  <1> QED
    BY <1>15, <1>16 DEF n

-----------------------------------------------------------------------------
(* What the tables are after the first k plans of a write, in terms of what *)
(* they were: active are no memories but those and the planned ones, none   *)
(* that a plan so far replaces, and each row is the stored or a planned one. *)
AppliedInv(db, plans, k) ==
    /\ db.active \subseteq Active \cup NewOf(plans)
    /\ \A j \in 1..k : plans[j].action = "update" => plans[j].targets \cap db.active = {}
    /\ \A i \in Item :
          \/ db.pending[i] = pending[i]
          \/ \E j \in DOMAIN plans : plans[j].item = i /\ db.pending[i] = plans[j].row

(* An item with an answer is resolved, unless its row is deleted. *)
AnswerStands(rows, given) ==
    \A i \in Item : given[i] # {} => rows[i].status \in {"resolved", "gone"}

(* No plan saves a row that was deleted. *)
SavesStored(plans) ==
    \A k \in DOMAIN plans : plans[k].item # None => pending[plans[k].item].status # "gone"

Grounds(plans) ==
    \A k \in DOMAIN plans : PlanInv(plans[k], Ever \cup NewOf(plans), Dead \cup ReplacedBy(plans), due)

(* One plan more. *)
LEMMA OneApplied ==
    ASSUME NEW plans \in Seq(Plans), OrderInv(plans), NEW k \in 1..Len(plans),
           NEW db \in DBs, AppliedInv(db, plans, k - 1), NEW after, after = Applied(db, plans[k])
    PROVE  AppliedInv(after, plans, k)
  <1> DEFINE plan == plans[k]
  <1>1. plan \in Plans /\ k \in DOMAIN plans /\ DOMAIN plans = 1..Len(plans) /\ k \in Nat
    OBVIOUS
  <1>2. /\ after \in DBs
        /\ after.active = (db.active \ Replaces(plan)) \cup ({plan.new} \ {None})
        /\ \A i \in Item : after.pending[i] = IF i = plan.item THEN plan.row ELSE db.pending[i]
    <2>1. after = Applied(db, plan)
      OBVIOUS
    <2>2. IsApplied(after, db, plan)
      <3> HIDE DEF plan
      <3> QED
        BY <1>1, <2>1, AppliedTyped
    <2> QED
      BY <2>2 DEF IsApplied
  <1>3. plan.new # None => plan.new \in NewOf(plans)
    BY <1>1 DEF NewOf
  <1>4. after.active \subseteq Active \cup NewOf(plans)
    BY <1>2, <1>3 DEF AppliedInv
  <1>5. ASSUME NEW j \in 1..k, plans[j].action = "update"
        PROVE  plans[j].targets \cap after.active = {}
    <2>1. j \in DOMAIN plans /\ j <= k
      BY <1>1
    <2>2. plan.new \notin plans[j].targets
      BY <1>1, <1>5, <2>1 DEF OrderInv
    <2>3. plans[j].targets \cap (db.active \ Replaces(plan)) = {}
      <3>1. CASE j = k
        BY <1>5, <3>1 DEF Replaces
      <3>2. CASE j # k
        <4>1. j \in 1..(k-1)
          BY <1>1, <3>2
        <4> QED
          BY <1>5, <4>1 DEF AppliedInv
      <3> QED
        BY <3>1, <3>2
    <2> QED
      BY <1>2, <2>2, <2>3
  <1>6. ASSUME NEW i \in Item
        PROVE  \/ after.pending[i] = pending[i]
               \/ \E j \in DOMAIN plans : plans[j].item = i /\ after.pending[i] = plans[j].row
    <2>1. CASE i = plan.item
      BY <1>1, <1>2, <2>1
    <2>2. CASE i # plan.item
      BY <1>2, <2>2 DEF AppliedInv
    <2> QED
      BY <2>1, <2>2
  <1> QED
    BY <1>4, <1>5, <1>6 DEF AppliedInv

(* An answer is kept with the row it resolves: the save of another outcome *)
(* over a resolved row does not apply.                                     *)
LEMMA OneAnswered ==
    ASSUME NEW plans \in Seq(Plans), Grounds(plans), SavesStored(plans), NEW k \in 1..Len(plans),
           NEW db \in DBs, AppliedInv(db, plans, k - 1), NEW after, after = Applied(db, plans[k]), after.ok,
           AnswerStands(db.pending, db.answers)
    PROVE  db.ok /\ AnswerStands(after.pending, after.answers)
  <1> DEFINE plan == plans[k]
  <1>1. plan \in Plans /\ k \in DOMAIN plans
    OBVIOUS
  <1>2. /\ after.ok => db.ok /\ Applies(db, plan)
        /\ \A i \in Item : after.pending[i] = IF i = plan.item THEN plan.row ELSE db.pending[i]
        /\ \A i \in Item : after.answers[i] =
              IF i = plan.item /\ plan.new # None THEN db.answers[i] \cup {plan.new} ELSE db.answers[i]
    <2>1. after = Applied(db, plan)
      OBVIOUS
    <2>2. IsApplied(after, db, plan)
      <3> HIDE DEF plan
      <3> QED
        BY <1>1, <2>1, AppliedTyped
    <2> QED
      BY <2>2 DEF IsApplied
  <1>3. PlanInv(plan, Ever \cup NewOf(plans), Dead \cup ReplacedBy(plans), due)
    BY <1>1 DEF Grounds
  <1>4. \A j \in DOMAIN plans : plans[j].item # None => plans[j].row.status # "gone"
    <2>1. \A j \in DOMAIN plans : plans[j].item # None => plans[j].row.status \in {"open"} \cup Terminal
      BY DEF Grounds, PlanInv
    <2> QED
      BY <2>1 DEF Terminal
  <1>5. ASSUME NEW i \in Item, after.answers[i] # {}
        PROVE  after.pending[i].status \in {"resolved", "gone"}
    <2>1. CASE i # plan.item
      <3>1. after.answers[i] = db.answers[i] /\ after.pending[i] = db.pending[i]
        BY <1>2, <2>1
      <3> QED
        BY <1>5, <3>1 DEF AnswerStands
    <2>2. CASE i = plan.item
      <3>1. after.pending[i] = plan.row /\ plan.item # None
        BY <1>2, <2>2, PendingResolutionAssumption
      <3>2. CASE plan.new # None
        BY <1>3, <3>1, <3>2 DEF PlanInv
      <3>3. CASE plan.new = None
        <4>1. db.answers[i] # {}
          BY <1>2, <1>5, <2>2, <3>3
        <4>2. db.pending[i].status \in {"resolved", "gone"}
          BY <4>1 DEF AnswerStands
        <4>3. db.pending[i].status # "gone"
          <5>1. pending[i].status # "gone"
            BY <1>1, <2>2, <3>1 DEF SavesStored
          <5> QED
            BY <1>4, <5>1, PendingResolutionAssumption DEF AppliedInv
        <4>4. Savable(db.pending[i], plan.row)
          BY <1>2, <2>2, <3>1 DEF Applies
        <4> QED
          BY <3>1, <4>2, <4>3, <4>4 DEF Savable, Terminal
      <3> QED
        BY <3>2, <3>3
    <2> QED
      BY <2>1, <2>2
  <1> QED
    BY <1>2, <1>5 DEF AnswerStands

(* The tables a write starts from, and those it ends with. *)
Stands == [ok |-> TRUE, active |-> Active, pending |-> pending, answers |-> answers]
Ended(plans) == FoldLeft(Applied, Stands, plans)

(* Both hold of the tables a write ends with. *)
LEMMA CommitEnds ==
    ASSUME TypeInv, NEW plans \in Seq(Plans), OrderInv(plans)
    PROVE  /\ Ended(plans) \in DBs /\ AppliedInv(Ended(plans), plans, Len(plans))
           /\ Grounds(plans) /\ SavesStored(plans) /\ AnswerStands(pending, answers) /\ Ended(plans).ok
                 => AnswerStands(Ended(plans).pending, Ended(plans).answers)
  <1> DEFINE n == Len(plans)
             answered(d) == /\ Grounds(plans) /\ SavesStored(plans) /\ AnswerStands(pending, answers) /\ d.ok
                                 => AnswerStands(d.pending, d.answers)
  <1>1. Stands \in DBs
    <2>1. Active \in SUBSET Memory
      BY DEF Active
    <2> QED
      BY <2>1 DEF TypeInv, Stands, DBs
  <1>2. PICK db \in [0..n -> DBs] : AppliesInOrder(Stands, plans, db) /\ FoldLeft(Applied, Stands, plans) = db[n]
    BY <1>1, PlansApplied
  <1>3. n \in Nat /\ n = Len(plans)
    OBVIOUS
  <1>4. /\ db[0] = Stands
        /\ \A k \in 1..n : db[k] = Applied(db[k-1], plans[k])
    BY <1>2 DEF AppliesInOrder
  <1> HIDE DEF n
  <1> DEFINE Bad == {k \in 0..n : ~(AppliedInv(db[k], plans, k) /\ answered(db[k]))}
  <1>5. ASSUME Bad # {} PROVE FALSE
    <2>1. Bad \subseteq Nat
      OBVIOUS
    <2>2. PICK k \in Bad : \A y \in Bad : k <= y
      BY <1>5, <2>1, LeastExists
    <2>3. AppliedInv(db[0], plans, 0) /\ answered(db[0])
      BY <1>4 DEF AppliedInv, Stands
    <2>4. k # 0 /\ k \in 1..n /\ k - 1 \in 0..n /\ k \in Nat
      BY <1>3, <2>2, <2>3
    <2>5. k - 1 \notin Bad
      <3>1. k \in Nat /\ k - 1 \in Nat
        BY <2>4
      <3> HIDE DEF Bad
      <3> QED
        BY <2>2, <3>1
    <2>6. AppliedInv(db[k-1], plans, k - 1) /\ answered(db[k-1]) /\ db[k-1] \in DBs
      BY <1>2, <2>4, <2>5
    <2> DEFINE before == db[k-1]
               after == db[k]
    <2>7. after = Applied(before, plans[k]) /\ before \in DBs /\ AppliedInv(before, plans, k - 1)
          /\ k \in 1..Len(plans) /\ answered(before)
      BY <1>3, <1>4, <2>4, <2>6
    <2> HIDE DEF before, after, answered
    <2>8. AppliedInv(after, plans, k)
      BY <2>7, OneApplied
    <2>9. answered(after)
      <3> DEFINE plan == plans[k]
      <3>1. plan \in Plans /\ after = Applied(before, plan)
        BY <2>7
      <3> HIDE DEF plan
      <3>2. after.ok => before.ok
        BY <2>7, <3>1, AppliedTyped DEF IsApplied
      <3> QED
        BY <2>7, <3>2, OneAnswered DEF answered
    <2> QED
      BY <2>2, <2>8, <2>9 DEF after
  <1>6. n \in 0..n
    BY <1>3
  <1>7. AppliedInv(db[n], plans, n) /\ answered(db[n]) /\ db[n] \in DBs
    BY <1>2, <1>5, <1>6
  <1>8. Ended(plans) = db[n]
    BY <1>2 DEF Ended
  <1> QED
    BY <1>3, <1>7, <1>8

-----------------------------------------------------------------------------
(* The invariant holds at first. *)
LEMMA InitInv == Init => IInv
  <1> SUFFICES ASSUME Init PROVE IInv
    OBVIOUS
  <1>1. \A p \in Process : proc[p] = Free
    BY DEF Init
  <1>2. ASSUME NEW i \in Item
        PROVE  pending[i] \in Rows /\ StoredInv(i)
    <2>1. CASE i \in Waiting
      <3> DEFINE c == Deferred[i]
                 row == [status |-> "open", frame |-> Frame[c], group |-> <<c>>,
                         targets |-> Conflicts[i], seen |-> {c}]
      <3>1. c \in Message /\ Conflicts[i] \in SUBSET Stored /\ Conflicts[i] # {}
        BY <2>1, PendingResolutionAssumption
      <3>2. pending[i] = row
        BY <2>1, Zenon DEF Init
      <3>3. Frame[c] \in Frames /\ Stored \subseteq Memory
        BY <3>1, FilledTyped, PendingResolutionAssumption
      <3>4. Stored \subseteq Ever
        BY <3>3 DEF Init, Ever
      <3> DEFINE group == <<c>>
                 targets == Conflicts[i]
                 frame == Frame[c]
      <3>5. group \in Seq(Message) /\ group # <<>> /\ targets \in SUBSET Memory /\ targets # {} /\ targets \subseteq Ever
        BY <3>1, <3>3, <3>4
      <3>6. row = [status |-> "open", frame |-> frame, group |-> group, targets |-> targets, seen |-> {c}]
        OBVIOUS
      <3>7. frame \in Frames
        BY <3>3
      <3> HIDE DEF row, group, targets, frame, c
      <3>8. row \in Rows /\ row.status = "open" /\ row.group = group /\ row.targets = targets
        BY <3>1, <3>5, <3>6, <3>7 DEF Rows, Status
      <3> QED
        BY <3>2, <3>5, <3>8 DEF StoredInv, RowStands
    <2>2. CASE i \notin Waiting
      <3>1. pending[i] = Absent
        BY <2>2, Zenon DEF Init
      <3> QED
        BY <3>1, AbsentIs DEF StoredInv, RowStands
    <2> QED
      BY <2>1, <2>2
  <1>3. TypeInv
    <2>1. pending \in [Item -> Rows]
      <3>1. pending = [i \in Item |-> pending[i]]
        BY Zenon DEF Init
      <3> QED
        BY <1>2, <3>1
    <2>2. proc \in [Process -> Locals]
      <3>1. proc = [p \in Process |-> Free] /\ Free \in Locals
        BY FreeHoldsNothing DEF Init
      <3> QED
        BY <3>1
    <2>3. writes \in 0..MaxWrites
      BY PendingResolutionAssumption DEF Init
    <2>4. memory \in [Memory -> {"none", "active", "history", "deleted"}] /\ due \subseteq Item
      BY DEF Init
    <2>5. answers \in [Item -> SUBSET Memory]
      BY DEF Init
    <2> QED
      BY <2>1, <2>2, <2>3, <2>4, <2>5 DEF TypeInv
  <1> QED
    BY <1>1, <1>2, <1>3, FreeHoldsNothing DEF IInv

-----------------------------------------------------------------------------
(* A step of a write that leaves the tables alone. *)
LEMMA TakesStep ==
    ASSUME IInv, NEW p \in Process, NEW next, Takes(p, next), Becomes(p, next),
           UNCHANGED <<memory, pending, due, answers>>, writes' \in 0..MaxWrites
    PROVE  IInv'
  <1>1. \A q \in Process : proc'[q] = IF q = p THEN next ELSE proc[q]
    BY DEF Becomes, IInv, TypeInv
  <1>2. TypeInv'
    <2>1. proc' \in [Process -> Locals]
      BY DEF Becomes, IInv, TypeInv, Takes
    <2> QED
      BY <2>1 DEF IInv, TypeInv
  <1>3. Ever' = Ever /\ Dead' = Dead /\ due' = due
    BY DEF Ever, Dead
  <1>4. \A i \in Item : StoredInv(i)'
    BY <1>3 DEF IInv, StoredInv
  <1>5. ASSUME NEW q \in Process
        PROVE  LocalInv(proc'[q], Ever', Dead', due') /\ NewOf(proc'[q].plans) \cap Ever' = {}
    BY <1>1, <1>3 DEF IInv, Takes
  <1>6. ASSUME NEW q \in Process, NEW r \in Process, q # r
        PROVE  NewOf(proc'[q].plans) \cap NewOf(proc'[r].plans) = {}
    <2>1. NewOf(proc[q].plans) \cap NewOf(proc[r].plans) = {}
      BY <1>6 DEF IInv
    <2>2. CASE q = p
      BY <1>1, <1>6, <2>2 DEF Takes
    <2>3. CASE r = p
      BY <1>1, <1>6, <2>3 DEF Takes
    <2>4. CASE q # p /\ r # p
      BY <1>1, <2>1, <2>4
    <2> QED
      BY <2>2, <2>3, <2>4
  <1> QED
    BY <1>2, <1>4, <1>5, <1>6 DEF IInv

(* A step that leaves the writes alone. *)
LEMMA TablesStep ==
    ASSUME IInv, TypeInv', proc' = proc, Ever' = Ever, Dead \subseteq Dead', due \subseteq due',
           \A i \in Item : StoredInv(i)'
    PROVE  IInv'
  <1> DEFINE D2 == Dead'
             U2 == due'
  <1>1. Dead \subseteq D2 /\ due \subseteq U2
    OBVIOUS
  <1> HIDE DEF D2, U2
  <1>2. ASSUME NEW q \in Process PROVE LocalInv(proc[q], Ever, D2, U2)
    <2> DEFINE l == proc[q]
    <2>1. LocalInv(l, Ever, Dead, due)
      BY DEF IInv
    <2> HIDE DEF l
    <2>2. LocalInv(l, Ever, D2, U2)
      BY <1>1, <2>1, LocalMonotone
    <2> QED
      BY <2>2 DEF l
  <1>3. \A q \in Process : LocalInv(proc'[q], Ever', Dead', due') /\ NewOf(proc'[q].plans) \cap Ever' = {}
    BY <1>2 DEF D2, U2, IInv
  <1>4. \A q \in Process : \A r \in Process : q # r => NewOf(proc'[q].plans) \cap NewOf(proc'[r].plans) = {}
    BY DEF IInv
  <1> QED
    BY <1>3, <1>4 DEF IInv

(* An item that passes its expiry. *)
LEMMA ExpireStep ==
    ASSUME IInv, NEW i \in Item, Expire(i)
    PROVE  IInv'
  <1>1. /\ due' = due \cup {i} /\ memory' = memory /\ pending' = pending /\ answers' = answers
        /\ proc' = proc /\ writes' = writes
    BY DEF Expire
  <1>2. Ever' = Ever /\ Dead' = Dead
    BY <1>1 DEF Ever, Dead
  <1>3. TypeInv'
    BY <1>1 DEF IInv, TypeInv
  <1>4. ASSUME NEW j \in Item PROVE StoredInv(j)'
    <2>1. RowStands(pending[j], j, Ever, Dead, due) /\ due \subseteq due'
      BY <1>1 DEF IInv, StoredInv
    <2>2. RowStands(pending[j], j, Ever, Dead, due')
      BY <2>1 DEF RowStands
    <2> QED
      BY <1>1, <1>2, <2>2 DEF StoredInv
  <1> QED
    BY <1>1, <1>2, <1>3, <1>4, TablesStep

(* The sweep closes an item for a cause: its targets were all stored once, *)
(* so if none is active, one is history or deleted.                        *)
LEMMA SweepStep ==
    ASSUME IInv, Sweep
    PROVE  IInv'
  <1>1. /\ due' = due /\ memory' = memory /\ answers' = answers
        /\ proc' = proc /\ writes' = writes
        /\ pending' = [i \in Item |->
              IF i \in Open THEN [pending[i] EXCEPT !.status = Swept(i)] ELSE pending[i]]
    BY DEF Sweep
  <1>2. Ever' = Ever /\ Dead' = Dead
    BY <1>1 DEF Ever, Dead
  <1>3. ASSUME NEW i \in Item
        PROVE  pending'[i] \in Rows /\ RowStands(pending'[i], i, Ever, Dead, due)
    <2>1. pending[i] \in Rows /\ RowStands(pending[i], i, Ever, Dead, due)
      BY DEF IInv, TypeInv, StoredInv
    <2>2. CASE i \notin Open
      BY <1>1, <2>1, <2>2
    <2>3. CASE i \in Open
      <3> DEFINE status == Swept(i)
                 row == pending[i]
                 after == [row EXCEPT !.status = status]
      <3>1. row.status = "open" /\ row.targets # {} /\ row.group # <<>> /\ row.targets \subseteq Ever
        BY <2>1, <2>3 DEF Open, RowStands
      <3>2. /\ status \in {"open", "expired", "obsolete"}
            /\ status = "expired" => i \in due
            /\ status = "obsolete" => row.targets \cap Active = {}
        BY DEF Swept
      <3>3. status = "obsolete" => row.targets \cap Dead # {}
        BY <3>1, <3>2, EverIs
      <3>4. pending'[i] = after
        BY <1>1, <2>3
      <3>5. row \in Rows /\ status \in Status
        BY <2>1, <3>2 DEF Status, Terminal
      <3> HIDE DEF status, row
      <3>6. after \in Rows /\ after.status = status /\ after.targets = row.targets /\ after.group = row.group
        BY <3>5 DEF Rows
      <3> HIDE DEF after
      <3>7. RowStands(after, i, Ever, Dead, due)
        BY <3>1, <3>2, <3>3, <3>6 DEF RowStands
      <3> QED
        BY <3>4, <3>6, <3>7
    <2> QED
      BY <2>2, <2>3
  <1>4. TypeInv'
    <2>1. pending' \in [Item -> Rows]
      <3>1. pending' = [i \in Item |-> pending'[i]]
        BY <1>1
      <3> QED
        BY <1>3, <3>1
    <2> QED
      BY <1>1, <2>1 DEF IInv, TypeInv
  <1>5. \A j \in Item : StoredInv(j)'
    BY <1>1, <1>2, <1>3 DEF StoredInv
  <1> QED
    BY <1>1, <1>2, <1>4, <1>5, TablesStep

(* A row that is deleted says nothing more. *)
LEMMA CleanupStep ==
    ASSUME IInv, NEW i \in Item, Cleanup(i)
    PROVE  IInv'
  <1> DEFINE row == [Absent EXCEPT !.status = "gone"]
  <1>1. /\ due' = due /\ memory' = memory /\ answers' = answers
        /\ proc' = proc /\ writes' = writes
        /\ pending' = [pending EXCEPT ![i] = row]
    BY DEF Cleanup
  <1>2. Ever' = Ever /\ Dead' = Dead
    BY <1>1 DEF Ever, Dead
  <1>3. row \in Rows /\ row.status = "gone" /\ row.targets = {}
    BY AbsentIs DEF Rows, Status
  <1> HIDE DEF row
  <1>4. pending \in [Item -> Rows]
    BY DEF IInv, TypeInv
  <1>5. pending' \in [Item -> Rows] /\ \A j \in Item : pending'[j] = IF j = i THEN row ELSE pending[j]
    BY <1>1, <1>3, <1>4
  <1>6. TypeInv'
    BY <1>1, <1>5 DEF IInv, TypeInv
  <1>7. ASSUME NEW j \in Item PROVE StoredInv(j)'
    <2>1. RowStands(pending[j], j, Ever, Dead, due)
      BY DEF IInv, StoredInv
    <2>2. RowStands(row, j, Ever, Dead, due)
      BY <1>3 DEF RowStands
    <2> QED
      BY <1>1, <1>2, <1>5, <2>1, <2>2 DEF StoredInv
  <1> QED
    BY <1>1, <1>2, <1>6, <1>7, TablesStep

(* A memory that a user deletes is no longer current. *)
LEMMA ForgetStep ==
    ASSUME IInv, NEW m \in Memory, Forget(m)
    PROVE  IInv'
  <1>1. /\ due' = due /\ pending' = pending /\ answers' = answers
        /\ proc' = proc /\ writes' = writes
        /\ memory[m] \in {"active", "history"}
        /\ memory' = [memory EXCEPT ![m] = "deleted"]
    BY DEF Forget
  <1>2. memory \in [Memory -> {"none", "active", "history", "deleted"}]
    BY DEF IInv, TypeInv
  <1>3. \A x \in Memory : memory'[x] = IF x = m THEN "deleted" ELSE memory[x]
    BY <1>1, <1>2
  <1>4. Ever' = Ever /\ Dead \subseteq Dead'
    BY <1>1, <1>3 DEF Ever, Dead
  <1>5. TypeInv'
    BY <1>1, <1>2 DEF IInv, TypeInv
  <1>6. ASSUME NEW j \in Item PROVE StoredInv(j)'
    <2>1. RowStands(pending[j], j, Ever, Dead, due)
      BY DEF IInv, StoredInv
    <2>2. RowStands(pending[j], j, Ever, Dead', due)
      BY <1>4, <2>1 DEF RowStands
    <2> QED
      BY <1>1, <1>4, <2>2 DEF StoredInv
  <1> QED
    BY <1>1, <1>4, <1>5, <1>6, TablesStep

-----------------------------------------------------------------------------
(* What a commit that applies makes of the memories: all that were planned  *)
(* have been stored, and none that was replaced is active.                  *)
LEMMA CommitMemories ==
    ASSUME IInv, NEW p \in Process, NEW plans, plans = proc[p].plans, NEW db, db = Ended(plans),
           memory' = [m \in Memory |->
                        IF m \in db.active THEN "active"
                        ELSE IF m \in Active \cup NewOf(plans) THEN "history" ELSE memory[m]]
    PROVE  /\ memory' \in [Memory -> {"none", "active", "history", "deleted"}]
           /\ Ever' = Ever \cup NewOf(plans)
           /\ Dead \cup ReplacedBy(plans) \subseteq Dead'
           /\ db \in DBs /\ AppliedInv(db, plans, Len(plans))
  <1>1. /\ plans \in Seq(Plans) /\ OrderInv(plans) /\ TypeInv /\ LocalInv(proc[p], Ever, Dead, due)
        /\ NewOf(plans) \cap Ever = {} /\ Grounds(plans)
    BY DEF IInv, TypeInv, Locals, LocalInv, Grounds
  <1>2. db \in DBs /\ AppliedInv(db, plans, Len(plans))
    BY <1>1, CommitEnds
  <1>3. /\ db.active \subseteq Active \cup NewOf(plans)
        /\ \A j \in DOMAIN plans : plans[j].action = "update" => plans[j].targets \cap db.active = {}
    <2>1. DOMAIN plans = 1..Len(plans)
      BY <1>1
    <2> QED
      BY <1>2, <2>1 DEF AppliedInv
  <1>4. ReplacedBy(plans) \cap db.active = {}
    BY <1>3 DEF ReplacedBy
  <1>5. ReplacedBy(plans) \subseteq Ever \cup NewOf(plans)
    <2>1. \A j \in DOMAIN plans : plans[j].action = "update" => plans[j].targets \subseteq Ever \cup NewOf(plans)
      BY <1>1 DEF Grounds, PlanInv
    <2> QED
      BY <2>1 DEF ReplacedBy
  <1>6. memory \in [Memory -> {"none", "active", "history", "deleted"}]
    BY <1>1 DEF TypeInv
  <1>7. NewOf(plans) \subseteq Memory
    <2>1. \A k \in DOMAIN plans : plans[k].new \in Memory \cup {None}
      <3> TAKE k \in DOMAIN plans
      <3>1. plans[k] \in Plans
        BY <1>1
      <3> QED
        BY <3>1 DEF Plans
    <2> QED
      BY <2>1 DEF NewOf
  <1>8. \A m \in Memory : memory'[m] = IF m \in db.active THEN "active"
                        ELSE IF m \in Active \cup NewOf(plans) THEN "history" ELSE memory[m]
    OBVIOUS
  <1>9. memory' \in [Memory -> {"none", "active", "history", "deleted"}]
    BY <1>6
  <1> DEFINE N == NewOf(plans)
             R == ReplacedBy(plans)
             A == db.active
  <1>10. /\ \A m \in Memory : memory'[m] = IF m \in A THEN "active"
                        ELSE IF m \in Active \cup N THEN "history" ELSE memory[m]
         /\ A \subseteq Active \cup N /\ R \cap A = {} /\ R \subseteq Ever \cup N /\ N \subseteq Memory
         /\ N \cap Ever = {}
    BY <1>1, <1>3, <1>4, <1>5, <1>7, <1>8
  <1> HIDE DEF N, R, A
  <1>11. Ever' = Ever \cup N
    BY <1>10 DEF Ever, Active
  <1>12. Dead \cup R \subseteq Dead'
    BY <1>6, <1>10 DEF Dead, Ever, Active
  <1> QED
    BY <1>2, <1>9, <1>11, <1>12 DEF N, R

(* A commit keeps the invariant: the rows it saves stand, and those of the *)
(* other writes rest on no less than before.                               *)
LEMMA CommitStep ==
    ASSUME IInv, NEW p \in Process, Commit(p)
    PROVE  IInv'
  <1> DEFINE plans == proc[p].plans
             db == Ended(plans)
  <1>1. /\ Becomes(p, Free) /\ due' = due /\ writes' = writes
        /\ \/ /\ memory' = [m \in Memory |->
                        IF m \in db.active THEN "active"
                        ELSE IF m \in Active \cup NewOf(plans) THEN "history" ELSE memory[m]]
              /\ pending' = db.pending
              /\ answers' = db.answers
           \/ UNCHANGED <<memory, pending, answers>>
    BY Zenon DEF Commit, Ended, Stands
  <1>2. CASE UNCHANGED <<memory, pending, answers>>
    <2>1. writes' \in 0..MaxWrites
      BY <1>1 DEF IInv, TypeInv
    <2> QED
      BY <1>1, <1>2, <2>1, TakesFree, TakesStep
  <1>3. CASE /\ memory' = [m \in Memory |->
                        IF m \in db.active THEN "active"
                        ELSE IF m \in Active \cup NewOf(plans) THEN "history" ELSE memory[m]]
             /\ pending' = db.pending
             /\ answers' = db.answers
    <2>1. /\ memory' \in [Memory -> {"none", "active", "history", "deleted"}]
          /\ Ever' = Ever \cup NewOf(plans)
          /\ Dead \cup ReplacedBy(plans) \subseteq Dead'
          /\ db \in DBs /\ AppliedInv(db, plans, Len(plans))
      BY <1>3, CommitMemories
    <2>2. \A q \in Process : proc'[q] = IF q = p THEN Free ELSE proc[q]
      BY <1>1 DEF Becomes, IInv, TypeInv
    <2>3. TypeInv'
      <3>1. proc' \in [Process -> Locals]
        BY <1>1, FreeHoldsNothing DEF Becomes, IInv, TypeInv
      <3>2. pending' \in [Item -> Rows] /\ answers' \in [Item -> SUBSET Memory]
        BY <1>3, <2>1 DEF DBs
      <3> QED
        BY <1>1, <2>1, <3>1, <3>2 DEF IInv, TypeInv
    <2> DEFINE E2 == Ever'
               D2 == Dead'
    <2>4. /\ Ever \subseteq E2 /\ Dead \subseteq D2 /\ Ever \cup NewOf(plans) \subseteq E2
          /\ Dead \cup ReplacedBy(plans) \subseteq D2
      BY <2>1
    <2> HIDE DEF E2, D2
    <2>5. ASSUME NEW i \in Item PROVE RowStands(db.pending[i], i, E2, D2, due)
      <3>1. CASE db.pending[i] = pending[i]
        <4> DEFINE row == pending[i]
        <4>1. RowStands(row, i, Ever, Dead, due)
          BY DEF IInv, StoredInv
        <4> HIDE DEF row
        <4>2. RowStands(row, i, E2, D2, due)
          BY <2>4, <4>1, RowMonotone
        <4> QED
          BY <3>1, <4>2 DEF row
      <3>2. CASE \E j \in DOMAIN plans : plans[j].item = i /\ db.pending[i] = plans[j].row
        <4>1. PICK j \in DOMAIN plans : plans[j].item = i /\ db.pending[i] = plans[j].row
          BY <3>2
        <4> DEFINE plan == plans[j]
                   E1 == Ever \cup NewOf(plans)
                   D1 == Dead \cup ReplacedBy(plans)
        <4>2. PlanInv(plan, E1, D1, due)
          BY DEF IInv, LocalInv
        <4>3. E1 \subseteq E2 /\ D1 \subseteq D2 /\ plan.item = i /\ db.pending[i] = plan.row /\ plan.item # None
          BY <2>4, <4>1, PendingResolutionAssumption
        <4> HIDE DEF plan, E1, D1, db
        <4>4. RowStands(plan.row, plan.item, E1, D1, due)
          BY <4>2, <4>3, PlannedRowStands
        <4>5. RowStands(plan.row, plan.item, E2, D2, due)
          <5> DEFINE row == plan.row
                     item == plan.item
          <5>1. RowStands(row, item, E1, D1, due)
            BY <4>4
          <5> HIDE DEF row, item
          <5>2. RowStands(row, item, E2, D2, due)
            BY <4>3, <5>1, RowMonotone
          <5> QED
            BY <5>2 DEF row, item
        <4> QED
          BY <4>3, <4>5
      <3> QED
        BY <2>1, <3>1, <3>2 DEF AppliedInv
    <2>6. \A i \in Item : StoredInv(i)'
      BY <1>1, <1>3, <2>5 DEF StoredInv, E2, D2
    <2>7. ASSUME NEW q \in Process
          PROVE  LocalInv(proc'[q], Ever', Dead', due') /\ NewOf(proc'[q].plans) \cap Ever' = {}
      <3>1. CASE q = p
        BY <2>2, <3>1, FreeHoldsNothing
      <3>2. CASE q # p
        <4> DEFINE l == proc[q]
        <4>1. LocalInv(l, Ever, Dead, due) /\ NewOf(l.plans) \cap Ever = {}
          BY DEF IInv
        <4>2. NewOf(l.plans) \cap NewOf(plans) = {}
          BY <3>2 DEF IInv
        <4>3. proc'[q] = l
          BY <2>2, <3>2
        <4> HIDE DEF l
        <4>4. LocalInv(l, E2, D2, due)
          <5>1. due \subseteq due
            OBVIOUS
          <5> QED
            BY <2>4, <4>1, <5>1, LocalMonotone
        <4> QED
          BY <1>1, <2>1, <4>1, <4>2, <4>3, <4>4 DEF E2, D2
      <3> QED
        BY <3>1, <3>2
    <2>8. ASSUME NEW q \in Process, NEW r \in Process, q # r
          PROVE  NewOf(proc'[q].plans) \cap NewOf(proc'[r].plans) = {}
      <3>1. NewOf(proc[q].plans) \cap NewOf(proc[r].plans) = {}
        BY <2>8 DEF IInv
      <3> QED
        BY <2>2, <3>1, FreeHoldsNothing
    <2> QED
      BY <2>3, <2>6, <2>7, <2>8 DEF IInv
  <1> QED
    BY <1>1, <1>2, <1>3

(* The steps that a write takes on its own. *)
OwnStep(p) == Begin(p) \/ Reconcile(p) \/ PlanCandidate(p) \/ Abort(p)

(* Each of them leaves the tables alone. *)
LEMMA OwnStepTakes ==
    ASSUME IInv, NEW p \in Process, OwnStep(p)
    PROVE  /\ \E next : Takes(p, next) /\ Becomes(p, next)
           /\ UNCHANGED <<memory, pending, due, answers>> /\ writes' \in 0..MaxWrites
  <1>0. writes \in 0..MaxWrites /\ MaxWrites \in Nat
    BY PendingResolutionAssumption DEF IInv, TypeInv
  <1>1. CASE Begin(p)
    <2>1. UNCHANGED <<memory, pending, due, answers>> /\ writes' = writes + 1 /\ writes < MaxWrites
      BY <1>1 DEF Begin
    <2> QED
      BY <1>0, <1>1, <2>1, BeginTakes
  <1>2. CASE Reconcile(p)
    <2>1. UNCHANGED <<memory, pending, due, answers, writes>>
      BY <1>2 DEF Reconcile
    <2> QED
      BY <1>0, <1>2, <2>1, ReconcileTakes
  <1>3. CASE PlanCandidate(p)
    <2>1. UNCHANGED <<memory, pending, due, answers, writes>>
      BY <1>3 DEF PlanCandidate
    <2> QED
      BY <1>0, <1>3, <2>1, PlanCandidateTakes
  <1>4. CASE Abort(p)
    <2>1. UNCHANGED <<memory, pending, due, answers, writes>> /\ Becomes(p, Free)
      BY <1>4 DEF Abort
    <2> QED
      BY <1>0, <2>1, TakesFree
  <1> QED
    BY <1>1, <1>2, <1>3, <1>4 DEF OwnStep

(* Every step keeps the invariant. *)
LEMMA NextInv == IInv /\ [Next]_vars => IInv'
  <1> SUFFICES ASSUME IInv, [Next]_vars PROVE IInv'
    OBVIOUS
  <1>1. ASSUME NEW p \in Process, OwnStep(p) PROVE IInv'
    <2>1. PICK next : Takes(p, next) /\ Becomes(p, next)
      BY <1>1, OwnStepTakes
    <2>2. UNCHANGED <<memory, pending, due, answers>> /\ writes' \in 0..MaxWrites
      BY <1>1, OwnStepTakes
    <2> QED
      BY <2>1, <2>2, TakesStep
  <1>2. ASSUME NEW p \in Process, Commit(p) PROVE IInv'
    BY <1>2, CommitStep
  <1>3. ASSUME NEW i \in Item, Expire(i) PROVE IInv'
    BY <1>3, ExpireStep
  <1>4. ASSUME NEW i \in Item, Cleanup(i) PROVE IInv'
    BY <1>4, CleanupStep
  <1>5. ASSUME Sweep PROVE IInv'
    BY <1>5, SweepStep
  <1>6. ASSUME NEW m \in Memory, Forget(m) PROVE IInv'
    BY <1>6, ForgetStep
  <1>7. CASE UNCHANGED vars
    <2>1. memory' = memory /\ pending' = pending /\ due' = due /\ answers' = answers /\ proc' = proc /\ writes' = writes
      BY <1>7 DEF vars
    <2> QED
      BY <2>1 DEF IInv, TypeInv, StoredInv, Ever, Dead
  <1> QED
    BY <1>1, <1>2, <1>3, <1>4, <1>5, <1>6, <1>7 DEF Next, OwnStep

(* So it always holds. *)
LEMMA Invariant == Spec => []IInv
  <1> QED
    BY InitInv, NextInv, PTL DEF Spec

-----------------------------------------------------------------------------
(* Every variable has its type, for any number of writes; what a write is   *)
(* about to save is an open or a closed row, and the memory ids it has      *)
(* handed out are no other write's (MemoryPipeline.remember,                *)
(* prepare_memory_change).                                                  *)
THEOREM TypeCorrect == Spec => []TypeOK
  <1>1. IInv => TypeOK
    <2> SUFFICES ASSUME IInv PROVE TypeOK
      OBVIOUS
    <2>1. TypeInv
      BY DEF IInv
    <2>2. pending \in [Item -> Row]
      <3>1. Row = Rows
        BY Zenon DEF Row, Rows, Frames, Word
      <3> QED
        BY <2>1, <3>1 DEF TypeInv
    <2>3. ASSUME NEW p \in Process
          PROVE  /\ proc[p].pc \in {"idle", "plan"}
                 /\ proc[p].messages \cup proc[p].candidates \subseteq Message
                 /\ proc[p].claimed \subseteq Memory
      <3>1. proc[p] \in Locals
        BY <2>1 DEF TypeInv
      <3> QED
        BY <3>1 DEF Locals
    <2>4. ASSUME NEW p \in Process, NEW k \in DOMAIN proc[p].plans, proc[p].plans[k].item # None
          PROVE  proc[p].plans[k].row.status \in {"open"} \cup Terminal
      BY <2>4 DEF IInv, LocalInv, PlanInv
    <2>5. \A p \in Process : \A q \in Process :
             p # q => NewOf(proc[p].plans) \cap NewOf(proc[q].plans) = {}
      BY DEF IInv
    <2> QED
      BY <2>1, <2>2, <2>3, <2>4, <2>5 DEF TypeInv, TypeOK
  <1> QED
    BY <1>1, Invariant, PTL

(* An item is given up as obsolete only when a memory it was in conflict    *)
(* with is no longer current, and as expired only when its time was over:   *)
(* whether the maintenance sweep closed it, or a write that found it closed,*)
(* or one whose own earlier plan replaces the memory.                       *)
THEOREM ItemsCloseForCause == Spec => []ClosedForCause
  <1>1. IInv => ClosedForCause
    <2> SUFFICES ASSUME IInv, NEW i \in Item
                 PROVE  /\ pending[i].status = "obsolete" => ~(pending[i].targets \subseteq Active)
                        /\ pending[i].status = "expired" => i \in due
      BY DEF ClosedForCause
    <2>1. RowStands(pending[i], i, Ever, Dead, due)
      BY DEF IInv, StoredInv
    <2>2. Active \cap Dead = {}
      BY EverIs
    <2> QED
      BY <2>1, <2>2 DEF RowStands
  <1> QED
    BY <1>1, Invariant, PTL

-----------------------------------------------------------------------------
(* With the clean-up waiting: an item with an answer is resolved or its row *)
(* is deleted, and no write under way has a deleted row.                    *)
AnswerInv ==
    /\ AnswerStands(pending, answers)
    /\ \A p \in Process : \A i \in HeldBy(proc[p]) : pending[i].status # "gone"

(* It holds at first, when nothing is answered. *)
LEMMA InitAnswers == Init => AnswerInv
  <1> SUFFICES ASSUME Init PROVE AnswerInv
    OBVIOUS
  <1>1. \A i \in Item : answers[i] = {}
    BY DEF Init
  <1>2. \A p \in Process : proc[p] = Free
    BY DEF Init
  <1> QED
    BY <1>1, <1>2, FreeHoldsNothing DEF AnswerInv, AnswerStands

(* A write holds items. *)
LEMMA HeldItems ==
    ASSUME IInv, NEW p \in Process
    PROVE  HeldBy(proc[p]) \subseteq Item
  <1> DEFINE plans == proc[p].plans
             items == proc[p].items
  <1>1. plans \in Seq(Plans) /\ items \in Seq(Items)
    BY DEF IInv, TypeInv, Locals
  <1> HIDE DEF plans, items
  <1>2. \A k \in DOMAIN plans : plans[k].item \in Item \cup {None}
    <2> TAKE k \in DOMAIN plans
    <2>1. plans[k] \in Plans
      BY <1>1
    <2> QED
      BY <2>1 DEF Plans
  <1>3. \A k \in DOMAIN items : items[k].id \in Item
    <2> TAKE k \in DOMAIN items
    <2>1. items[k] \in Items
      BY <1>1
    <2> QED
      BY <2>1 DEF Items
  <1> QED
    BY <1>2, <1>3 DEF HeldBy, ItemsOf, plans, items

(* Every step keeps it, while the clean-up waits. *)
LEMMA NextAnswers ==
    ASSUME CleanupWaits = TRUE, IInv, AnswerInv, [Next]_vars
    PROVE  AnswerInv'
  <1>0. proc \in [Process -> Locals] /\ pending \in [Item -> Rows]
    BY DEF IInv, TypeInv
  <1>1. ASSUME NEW p \in Process, OwnStep(p) PROVE AnswerInv'
    <2>1. PICK next : Takes(p, next) /\ Becomes(p, next)
      BY <1>1, OwnStepTakes
    <2>2. pending' = pending /\ answers' = answers
      BY <1>1, OwnStepTakes
    <2>3. \A q \in Process : proc'[q] = IF q = p THEN next ELSE proc[q]
      BY <1>0, <2>1 DEF Becomes
    <2>4. \A i \in HeldBy(next) : pending[i].status # "gone"
      BY <2>1 DEF Takes, AnswerInv
    <2> QED
      BY <2>2, <2>3, <2>4 DEF AnswerInv
  <1>2. ASSUME NEW p \in Process, Commit(p) PROVE AnswerInv'
    <2> DEFINE plans == proc[p].plans
               db == Ended(plans)
    <2>1. /\ Becomes(p, Free)
          /\ \/ db.ok /\ pending' = db.pending /\ answers' = db.answers
             \/ pending' = pending /\ answers' = answers
      BY <1>2, Zenon DEF Commit, Ended, Stands
    <2>2. \A q \in Process : proc'[q] = IF q = p THEN Free ELSE proc[q]
      BY <1>0, <2>1 DEF Becomes
    <2>3. CASE pending' = pending /\ answers' = answers
      BY <2>2, <2>3, FreeHoldsNothing DEF AnswerInv
    <2>4. CASE db.ok /\ pending' = db.pending /\ answers' = db.answers
      <3>1. /\ plans \in Seq(Plans) /\ OrderInv(plans) /\ TypeInv /\ Grounds(plans)
        BY DEF IInv, TypeInv, Locals, LocalInv, Grounds
      <3>2. SavesStored(plans)
        <4>1. \A i \in ItemsOf(plans) : pending[i].status # "gone"
          BY DEF AnswerInv, HeldBy
        <4> QED
          BY <4>1 DEF SavesStored, ItemsOf
      <3>3. AnswerStands(pending, answers)
        BY DEF AnswerInv
      <3>4. AppliedInv(db, plans, Len(plans)) /\ AnswerStands(db.pending, db.answers)
        BY <2>4, <3>1, <3>2, <3>3, CommitEnds
      <3>5. ASSUME NEW i \in Item, pending[i].status # "gone" PROVE db.pending[i].status # "gone"
        <4>1. \A j \in DOMAIN plans : plans[j].item # None => plans[j].row.status # "gone"
          <5>1. \A j \in DOMAIN plans : plans[j].item # None => plans[j].row.status \in {"open"} \cup Terminal
            BY <3>1 DEF Grounds, PlanInv
          <5> QED
            BY <5>1 DEF Terminal
        <4>2. \/ db.pending[i] = pending[i]
              \/ \E j \in DOMAIN plans : plans[j].item = i /\ db.pending[i] = plans[j].row
          BY <3>4 DEF AppliedInv
        <4>3. i # None
          BY PendingResolutionAssumption
        <4> HIDE DEF db, plans
        <4> QED
          BY <3>5, <4>1, <4>2, <4>3
      <3>6. ASSUME NEW q \in Process, NEW i \in HeldBy(proc'[q])
            PROVE  pending'[i].status # "gone"
        <4>1. CASE q = p
          BY <2>2, <3>6, <4>1, FreeHoldsNothing
        <4>2. CASE q # p
          <5>1. i \in HeldBy(proc[q]) /\ i \in Item /\ pending[i].status # "gone"
            BY <2>2, <3>6, <4>2, HeldItems DEF AnswerInv
          <5> QED
            BY <2>4, <3>5, <5>1
        <4> QED
          BY <4>1, <4>2
      <3> QED
        BY <2>4, <3>4, <3>6 DEF AnswerInv
    <2> QED
      BY <2>1, <2>3, <2>4
  <1>3. ASSUME NEW i \in Item, Expire(i) PROVE AnswerInv'
    <2>1. pending' = pending /\ answers' = answers /\ proc' = proc
      BY <1>3 DEF Expire
    <2> QED
      BY <2>1 DEF AnswerInv
  <1>4. ASSUME NEW i \in Item, Cleanup(i) PROVE AnswerInv'
    <2> DEFINE row == [Absent EXCEPT !.status = "gone"]
    <2>1. /\ answers' = answers /\ proc' = proc
          /\ pending' = [pending EXCEPT ![i] = row]
          /\ \A p \in Process : i \notin HeldBy(proc[p])
      BY <1>4 DEF Cleanup, Held, HeldBy
    <2>2. row.status = "gone"
      BY AbsentIs DEF Rows
    <2> HIDE DEF row
    <2>3. \A j \in Item : pending'[j] = IF j = i THEN row ELSE pending[j]
      BY <1>0, <2>1
    <2>4. AnswerStands(pending', answers')
      BY <2>1, <2>2, <2>3 DEF AnswerInv, AnswerStands
    <2>5. ASSUME NEW q \in Process, NEW j \in HeldBy(proc[q]) PROVE pending'[j].status # "gone"
      <3>1. j \in Item /\ j # i /\ pending[j].status # "gone"
        BY <2>1, <2>5, HeldItems DEF AnswerInv
      <3> QED
        BY <2>3, <3>1
    <2> QED
      BY <2>1, <2>4, <2>5 DEF AnswerInv
  <1>5. ASSUME Sweep PROVE AnswerInv'
    <2>1. /\ answers' = answers /\ proc' = proc
          /\ pending' = [i \in Item |->
                IF i \in Open THEN [pending[i] EXCEPT !.status = Swept(i)] ELSE pending[i]]
      BY <1>5 DEF Sweep
    <2>2. ASSUME NEW i \in Item
          PROVE  /\ i \notin Open => pending'[i] = pending[i]
                 /\ i \in Open => pending[i].status = "open" /\ pending'[i].status # "gone"
      <3>1. CASE i \notin Open
        BY <2>1, <3>1
      <3>2. CASE i \in Open
        <4>1. pending[i].status = "open"
          BY <3>2 DEF Open
        <4>2. pending'[i] = [pending[i] EXCEPT !.status = Swept(i)]
          BY <2>1, <3>2
        <4>3. Swept(i) # "gone"
          BY DEF Swept
        <4>4. pending[i] \in Rows
          BY <1>0
        <4>5. pending'[i].status = Swept(i)
          BY <4>2, <4>4 DEF Rows
        <4> QED
          BY <3>2, <4>1, <4>3, <4>5
      <3> QED
        BY <3>1, <3>2
    <2>3. AnswerStands(pending', answers')
      BY <2>1, <2>2 DEF AnswerInv, AnswerStands
    <2>4. ASSUME NEW q \in Process, NEW j \in HeldBy(proc[q]) PROVE pending'[j].status # "gone"
      <3>1. j \in Item /\ pending[j].status # "gone"
        BY <2>4, HeldItems DEF AnswerInv
      <3> QED
        BY <2>2, <3>1
    <2> QED
      BY <2>1, <2>3, <2>4 DEF AnswerInv
  <1>6. ASSUME NEW m \in Memory, Forget(m) PROVE AnswerInv'
    <2>1. pending' = pending /\ answers' = answers /\ proc' = proc
      BY <1>6 DEF Forget
    <2> QED
      BY <2>1 DEF AnswerInv
  <1>7. CASE UNCHANGED vars
    <2>1. pending' = pending /\ answers' = answers /\ proc' = proc
      BY <1>7 DEF vars
    <2> QED
      BY <2>1 DEF AnswerInv
  <1> QED
    BY <1>1, <1>2, <1>3, <1>4, <1>5, <1>6, <1>7 DEF Next, OwnStep

(* An item that ended without an answer has put nothing into the memory,    *)
(* whatever other writes and the sweep did while its resolution was         *)
(* planned, as long as closed rows are not deleted under a write that has   *)
(* read them: save_pending_resolution keeps the status of a closed row.     *)
THEOREM NothingWithoutAnswer ==
    ASSUME CleanupWaits = TRUE
    PROVE  Spec => []ClosedUnanswered
  <1>1. IInv /\ AnswerInv => ClosedUnanswered
    BY DEF AnswerInv, AnswerStands, ClosedUnanswered
  <1>2. IInv /\ AnswerInv /\ [Next]_vars => AnswerInv'
    BY NextAnswers
  <1> QED
    BY <1>1, <1>2, InitAnswers, Invariant, PTL DEF Spec
=============================================================================
