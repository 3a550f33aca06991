-------------------------- MODULE RagIngestProofs --------------------------
(***************************************************************************)
(* Proofs about RagIngest, for every number of paths, set of contents and  *)
(* bound on edits, failures and crashes.                                   *)
(*                                                                         *)
(* The inductive invariant IInv adds to the types where each kind of       *)
(* action can be (ControlOK), that what is still to be built is about      *)
(* documents nobody registers meanwhile (TodoOK), how many of the stores   *)
(* the current stage has emptied or written (StageOK), and that every      *)
(* document outside cut and Half is whole or absent (StoresOK).            *)
(***************************************************************************)
EXTENDS RagIngest, SequenceLemmas

(* The stages at which an action of each kind can be. *)
StagesOf(a) ==
    CASE a.kind = "new"    -> {"clean", "parse", "build", "register"}
      [] a.kind = "update" -> {"clean", "parse", "build", "register", "drop", "unregister"}
      [] a.kind = "delete" -> {"drop", "unregister"}
      [] a.kind = "move"   -> {"move"}

Resting == {"idle", "pick", "save", "dump"}

ControlOK ==
    /\ stage \in Resting => current = None
    /\ stage \notin Resting => current \in Action /\ stage \in StagesOf(current)
    /\ stage \notin {"clean", "build", "drop"} => done = 0
    /\ stage \in {"idle", "save", "dump"} => todo = {}
    /\ stage = "idle" => bm25 = OnDisk

(* What an action replaces or deletes is another document, or itself. *)
OldOK(a) ==
    /\ a.kind = "update" => a.old \in Content /\ a.old # a.doc
    /\ a.kind = "delete" => a.old = a.doc

(* An action that builds a document: it is not registered yet, and the file *)
(* holds it still unless it was edited meanwhile.                           *)
Fresh(a) == ~Known(a.doc)
Read(a) == files[a.path] = a.doc \/ a.doc \in raced

TodoOK ==
    /\ \A a \in todo : OldOK(a)
    /\ \A a \in todo : Builds(a) => Fresh(a) /\ Read(a)
    /\ \A a, b \in todo : Builds(a) /\ Builds(b) /\ a.doc = b.doc => a = b

(* The first n stores of a deletion hold nothing of d any more. *)
Gone(d, n) ==
    /\ n >= 1 => vector[d] = None
    /\ n >= 2 => d \notin bm25
    /\ n >= 3 => d \notin parents
    /\ n >= 4 => Bytes(d) = {}
    /\ n >= 5 => Rows(d) = {}

(* The image rows that name d have their bytes. *)
Backed(d) == Rows(d) \subseteq Bytes(d)

(* The first n stores of a build hold d, whose file held c when it was read. *)
Made(d, c, n) ==
    /\ c \in Content /\ (c = d \/ d \in raced)
    /\ Backed(d)
    /\ n = 0 => Gone(d, 5)
    /\ n = 1 => NewImages(c) \subseteq Bytes(d)
    /\ n >= 3 => vector[d] = c
    /\ n >= 4 => d \in bm25
    /\ n >= 5 => d \in parents

(* A document is found in each of the three indexes. *)
Found(d) == vector[d] # None /\ d \in bm25 /\ d \in parents

StageOK ==
    /\ stage \notin Resting => OldOK(current)
    /\ stage \in {"clean", "parse", "build", "register"} =>
          /\ Fresh(current)
          /\ \A a \in todo : Builds(a) => a.doc # current.doc
    /\ stage \in {"clean", "parse"} => Read(current)
    /\ stage = "clean" => Gone(current.doc, done)
    /\ stage = "parse" => Gone(current.doc, 5)
    /\ stage = "build" => Made(current.doc, text, done)
    /\ stage = "register" => Made(current.doc, text, 5)
    /\ stage = "drop" => Gone(current.old, done)
    /\ stage = "unregister" => Gone(current.old, 5)
    /\ (stage = "drop" /\ current.kind = "update") =>
          Known(current.doc) /\ Found(current.doc)

Good(d) == Agrees(d) /\ (Known(d) => Backed(d))

StoresOK == \A d \in Content \ (cut \cup Half) : Good(d)

IInv == TypeOK /\ ControlOK /\ TodoOK /\ StageOK /\ StoresOK

-----------------------------------------------------------------------------
(* scan_by_doc keeps a path that holds the content. *)
LEMMA ScannedAtHolds ==
    ASSUME NEW d \in Scanned, TypeOK
    PROVE  ScannedAt(d) \in Path /\ files[ScannedAt(d)] = d
  <1> USE CorpusAssumption
  <1> DEFINE T == {n \in Nat : NPaths - n \in Path /\ files[NPaths - n] = d}
  <1>1. PICK p0 \in Path : files[p0] = d
    BY DEF Scanned
  <1>2. NPaths - p0 \in T
    BY <1>1 DEF Path
  <1>3. PICK n \in T : \A m \in T : n <= m
    BY <1>2, LeastExists
  <1>4. \A q \in Path : files[q] = d => q <= NPaths - n
    <2> SUFFICES ASSUME NEW q \in Path, files[q] = d PROVE q <= NPaths - n
      OBVIOUS
    <2>1. NPaths - q \in T
      BY DEF Path
    <2> QED
      BY <1>3, <2>1 DEF Path
  <1>5. \E p \in Path : files[p] = d /\ \A q \in Path : files[q] = d => q <= p
    <2>1. NPaths - n \in Path /\ files[NPaths - n] = d
      BY <1>3
    <2> QED
      BY <1>4, <2>1
  <1> QED
    BY <1>5, Zenon DEF ScannedAt

(* The diff: only registered documents are moved or deleted, and only one  *)
(* action builds a document.                                               *)
LEMMA DiffIsPending ==
    ASSUME TypeOK, NEW byPath \in RecordsByPath
    PROVE  /\ Diff(byPath) \subseteq Action
           /\ \A a \in Diff(byPath) : OldOK(a)
           /\ \A a \in Diff(byPath) :
                 Builds(a) => ~Known(a.doc) /\ files[a.path] = a.doc
           /\ \A a, b \in Diff(byPath) :
                 Builds(a) /\ Builds(b) /\ a.doc = b.doc => a = b
  <1> USE CorpusAssumption
  <1>1. byPath \in [Path -> Content \cup {None}]
    BY DEF RecordsByPath
  <1>2. \A p \in Path : byPath[p] # None => byPath[p] \in Content /\ registry[byPath[p]] = p
    BY <1>1, Zenon DEF RecordsByPath
  <1>3. Scanned \subseteq Content
    BY DEF Scanned, TypeOK
  <1>4. ASSUME NEW d \in Scanned
        PROVE  /\ ActionFor(d, byPath) \in Action
               /\ ActionFor(d, byPath).doc = d
               /\ OldOK(ActionFor(d, byPath))
               /\ Builds(ActionFor(d, byPath)) =>
                     ~Known(d) /\ files[ActionFor(d, byPath).path] = d
    <2> DEFINE p == ScannedAt(d)
    <2>1. p \in Path /\ files[p] = d
      BY ScannedAtHolds
    <2> HIDE DEF p
    <2>2. ActionFor(d, byPath) =
             [doc |-> d, path |-> p,
              kind |-> IF Known(d) THEN "move"
                       ELSE IF byPath[p] # None THEN "update" ELSE "new",
              old |-> IF Known(d) THEN d ELSE byPath[p]]
      BY DEF ActionFor, p
    <2> QED
      BY <2>1, <2>2, <1>1, <1>2, <1>3 DEF Action, Kind, Builds, Known, OldOK
  <1>5. ASSUME NEW a \in Diff(byPath)
        PROVE  \/ \E d \in Scanned : a = ActionFor(d, byPath)
               \/ \E d \in Content : /\ Known(d)
                                     /\ a = [doc |-> d, path |-> registry[d], kind |-> "delete", old |-> d]
    BY Zenon DEF Diff
  <1>6. ASSUME NEW a \in Diff(byPath)
        PROVE  a \in Action /\ OldOK(a)
    BY <1>4, <1>5 DEF Action, Kind, Known, TypeOK, OldOK
  <1>7. ASSUME NEW a \in Diff(byPath), Builds(a)
        PROVE  \E d \in Scanned : a = ActionFor(d, byPath)
    BY <1>5, <1>7 DEF Builds
  <1>8. ASSUME NEW a \in Diff(byPath), Builds(a)
        PROVE  /\ ~Known(a.doc)
               /\ files[a.path] = a.doc
               /\ a = ActionFor(a.doc, byPath)
    <2>1. PICK d \in Scanned : a = ActionFor(d, byPath)
      BY <1>7, <1>8
    <2> QED
      BY <1>4, <1>8, <2>1
  <1>9. \A a, b \in Diff(byPath) : Builds(a) /\ Builds(b) /\ a.doc = b.doc => a = b
    BY <1>8, Zenon
  <1> QED
    BY <1>6, <1>8, <1>9, Zenon

-----------------------------------------------------------------------------
(* Nothing changes for d in any store ... *)
StoreSame(d) ==
    /\ vector'[d] = vector[d]
    /\ d \in bm25' <=> d \in bm25
    /\ d \in parents' <=> d \in parents
    /\ Rows(d)' = Rows(d) /\ Bytes(d)' = Bytes(d)

(* ... and, registered or not before, it is so now. *)
Same(d) ==
    /\ StoreSame(d)
    /\ registry'[d] = None <=> registry[d] = None
    /\ d \in lost => d \in lost'
    /\ d \in raced => d \in raced'

(* A step that does nothing to a document leaves it as good as it was. *)
LEMMA SameGood ==
    ASSUME NEW d \in Content, Good(d), Same(d)
    PROVE  Good(d)'
  BY DEF Good, Agrees, Same, StoreSame, Known, Backed

(* What the stores have and the run reads of a document stays with them. *)
LEMMA SameGone ==
    ASSUME NEW d \in Content, NEW n \in 0..5, Gone(d, n), StoreSame(d)
    PROVE  Gone(d, n)'
  BY DEF Gone, StoreSame

(* A store of the document is emptied, and no other document touched. *)
LEMMA DeleteStep ==
    ASSUME NEW d \in Content, TypeOK, DeleteChunks(d)
    PROVE  /\ vector' \in [Content -> Content \cup {None}]
           /\ parents' \subseteq Content /\ bm25' \subseteq Content
           /\ imageRow' \in [Image -> Content \cup {None}]
           /\ imageFile' \subseteq Content \X Image
           /\ \A n \in 0..4 : done = n /\ Gone(d, n) => Gone(d, n + 1)'
           /\ \A e \in Content \ {d} : StoreSame(e)
           /\ Rows(d)' \subseteq Rows(d) /\ Bytes(d)' \subseteq Bytes(d)
           /\ vector[d] = None => vector'[d] = None
           /\ bm25' \subseteq bm25 /\ parents' \subseteq parents
           /\ done # 1 => bm25' = bm25
  <1> USE CorpusAssumption
  <1>1. /\ vector' \in [Content -> Content \cup {None}]
        /\ parents' \subseteq Content /\ bm25' \subseteq Content
        /\ imageRow' \in [Image -> Content \cup {None}]
        /\ imageFile' \subseteq Content \X Image
    BY DEF DeleteChunks, TypeOK, ImageRowsWithout, Bm25Without
  <1>2. Rows(d)' \subseteq Rows(d) /\ Bytes(d)' \subseteq Bytes(d)
    BY DEF DeleteChunks, TypeOK, ImageRowsWithout, Rows, Bytes
  <1>3. /\ vector[d] = None => vector'[d] = None
        /\ bm25' \subseteq bm25 /\ parents' \subseteq parents
        /\ done # 1 => bm25' = bm25
    BY DEF DeleteChunks, TypeOK, Bm25Without
  <1>4. ASSUME NEW e \in Content \ {d} PROVE StoreSame(e)
    <2>1. /\ vector'[e] = vector[e]
          /\ e \in bm25' <=> e \in bm25
          /\ e \in parents' <=> e \in parents
      BY DEF DeleteChunks, TypeOK, Bm25Without
    <2>2. ASSUME NEW i \in Image
          PROVE  /\ imageRow'[i] = e <=> imageRow[i] = e
                 /\ <<e, i>> \in imageFile' <=> <<e, i>> \in imageFile
      <3>1. <<e, i>>[1] # d
        OBVIOUS
      <3> QED
        BY <3>1 DEF DeleteChunks, TypeOK, ImageRowsWithout
    <2> QED
      BY <2>1, <2>2 DEF StoreSame, Rows, Bytes
  <1>5. ASSUME NEW n \in 0..4, done = n, Gone(d, n) PROVE Gone(d, n + 1)'
    <2>1. n = 0 => vector'[d] = None
      BY <1>5 DEF DeleteChunks, TypeOK
    <2>2. n = 1 => d \notin bm25'
      BY <1>5 DEF DeleteChunks, Bm25Without
    <2>3. n = 2 => d \notin parents'
      BY <1>5 DEF DeleteChunks
    <2>4. n = 3 => Bytes(d)' = {}
      <3>1. \A i \in Image : <<d, i>>[1] = d
        OBVIOUS
      <3> QED
        BY <1>5, <3>1 DEF DeleteChunks, Bytes
    <2>5. n = 4 => Rows(d)' = {}
      BY <1>5 DEF DeleteChunks, ImageRowsWithout, TypeOK, Rows
    <2>6. /\ n >= 1 => vector[d] = None
          /\ n >= 2 => d \notin bm25
          /\ n >= 3 => d \notin parents
          /\ n >= 4 => Bytes(d) = {}
      BY <1>5 DEF Gone
    <2>7. vector'[d] = None
      BY <1>3, <2>1, <2>6
    <2>8. n + 1 >= 2 => d \notin bm25'
      BY <1>3, <2>2, <2>6
    <2>9. n + 1 >= 3 => d \notin parents'
      BY <1>3, <2>3, <2>6
    <2>10. n + 1 >= 4 => Bytes(d)' = {}
      BY <1>2, <2>4, <2>6
    <2>11. n + 1 >= 5 => Rows(d)' = {}
      BY <2>5
    <2> QED
      BY <2>7, <2>8, <2>9, <2>10, <2>11 DEF Gone
  <1> QED
    BY <1>1, <1>2, <1>3, <1>4, <1>5

(* A store of the document is written, and no other document touched. *)
LEMMA StoreStep ==
    ASSUME NEW d \in Content, NEW c \in Content, TypeOK, StoreChunks(d, c),
           raced' = raced
    PROVE  /\ vector' \in [Content -> Content \cup {None}]
           /\ parents' \subseteq Content /\ bm25' \subseteq Content
           /\ imageRow' \in [Image -> Content \cup {None}]
           /\ imageFile' \subseteq Content \X Image
           /\ \A n \in 0..4 : done = n /\ Made(d, c, n) => Made(d, c, n + 1)'
           /\ \A e \in Content \ {d} : StoreSame(e)
  <1> USE CorpusAssumption
  <1>1. /\ vector' \in [Content -> Content \cup {None}]
        /\ parents' \subseteq Content /\ bm25' \subseteq Content
        /\ imageRow' \in [Image -> Content \cup {None}]
        /\ imageFile' \subseteq Content \X Image
    BY DEF StoreChunks, TypeOK, NewImages
  <1>2. ASSUME NEW e \in Content \ {d} PROVE StoreSame(e)
    <2>1. /\ vector'[e] = vector[e]
          /\ e \in bm25' <=> e \in bm25
          /\ e \in parents' <=> e \in parents
      BY DEF StoreChunks, TypeOK
    <2>2. ASSUME NEW i \in Image
          PROVE  /\ imageRow'[i] = e <=> imageRow[i] = e
                 /\ <<e, i>> \in imageFile' <=> <<e, i>> \in imageFile
      BY DEF StoreChunks, TypeOK, NewImages
    <2> QED
      BY <2>1, <2>2 DEF StoreSame, Rows, Bytes
  <1>3. ASSUME NEW n \in 0..4, done = n, Made(d, c, n) PROVE Made(d, c, n + 1)'
    <2>1. c = d \/ d \in raced'
      BY <1>3 DEF Made
    <2>2. Backed(d)'
      <3>1. Bytes(d) \subseteq Bytes(d)'
        BY DEF StoreChunks, Bytes
      <3>2. \A i \in Rows(d)' : i \in Rows(d) \/ (n = 1 /\ i \in NewImages(c))
        BY <1>3 DEF StoreChunks, TypeOK, Rows
      <3> QED
        BY <1>3, <3>1, <3>2 DEF Made, Backed
    <2>3. n = 0 => NewImages(c)' \subseteq Bytes(d)'
      <3> SUFFICES ASSUME n = 0, NEW i \in NewImages(c)' PROVE i \in Bytes(d)'
        OBVIOUS
      <3>1. i \in NewImages(c)
        BY <1>3 DEF NewImages, StoreChunks, TypeOK
      <3> QED
        BY <1>3, <3>1 DEF StoreChunks, Bytes, NewImages
    <2>4. n = 2 => vector'[d] = c
      BY <1>3 DEF StoreChunks, TypeOK
    <2>5. n = 3 => d \in bm25'
      BY <1>3 DEF StoreChunks
    <2>6. n = 4 => d \in parents'
      BY <1>3 DEF StoreChunks
    <2>7. n >= 3 => vector'[d] = vector[d]
      BY <1>3 DEF StoreChunks
    <2>8. n >= 4 => d \in bm25'
      BY <1>3 DEF StoreChunks, Made
    <2> QED
      BY <1>3, <2>1, <2>2, <2>3, <2>4, <2>5, <2>6, <2>7, <2>8 DEF Made
  <1> QED
    BY <1>1, <1>2, <1>3

-----------------------------------------------------------------------------
(* The empty stores agree. *)
LEMMA InitIInv == Init => IInv
  <1> SUFFICES ASSUME Init PROVE IInv
    OBVIOUS
  <1> USE CorpusAssumption DEF Init
  <1>1. TypeOK
    <2>1. /\ files \in [Path -> Content \cup {None}]
          /\ registry \in [Content -> Path \cup {None}]
          /\ vector \in [Content -> Content \cup {None}]
          /\ imageRow \in [Image -> Content \cup {None}]
      OBVIOUS
    <2>2. edits \in 0..MaxEdits /\ failures \in 0..MaxFailures /\ crashes \in 0..MaxCrashes
      OBVIOUS
    <2>3. /\ stage \in Stage /\ done \in 0..4 /\ text \in Content \cup {None}
          /\ calm \in 0..2
      BY DEF Stage
    <2>4. /\ parents \subseteq Content /\ bm25 \subseteq Content
          /\ bm25Saved \subseteq Content /\ imageFile \subseteq Content \X Image
          /\ todo \subseteq Action /\ current \in Action \cup {None}
          /\ cut \subseteq Content /\ lost \subseteq Content /\ raced \subseteq Content
      OBVIOUS
    <2>5. quiet \in BOOLEAN
      BY Zenon
    <2> HIDE DEF Init
    <2> QED
      BY <2>1, <2>2, <2>3, <2>4, <2>5 DEF TypeOK
  <1>2. ControlOK /\ TodoOK /\ StageOK
    BY DEF ControlOK, Resting, OnDisk, TodoOK, StageOK
  <1>3. StoresOK
    BY DEF StoresOK, Good, Agrees, Known, Rows, Bytes, Backed
  <1> QED
    BY <1>1, <1>2, <1>3 DEF IInv

(* The tree changes at some paths: what is scanned and not read is raced. *)
LEMMA ChangeKeeps ==
    ASSUME IInv, NEW P \in SUBSET Path, Change(P),
           files' \in [Path -> Content \cup {None}],
           \A p \in Path \ P : files'[p] = files[p]
    PROVE  IInv'
  <1> USE DEF IInv
  <1>u. UNCHANGED <<registry, vector, parents, bm25, bm25Saved, imageRow, imageFile,
                    todo, current, stage, done, text, cut, lost, failures, crashes>>
    BY DEF Change, indexes, run
  <1>r. /\ raced \subseteq raced'
        /\ \A a \in Unread : a.path \in P => a.doc \in raced'
    BY DEF Change
  <1>t. \A a \in todo : a \in Action
    BY DEF TypeOK
  <1>1. TypeOK'
    <2>1. \A a \in Unread : a.doc \in Content
      <3>1. stage \in {"clean", "parse"} => current \in Action
        BY DEF ControlOK, Resting
      <3> QED
        BY <1>t, <3>1 DEF Unread, Action
    <2>2. raced' \subseteq Content
      BY <2>1 DEF Change, TypeOK
    <2>3. edits' \in 0..MaxEdits
      BY CorpusAssumption DEF Change, TypeOK
    <2>4. calm' \in 0..2
      BY DEF Change, Disturbed
    <2>5. quiet' \in BOOLEAN
      BY Zenon DEF Change, Disturbed
    <2> QED
      BY <1>u, <2>2, <2>3, <2>4, <2>5 DEF TypeOK
  <1>2. ControlOK'
    BY <1>u DEF ControlOK, StagesOf, OnDisk
  <1>a. ASSUME NEW a \in Unread, a \in Action, Read(a) PROVE Read(a)'
    BY <1>r, <1>a DEF Read, Action
  <1>3. TodoOK'
    <2>1. ASSUME NEW a \in todo, Builds(a) PROVE Read(a)'
      BY <1>t, <1>a, <2>1 DEF TodoOK, Unread
    <2>2. todo' = todo /\ registry' = registry
      BY <1>u
    <2> QED
      BY <2>1, <2>2 DEF TodoOK, OldOK, Fresh, Known, Builds
  <1>4. StageOK'
    <2>1. stage \in {"clean", "parse"} => Read(current)'
      <3>1. stage \in {"clean", "parse"} => current \in Unread /\ current \in Action
        BY DEF Unread, ControlOK, Resting
      <3> QED
        BY <1>a, <1>u, <3>1 DEF StageOK, Read
    <2>2. \A n \in 0..5 : Made(current.doc, text, n) => Made(current.doc, text, n)'
      BY <1>u, <1>r DEF Made, Backed, Gone, NewImages, Rows, Bytes
    <2>3. stage = "build" => Made(current.doc, text, done)'
      BY <1>u, <2>2 DEF StageOK, TypeOK, Made
    <2>4. stage = "register" => Made(current.doc, text, 5)'
      BY <1>u, <2>2 DEF StageOK
    <2> QED
      BY <1>u, <2>1, <2>3, <2>4 DEF StageOK, OldOK, Fresh, Known, Gone, Found, Builds, Rows, Bytes
  <1>5. StoresOK'
    <2>1. \A d \in Content : Same(d)
      BY <1>u, <1>r DEF Same, StoreSame, Rows, Bytes
    <2>2. cut' = cut /\ Half' = Half
      BY <1>u DEF Half
    <2> QED
      BY <2>1, <2>2, SameGood DEF StoresOK
  <1> QED
    BY <1>1, <1>2, <1>3, <1>4, <1>5

(* A file is put, replaced or removed. *)
LEMMA EditKeeps ==
    ASSUME IInv, NEW p \in Path, NEW c \in Content \cup {None}, Edit(p, c)
    PROVE  IInv'
  <1>1. files' \in [Path -> Content \cup {None}] /\ \A q \in Path \ {p} : files'[q] = files[q]
    BY DEF Edit, IInv, TypeOK
  <1> QED
    BY <1>1, ChangeKeeps DEF Edit

(* A file is renamed. *)
LEMMA RenameKeeps ==
    ASSUME IInv, NEW p \in Path, NEW q \in Path, Rename(p, q)
    PROVE  IInv'
  <1>1. /\ files' \in [Path -> Content \cup {None}]
        /\ \A r \in Path \ {p, q} : files'[r] = files[r]
    BY DEF Rename, IInv, TypeOK
  <1> QED
    BY <1>1, ChangeKeeps DEF Rename

(* The diff of a new run: what is to be built is in no store yet. *)
LEMMA StartKeeps ==
    ASSUME IInv, Start
    PROVE  IInv'
  <1> USE DEF IInv
  <1>u. /\ UNCHANGED <<files, registry, vector, parents, bm25Saved, imageRow, imageFile,
                       current, done, text, cut, lost, calm, edits, failures, crashes>>
        /\ bm25' = bm25Saved /\ stage' = "pick" /\ quiet' = TRUE
        /\ raced' = raced \ {a.doc : a \in {b \in todo' : Builds(b)}}
    BY DEF Start, bounds
  <1>0. PICK byPath \in RecordsByPath : todo' = Diff(byPath)
    BY DEF Start
  <1>d. /\ Diff(byPath) \subseteq Action
        /\ \A a \in Diff(byPath) : OldOK(a)
        /\ \A a \in Diff(byPath) :
              Builds(a) => ~Known(a.doc) /\ files[a.path] = a.doc
        /\ \A a, b \in Diff(byPath) :
              Builds(a) /\ Builds(b) /\ a.doc = b.doc => a = b
    BY DiffIsPending
  <1>b. bm25' = bm25 /\ bm25Saved \subseteq Content
    BY DEF Start, ControlOK, OnDisk, TypeOK
  <1>1. TypeOK'
    BY <1>u, <1>0, <1>d, <1>b DEF TypeOK, Stage
  <1>2. ControlOK'
    BY <1>u DEF ControlOK, Start, Resting
  <1>3. TodoOK'
    <2>1. ASSUME NEW a \in todo' PROVE OldOK(a)' /\ (Builds(a) => Fresh(a)' /\ Read(a)')
      BY <1>0, <1>d, <1>u DEF Fresh, Read, Known, OldOK
    <2>2. ASSUME NEW a \in todo', NEW b \in todo', Builds(a), Builds(b), a.doc = b.doc
          PROVE  a = b
      BY <1>0, <1>d, <2>2, Zenon
    <2> QED
      BY <2>1, <2>2 DEF TodoOK, Builds, OldOK
  <1>4. StageOK'
    BY <1>u DEF StageOK, Resting
  <1>5. StoresOK'
    <2>1. Half = {} /\ Half' = {} /\ cut' = cut
      BY <1>u DEF Half, Start
    <2> SUFFICES ASSUME NEW d \in Content \ cut PROVE Good(d)'
      BY <2>1 DEF StoresOK
    <2>2. Good(d)
      BY <2>1 DEF StoresOK
    <2>3. CASE d \in raced /\ d \notin raced'
      <3>1. ~Known(d)
        BY <1>u, <1>0, <1>d, <2>3
      <3>2. vector[d] = None
        BY <2>2, <3>1 DEF Good, Agrees
      <3> QED
        BY <1>u, <1>b, <2>2, <3>1, <3>2 DEF Good, Agrees, Known, Backed, Rows, Bytes
    <2>4. CASE d \in raced => d \in raced'
      <3>1. Same(d)
        BY <1>u, <1>b, <2>4 DEF Same, StoreSame, Rows, Bytes
      <3> QED
        BY <2>2, <3>1, SameGood
    <2> QED
      BY <2>3, <2>4
  <1> QED
    BY <1>1, <1>2, <1>3, <1>4, <1>5

(* The next action is taken up. *)
LEMMA PickKeeps ==
    ASSUME IInv, NEW a \in todo, Pick(a)
    PROVE  IInv'
  <1> USE DEF IInv
  <1>u. /\ UNCHANGED <<files, registry, vector, parents, bm25, bm25Saved, imageRow, imageFile,
                       done, text, cut, lost, raced, quiet, calm, edits, failures, crashes>>
        /\ stage = "pick" /\ todo' = todo \ {a} /\ current' = a /\ stage' = FirstStage(a)
    BY DEF Pick, indexes, history, bounds
  <1>0. /\ a \in Action
        /\ stage' \in StagesOf(a)
        /\ stage' \in {"clean", "drop", "move"}
        /\ stage' = "clean" <=> Builds(a)
        /\ stage' = "drop" => a.kind = "delete"
        /\ done = 0
    BY <1>u DEF TypeOK, Action, Kind, FirstStage, StagesOf, Builds, ControlOK
  <1>1. TypeOK'
    BY <1>u, <1>0 DEF TypeOK, Stage
  <1>2. ControlOK'
    BY <1>u, <1>0 DEF ControlOK, Resting
  <1>3. TodoOK'
    BY <1>u DEF TodoOK, OldOK, Fresh, Read, Known, Builds
  <1>4. StageOK'
    <2>1. OldOK(a) /\ (Builds(a) => Fresh(a) /\ Read(a))
      BY DEF TodoOK
    <2>2. ASSUME Builds(a), NEW b \in todo', Builds(b) PROVE b.doc # a.doc
      <3>1. b \in todo /\ b # a
        BY <1>u, <2>2
      <3> QED
        BY <2>2, <3>1 DEF TodoOK
    <2>3. Gone(a.doc, 0) /\ Gone(a.old, 0)
      BY DEF Gone
    <2> QED
      BY <1>u, <1>0, <2>1, <2>2, <2>3 DEF StageOK, OldOK, Fresh, Read, Known, Gone, Builds, Rows, Bytes
  <1>5. StoresOK'
    <2>1. Half = {} /\ Half' = {} /\ cut' = cut
      BY <1>u, <1>0 DEF Half
    <2>2. \A d \in Content : Same(d)
      BY <1>u DEF Same, StoreSame, Rows, Bytes
    <2> QED
      BY <2>1, <2>2, SameGood DEF StoresOK
  <1> QED
    BY <1>1, <1>2, <1>3, <1>4, <1>5

(* The residue of an earlier attempt goes, store by store. *)
LEMMA CleanKeeps ==
    ASSUME IInv, Clean
    PROVE  IInv'
  <1> USE DEF IInv
  <1>0. /\ stage = "clean" /\ current \in Action /\ Builds(current)
        /\ current.doc \in Content /\ current.path \in Path
        /\ done \in 0..4
    BY DEF Clean, ControlOK, Resting, StagesOf, Action, Kind, Builds, TypeOK
  <1>p. PICK d \in Content : d = current.doc
    BY <1>0
  <1>u. /\ UNCHANGED <<bm25Saved, files, registry, todo, current, text, raced, quiet,
                       calm, edits, failures, crashes>>
        /\ done' = IF done = 4 THEN 0 ELSE done + 1
        /\ stage' = IF done = 4 THEN "parse" ELSE "clean"
        /\ cut' = IF done = 4 THEN cut \ {d} ELSE cut
        /\ lost' = IF done = 4 THEN lost \ {d} ELSE lost
        /\ DeleteChunks(d)
    BY <1>0, <1>p DEF Clean, Advance, LastStore, Residue, bounds
  <1>c. /\ vector' \in [Content -> Content \cup {None}]
        /\ parents' \subseteq Content /\ bm25' \subseteq Content
        /\ imageRow' \in [Image -> Content \cup {None}]
        /\ imageFile' \subseteq Content \X Image
        /\ \A n \in 0..4 : done = n /\ Gone(d, n) => Gone(d, n + 1)'
        /\ \A e \in Content \ {d} : StoreSame(e)
        /\ Rows(d)' \subseteq Rows(d) /\ Bytes(d)' \subseteq Bytes(d)
        /\ vector[d] = None => vector'[d] = None
        /\ bm25' \subseteq bm25 /\ parents' \subseteq parents
        /\ done # 1 => bm25' = bm25
    BY <1>u, DeleteStep
  <1>g. Gone(d, done) /\ ~Known(d) /\ ~Known(d)'
    BY <1>0, <1>p, <1>u DEF StageOK, Fresh, Known
  <1>n. /\ done = 4 => Gone(d, 5)'
        /\ done # 4 => Gone(d, done)'
    <2>1. PICK n \in 0..4 : n = done
      BY <1>0
    <2>2. Gone(d, n + 1)'
      BY <1>c, <1>g, <2>1
    <2> QED
      BY <1>u, <2>1, <2>2 DEF Gone
  <1>1. TypeOK'
    <2>1. stage' \in Stage /\ done' \in 0..4 /\ cut' \subseteq Content /\ lost' \subseteq Content
      BY <1>0, <1>u DEF TypeOK, Stage
    <2> QED
      BY <1>u, <1>c, <2>1 DEF TypeOK
  <1>2. ControlOK'
    BY <1>0, <1>u DEF ControlOK, Resting, StagesOf, Action, Kind, Builds
  <1>3. TodoOK'
    BY <1>u DEF TodoOK, OldOK, Fresh, Read, Known, Builds
  <1>4. StageOK'
    <2>1. /\ OldOK(current)' /\ Fresh(current)' /\ Read(current)'
          /\ \A a \in todo' : Builds(a) => a.doc # current'.doc
      BY <1>0, <1>u DEF StageOK, Resting, OldOK, Fresh, Read, Known
    <2>2. stage' \in {"clean", "parse"}
      BY <1>u
    <2>3. stage' = "clean" => Gone(current.doc, done)'
      BY <1>u, <1>p, <1>n DEF Gone, Rows, Bytes
    <2>4. stage' = "parse" => Gone(current.doc, 5)'
      BY <1>u, <1>p, <1>n DEF Gone, Rows, Bytes
    <2> QED
      BY <2>1, <2>2, <2>3, <2>4 DEF StageOK, Builds
  <1>5. StoresOK'
    <2>1. Half = {} /\ Half' = {}
      BY <1>0, <1>u DEF Half
    <2>2. ASSUME NEW e \in Content \ cut', e # d PROVE Good(e)'
      <3>1. Good(e)
        BY <1>u, <2>1, <2>2 DEF StoresOK
      <3>2. Same(e)
        BY <1>u, <1>c, <2>2 DEF Same
      <3> QED
        BY <3>1, <3>2, SameGood
    <2>3. ASSUME d \notin cut' PROVE Good(d)'
      <3>1. CASE done = 4
        BY <1>g, <1>n, <3>1 DEF Good, Agrees, Gone
      <3>2. CASE done # 4
        <4>1. Good(d) /\ lost' = lost
          BY <1>u, <2>1, <2>3, <3>2 DEF StoresOK
        <4> QED
          BY <1>g, <1>c, <4>1 DEF Good, Agrees
      <3> QED
        BY <3>1, <3>2
    <2> QED
      BY <2>1, <2>2, <2>3 DEF StoresOK
  <1> QED
    BY <1>1, <1>2, <1>3, <1>4, <1>5

(* The file is read. *)
LEMMA ParseKeeps ==
    ASSUME IInv, Parse
    PROVE  IInv'
  <1> USE DEF IInv
  <1>0. /\ stage = "parse" /\ current \in Action /\ Builds(current)
        /\ current.doc \in Content /\ current.path \in Path
        /\ done = 0
    BY DEF Parse, ControlOK, Resting, StagesOf, Action, Kind, Builds
  <1>u. /\ UNCHANGED <<files, registry, vector, parents, bm25, bm25Saved, imageRow, imageFile,
                       todo, current, done, cut, lost, raced, quiet, calm, edits,
                       failures, crashes>>
        /\ stage' = "build"
    BY DEF Parse, indexes, history, bounds
  <1>t. /\ text' = files[current.path] /\ text' \in Content
        /\ text' = current.doc \/ current.doc \in raced
    <2>1. text' = files[current.path] /\ files[current.path] # None
      BY DEF Parse, TextOf
    <2> QED
      BY <1>0, <2>1 DEF TypeOK, StageOK, Read
  <1>1. TypeOK'
    BY <1>u, <1>t DEF TypeOK, Stage
  <1>2. ControlOK'
    BY <1>0, <1>u DEF ControlOK, Resting, StagesOf, Action, Kind, Builds
  <1>3. TodoOK'
    BY <1>u DEF TodoOK, OldOK, Fresh, Read, Known, Builds
  <1>4. StageOK'
    <2>1. Gone(current.doc, 5)'
      BY <1>0, <1>u DEF StageOK, Gone, Rows, Bytes
    <2>2. Made(current.doc, text, done)'
      BY <1>0, <1>u, <1>t, <2>1 DEF Made, Gone, Backed
    <2> QED
      BY <1>0, <1>u, <2>2 DEF StageOK, Resting, OldOK, Fresh, Known, Builds
  <1>5. StoresOK'
    <2>1. Half = {} /\ Half' = {} /\ cut' = cut
      BY <1>0, <1>u DEF Half
    <2>2. \A d \in Content : Same(d)
      BY <1>u DEF Same, StoreSame, Rows, Bytes
    <2> QED
      BY <2>1, <2>2, SameGood DEF StoresOK
  <1> QED
    BY <1>1, <1>2, <1>3, <1>4, <1>5

(* The action is given up before its document is in any store. *)
LEMMA NotParsedKeeps ==
    ASSUME IInv, NotParsed
    PROVE  IInv'
  <1> USE DEF IInv
  <1>u. /\ UNCHANGED <<files, registry, vector, parents, bm25, bm25Saved, imageRow, imageFile,
                       todo, cut, lost, raced, quiet, calm, edits, failures, crashes>>
        /\ stage = "parse" /\ stage' = "pick" /\ current' = None /\ done' = 0 /\ text' = None
    BY DEF NotParsed, NextAction, indexes, history, bounds
  <1>1. TypeOK'
    BY <1>u DEF TypeOK, Stage
  <1>2. ControlOK'
    BY <1>u DEF ControlOK, Resting
  <1>3. TodoOK'
    BY <1>u DEF TodoOK, OldOK, Fresh, Read, Known, Builds
  <1>4. StageOK'
    BY <1>u DEF StageOK, Resting
  <1>5. StoresOK'
    <2>1. Half = {} /\ Half' = {} /\ cut' = cut
      BY <1>u DEF Half
    <2>2. \A d \in Content : Same(d)
      BY <1>u DEF Same, StoreSame, Rows, Bytes
    <2> QED
      BY <2>1, <2>2, SameGood DEF StoresOK
  <1> QED
    BY <1>1, <1>2, <1>3, <1>4, <1>5

(* The chunks are stored, store by store. *)
LEMMA BuildKeeps ==
    ASSUME IInv, Build
    PROVE  IInv'
  <1> USE DEF IInv
  <1>0. /\ stage = "build" /\ current \in Action /\ Builds(current)
        /\ current.doc \in Content /\ text \in Content
        /\ done \in 0..4
    BY DEF Build, ControlOK, Resting, StagesOf, Action, Kind, Builds, TypeOK, StageOK, Made
  <1>p. PICK d \in Content, c \in Content : d = current.doc /\ c = text
    BY <1>0
  <1>u. /\ UNCHANGED <<bm25Saved, files, registry, todo, current, text, raced, quiet,
                       calm, cut, lost, edits, failures, crashes>>
        /\ done' = IF done = 4 THEN 0 ELSE done + 1
        /\ stage' = IF done = 4 THEN "register" ELSE "build"
        /\ StoreChunks(d, c)
    BY <1>0, <1>p DEF Build, Advance, LastStore, bounds
  <1>c. /\ vector' \in [Content -> Content \cup {None}]
        /\ parents' \subseteq Content /\ bm25' \subseteq Content
        /\ imageRow' \in [Image -> Content \cup {None}]
        /\ imageFile' \subseteq Content \X Image
        /\ \A n \in 0..4 : done = n /\ Made(d, c, n) => Made(d, c, n + 1)'
        /\ \A e \in Content \ {d} : StoreSame(e)
    BY <1>u, StoreStep
  <1>n. /\ done = 4 => Made(d, c, 5)'
        /\ done # 4 => Made(d, c, done)'
    <2>1. PICK n \in 0..4 : n = done
      BY <1>0
    <2>2. Made(d, c, n)
      BY <1>0, <1>p, <2>1 DEF StageOK
    <2>3. Made(d, c, n + 1)'
      BY <1>c, <2>1, <2>2
    <2> QED
      BY <1>u, <2>1, <2>3 DEF Made
  <1>1. TypeOK'
    <2>1. stage' \in Stage /\ done' \in 0..4
      BY <1>0, <1>u DEF Stage
    <2> QED
      BY <1>u, <1>c, <2>1 DEF TypeOK
  <1>2. ControlOK'
    BY <1>0, <1>u DEF ControlOK, Resting, StagesOf, Action, Kind, Builds
  <1>3. TodoOK'
    BY <1>u DEF TodoOK, OldOK, Fresh, Read, Known, Builds
  <1>4. StageOK'
    <2>1. /\ OldOK(current)' /\ Fresh(current)'
          /\ \A a \in todo' : Builds(a) => a.doc # current'.doc
      BY <1>0, <1>u DEF StageOK, Resting, OldOK, Fresh, Known
    <2>2. stage' \in {"build", "register"}
      BY <1>u
    <2>3. stage' = "build" => Made(current.doc, text, done)'
      BY <1>u, <1>p, <1>n DEF Made, Backed, NewImages, Rows, Bytes, Gone
    <2>4. stage' = "register" => Made(current.doc, text, 5)'
      BY <1>u, <1>p, <1>n DEF Made, Backed, NewImages, Rows, Bytes, Gone
    <2> QED
      BY <2>1, <2>2, <2>3, <2>4 DEF StageOK, Builds
  <1>5. StoresOK'
    <2>1. Half \subseteq {d} /\ Half' = {d} /\ cut' = cut
      BY <1>0, <1>p, <1>u DEF Half
    <2>2. ASSUME NEW e \in Content \ cut, e # d PROVE Good(e)'
      <3>1. Good(e)
        BY <2>1, <2>2 DEF StoresOK
      <3>2. Same(e)
        BY <1>u, <1>c, <2>2 DEF Same
      <3> QED
        BY <3>1, <3>2, SameGood
    <2> QED
      BY <2>1, <2>2 DEF StoresOK
  <1> QED
    BY <1>1, <1>2, <1>3, <1>4, <1>5

(* The record is written: the document is whole. *)
LEMMA RegisterKeeps ==
    ASSUME IInv, Register
    PROVE  IInv'
  <1> USE DEF IInv
  <1>0. /\ stage = "register" /\ current \in Action /\ Builds(current)
        /\ current.doc \in Content /\ current.path \in Path
        /\ done = 0 /\ OldOK(current)
    BY DEF Register, ControlOK, Resting, StagesOf, Action, Kind, Builds, StageOK
  <1>p. PICK d \in Content, c \in Content : d = current.doc /\ c = text
    BY <1>0 DEF StageOK, Made
  <1>u. /\ UNCHANGED <<files, vector, parents, bm25, bm25Saved, imageRow, imageFile,
                       todo, cut, lost, raced, quiet, calm, edits, failures, crashes>>
        /\ registry' = [registry EXCEPT ![d] = current.path]
        /\ done' = 0 /\ text' = None
        /\ IF current.kind = "update" THEN stage' = "drop" /\ current' = current
                                      ELSE stage' = "pick" /\ current' = None
    BY <1>0, <1>p DEF Register, NextAction, Replaces, OldOK, indexes, history, bounds
  <1>r. /\ registry' \in [Content -> Path \cup {None}] /\ registry'[d] # None
        /\ \A e \in Content \ {d} : registry'[e] = registry[e]
    BY <1>0, <1>u, CorpusAssumption DEF TypeOK
  <1>m. Made(d, c, 5)
    BY <1>0, <1>p DEF StageOK
  <1>1. TypeOK'
    <2>1. stage' \in Stage /\ done' \in 0..4 /\ current' \in Action \cup {None}
      BY <1>0, <1>u DEF Stage
    <2> QED
      BY <1>u, <1>r, <2>1 DEF TypeOK
  <1>2. ControlOK'
    BY <1>0, <1>u DEF ControlOK, Resting, StagesOf, Action, Kind, Builds
  <1>3. TodoOK'
    <2>1. \A a \in todo : Builds(a) => a.doc \in Content \ {d}
      BY <1>0, <1>p DEF StageOK, TypeOK, Action
    <2>2. \A a \in todo : Builds(a) => Fresh(a)'
      BY <1>r, <2>1 DEF TodoOK, Fresh, Known
    <2> QED
      BY <1>u, <2>2 DEF TodoOK, OldOK, Read, Builds
  <1>4. StageOK'
    <2>1. Found(d)' /\ Known(d)'
      BY <1>u, <1>r, <1>m, CorpusAssumption DEF Made, Found, Known
    <2>2. Gone(current.old, 0)'
      BY DEF Gone
    <2>3. CASE current.kind = "update"
      <3>1. stage' = "drop" /\ current' = current /\ done' = 0
        BY <1>u, <2>3
      <3>2. OldOK(current)'
        BY <1>0, <3>1 DEF OldOK
      <3>3. Known(current.doc)' /\ Found(current.doc)'
        BY <1>p, <2>1, <3>1 DEF Known, Found
      <3>4. Gone(current.old, done)'
        BY <3>1 DEF Gone
      <3> QED
        BY <3>1, <3>2, <3>3, <3>4 DEF StageOK, Resting
    <2>4. CASE current.kind # "update"
      BY <1>u, <2>4 DEF StageOK, Resting
    <2> QED
      BY <2>3, <2>4
  <1>5. StoresOK'
    <2>1. Half = {d} /\ Half' = {} /\ cut' = cut
      BY <1>0, <1>p, <1>u DEF Half
    <2>2. ASSUME NEW e \in Content \ cut, e # d PROVE Good(e)'
      <3>1. Good(e)
        BY <2>1, <2>2 DEF StoresOK
      <3>2. Same(e)
        BY <1>u, <1>r, <2>2 DEF Same, StoreSame, Rows, Bytes
      <3> QED
        BY <3>1, <3>2, SameGood
    <2>3. Good(d)'
      <3>1. /\ vector[d] = c /\ c # None /\ d \in bm25 /\ d \in parents
            /\ c = d \/ d \in raced
            /\ Rows(d) \subseteq Bytes(d)
        BY <1>m, CorpusAssumption DEF Made, Backed
      <3>2. Rows(d)' = Rows(d) /\ Bytes(d)' = Bytes(d)
        BY <1>u DEF Rows, Bytes
      <3> QED
        BY <1>u, <1>r, <3>1, <3>2 DEF Good, Agrees, Known, Backed
    <2> QED
      BY <2>1, <2>2, <2>3 DEF StoresOK
  <1> QED
    BY <1>1, <1>2, <1>3, <1>4, <1>5

(* The chunks of a replaced or vanished document go, store by store. *)
LEMMA DropKeeps ==
    ASSUME IInv, Drop
    PROVE  IInv'
  <1> USE DEF IInv
  <1>0. /\ stage = "drop" /\ current \in Action
        /\ current.kind \in {"update", "delete"} /\ current.old \in Content
        /\ done \in 0..4 /\ OldOK(current)
    BY DEF Drop, ControlOK, Resting, StagesOf, Action, Kind, TypeOK, StageOK, OldOK
  <1>p. PICK d \in Content : d = current.old
    BY <1>0
  <1>u. /\ UNCHANGED <<bm25Saved, files, registry, todo, current, text, raced, quiet,
                       calm, cut, lost, edits, failures, crashes>>
        /\ done' = IF done = 4 THEN 0 ELSE done + 1
        /\ stage' = IF done = 4 THEN "unregister" ELSE "drop"
        /\ DeleteChunks(d)
    BY <1>0, <1>p DEF Drop, Advance, LastStore, bounds
  <1>c. /\ vector' \in [Content -> Content \cup {None}]
        /\ parents' \subseteq Content /\ bm25' \subseteq Content
        /\ imageRow' \in [Image -> Content \cup {None}]
        /\ imageFile' \subseteq Content \X Image
        /\ \A n \in 0..4 : done = n /\ Gone(d, n) => Gone(d, n + 1)'
        /\ \A e \in Content \ {d} : StoreSame(e)
    BY <1>u, DeleteStep
  <1>n. /\ done = 4 => Gone(d, 5)'
        /\ done # 4 => Gone(d, done)'
    <2>1. PICK n \in 0..4 : n = done
      BY <1>0
    <2>2. Gone(d, n)
      BY <1>0, <1>p, <2>1 DEF StageOK
    <2>3. Gone(d, n + 1)'
      BY <1>c, <2>1, <2>2
    <2> QED
      BY <1>u, <2>1, <2>3 DEF Gone
  <1>1. TypeOK'
    <2>1. stage' \in Stage /\ done' \in 0..4
      BY <1>0, <1>u DEF Stage
    <2> QED
      BY <1>u, <1>c, <2>1 DEF TypeOK
  <1>2. ControlOK'
    BY <1>0, <1>u DEF ControlOK, Resting, StagesOf, Action, Kind
  <1>3. TodoOK'
    BY <1>u DEF TodoOK, OldOK, Fresh, Read, Known, Builds
  <1>4. StageOK'
    <2>1. OldOK(current)'
      BY <1>0, <1>u DEF OldOK
    <2>2. stage' \in {"drop", "unregister"}
      BY <1>u
    <2>3. stage' = "drop" => Gone(current.old, done)'
      BY <1>u, <1>p, <1>n DEF Gone, Rows, Bytes
    <2>4. stage' = "unregister" => Gone(current.old, 5)'
      BY <1>u, <1>p, <1>n DEF Gone, Rows, Bytes
    <2>5. current.kind = "update" => Known(current.doc)' /\ Found(current.doc)'
      <3> SUFFICES ASSUME current.kind = "update"
                   PROVE  Known(current.doc)' /\ Found(current.doc)'
        OBVIOUS
      <3>1. Known(current.doc) /\ Found(current.doc) /\ current.doc \in Content \ {d}
        BY <1>0, <1>p DEF StageOK, OldOK, Action
      <3>2. StoreSame(current.doc)
        BY <1>c, <3>1
      <3> QED
        BY <1>u, <3>1, <3>2 DEF Known, Found, StoreSame
    <2> QED
      BY <1>u, <2>1, <2>2, <2>3, <2>4, <2>5 DEF StageOK
  <1>5. StoresOK'
    <2>1. Half \subseteq {d} /\ Half' = {d} /\ cut' = cut
      BY <1>0, <1>p, <1>u DEF Half
    <2>2. ASSUME NEW e \in Content \ cut, e # d PROVE Good(e)'
      <3>1. Good(e)
        BY <2>1, <2>2 DEF StoresOK
      <3>2. Same(e)
        BY <1>u, <1>c, <2>2 DEF Same
      <3> QED
        BY <3>1, <3>2, SameGood
    <2> QED
      BY <2>1, <2>2 DEF StoresOK
  <1> QED
    BY <1>1, <1>2, <1>3, <1>4, <1>5

(* The record of a replaced or vanished document goes. *)
LEMMA UnregisterKeeps ==
    ASSUME IInv, Unregister
    PROVE  IInv'
  <1> USE DEF IInv
  <1>0. /\ stage = "unregister" /\ current \in Action
        /\ current.kind \in {"update", "delete"} /\ current.old \in Content
    BY DEF Unregister, ControlOK, Resting, StagesOf, Action, Kind, StageOK, OldOK
  <1>p. PICK d \in Content : d = current.old
    BY <1>0
  <1>u. /\ UNCHANGED <<files, vector, parents, bm25, bm25Saved, imageRow, imageFile,
                       todo, raced, quiet, calm, edits, failures, crashes>>
        /\ registry' = [registry EXCEPT ![d] = None]
        /\ cut' = cut \ {d} /\ lost' = lost \ {d}
        /\ stage' = "pick" /\ current' = None /\ done' = 0 /\ text' = None
    BY <1>0, <1>p DEF Unregister, NextAction, indexes, bounds
  <1>r. /\ registry' \in [Content -> Path \cup {None}] /\ registry'[d] = None
        /\ \A e \in Content \ {d} : registry'[e] = registry[e]
    BY <1>u DEF TypeOK
  <1>1. TypeOK'
    <2>1. stage' \in Stage /\ done' \in 0..4
      BY <1>u DEF Stage
    <2> QED
      BY <1>u, <1>r, <2>1 DEF TypeOK
  <1>2. ControlOK'
    BY <1>u DEF ControlOK, Resting
  <1>3. TodoOK'
    <2>1. ASSUME NEW a \in todo, Builds(a) PROVE Fresh(a)'
      <3>1. Fresh(a) /\ a.doc \in Content
        BY <2>1 DEF TodoOK, TypeOK, Action
      <3> QED
        BY <1>r, <3>1 DEF Fresh, Known
    <2> QED
      BY <1>u, <2>1 DEF TodoOK, OldOK, Read, Builds
  <1>4. StageOK'
    BY <1>u DEF StageOK, Resting
  <1>5. StoresOK'
    <2>1. Half = {d} /\ Half' = {}
      BY <1>0, <1>p, <1>u DEF Half
    <2>2. ASSUME NEW e \in Content \ cut', e # d PROVE Good(e)'
      <3>1. Good(e)
        BY <1>u, <2>1, <2>2 DEF StoresOK
      <3>2. Same(e)
        BY <1>u, <1>r, <2>2 DEF Same, StoreSame, Rows, Bytes
      <3> QED
        BY <3>1, <3>2, SameGood
    <2>3. Good(d)'
      <3>1. vector[d] = None /\ d \notin bm25 /\ d \notin parents /\ Bytes(d) = {} /\ Rows(d) = {}
        BY <1>0, <1>p DEF StageOK, Gone
      <3>2. Rows(d)' = {} /\ Bytes(d)' = {}
        BY <1>u, <3>1 DEF Rows, Bytes
      <3> QED
        BY <1>u, <1>r, <3>1, <3>2 DEF Good, Agrees, Known
    <2> QED
      BY <2>1, <2>2, <2>3 DEF StoresOK
  <1> QED
    BY <1>1, <1>2, <1>3, <1>4, <1>5

(* A moved file: what is registered stays registered. *)
LEMMA MoveKeeps ==
    ASSUME IInv, Move
    PROVE  IInv'
  <1> USE DEF IInv
  <1>0. /\ stage = "move" /\ current \in Action
        /\ current.doc \in Content /\ current.path \in Path
    BY DEF Move, ControlOK, Resting, Action
  <1>u. /\ UNCHANGED <<files, vector, parents, bm25, bm25Saved, imageRow, imageFile,
                       todo, cut, lost, raced, quiet, calm, edits, failures, crashes>>
        /\ stage' = "pick" /\ current' = None /\ done' = 0 /\ text' = None
    BY DEF Move, NextAction, indexes, history, bounds
  <1>r. /\ registry' \in [Content -> Path \cup {None}]
        /\ \A e \in Content : registry'[e] = None <=> registry[e] = None
    BY <1>0, CorpusAssumption DEF Move, Known, TypeOK
  <1>1. TypeOK'
    <2>1. stage' \in Stage /\ done' \in 0..4
      BY <1>u DEF Stage
    <2> QED
      BY <1>u, <1>r, <2>1 DEF TypeOK
  <1>2. ControlOK'
    BY <1>u DEF ControlOK, Resting
  <1>3. TodoOK'
    <2>1. \A a \in todo : Fresh(a) => Fresh(a)'
      BY <1>r DEF Fresh, Known, TypeOK, Action
    <2> QED
      BY <1>u, <2>1 DEF TodoOK, OldOK, Read, Builds
  <1>4. StageOK'
    BY <1>u DEF StageOK, Resting
  <1>5. StoresOK'
    <2>1. Half = {} /\ Half' = {} /\ cut' = cut
      BY <1>0, <1>u DEF Half
    <2>2. \A e \in Content : Same(e)
      BY <1>u, <1>r DEF Same, StoreSame, Rows, Bytes
    <2> QED
      BY <2>1, <2>2, SameGood DEF StoresOK
  <1> QED
    BY <1>1, <1>2, <1>3, <1>4, <1>5

(* An exception, between any two writes: the half-written document is cut. *)
LEMMA FailKeeps ==
    ASSUME IInv, Fail
    PROVE  IInv'
  <1> USE DEF IInv
  <1>u. /\ UNCHANGED <<files, registry, vector, parents, bm25, bm25Saved, imageRow, imageFile,
                       todo, lost, raced, edits, crashes>>
        /\ cut' = cut \cup Half
        /\ stage' = "pick" /\ current' = None /\ done' = 0 /\ text' = None
        /\ quiet' = FALSE /\ calm' = 0
    BY DEF Fail, NextAction, Disturbed, indexes
  <1>h. Half \subseteq Content
    <2>1. stage \notin Resting => current \in Action /\ OldOK(current)
      BY DEF ControlOK, StageOK
    <2>2. stage \in {"drop", "unregister"} => current.kind \in {"update", "delete"}
      BY <2>1 DEF ControlOK, StagesOf, Action, Kind, Resting
    <2> QED
      BY <2>1, <2>2 DEF Half, Resting, Action, OldOK
  <1>1. TypeOK'
    <2>1. stage' \in Stage /\ done' \in 0..4 /\ calm' \in 0..2
      BY <1>u DEF Stage
    <2>2. failures' \in 0..MaxFailures
      BY CorpusAssumption DEF Fail, TypeOK
    <2>3. quiet' \in BOOLEAN
      BY <1>u, Zenon
    <2>4. cut' \subseteq Content
      BY <1>u, <1>h DEF TypeOK
    <2> QED
      BY <1>u, <2>1, <2>2, <2>3, <2>4 DEF TypeOK
  <1>2. ControlOK'
    BY <1>u DEF ControlOK, Resting
  <1>3. TodoOK'
    BY <1>u DEF TodoOK, OldOK, Fresh, Read, Known, Builds
  <1>4. StageOK'
    BY <1>u DEF StageOK, Resting
  <1>5. StoresOK'
    <2>1. Half' = {}
      BY <1>u DEF Half
    <2>2. \A d \in Content : Same(d)
      BY <1>u DEF Same, StoreSame, Rows, Bytes
    <2> QED
      BY <1>u, <2>1, <2>2, SameGood DEF StoresOK
  <1> QED
    BY <1>1, <1>2, <1>3, <1>4, <1>5

(* The last action is done. *)
LEMMA FinishKeeps ==
    ASSUME IInv, Finish
    PROVE  IInv'
  <1> USE DEF IInv
  <1>u. /\ UNCHANGED <<files, registry, vector, parents, bm25, bm25Saved, imageRow, imageFile,
                       todo, current, done, text, cut, lost, raced, quiet, calm, edits,
                       failures, crashes>>
        /\ stage = "pick" /\ todo = {} /\ stage' = "save"
    BY DEF Finish, indexes, history, bounds
  <1>1. TypeOK'
    BY <1>u DEF TypeOK, Stage
  <1>2. ControlOK'
    BY <1>u DEF ControlOK, Resting
  <1>3. TodoOK'
    BY <1>u DEF TodoOK
  <1>4. StageOK'
    BY <1>u DEF StageOK, Resting
  <1>5. StoresOK'
    <2>1. Half = {} /\ Half' = {}
      BY <1>u DEF Half
    <2>2. \A d \in Content : Same(d)
      BY <1>u DEF Same, StoreSame, Rows, Bytes
    <2> QED
      BY <1>u, <2>1, <2>2, SameGood DEF StoresOK
  <1> QED
    BY <1>1, <1>2, <1>3, <1>4, <1>5

(* The BM25 file is emptied. *)
LEMMA SaveKeeps ==
    ASSUME IInv, Save
    PROVE  IInv'
  <1> USE DEF IInv
  <1>u. /\ UNCHANGED <<files, registry, vector, parents, bm25, imageRow, imageFile,
                       todo, current, done, text, cut, lost, raced, quiet, calm, edits,
                       failures, crashes>>
        /\ stage = "save" /\ stage' = "dump" /\ bm25Saved' = None
    BY DEF Save, history, bounds
  <1>1. TypeOK'
    BY <1>u DEF TypeOK, Stage
  <1>2. ControlOK'
    BY <1>u DEF ControlOK, Resting
  <1>3. TodoOK'
    BY <1>u DEF TodoOK, ControlOK
  <1>4. StageOK'
    BY <1>u DEF StageOK, Resting
  <1>5. StoresOK'
    <2>1. Half = {} /\ Half' = {}
      BY <1>u DEF Half
    <2>2. \A d \in Content : Same(d)
      BY <1>u DEF Same, StoreSame, Rows, Bytes
    <2> QED
      BY <1>u, <2>1, <2>2, SameGood DEF StoresOK
  <1> QED
    BY <1>1, <1>2, <1>3, <1>4, <1>5

(* The index is pickled into the file: what is on disk is what was in memory. *)
LEMMA DumpKeeps ==
    ASSUME IInv, Dump
    PROVE  IInv'
  <1> USE DEF IInv
  <1>u. /\ UNCHANGED <<files, registry, vector, parents, bm25, imageRow, imageFile,
                       todo, current, done, text, cut, lost, raced, quiet, edits,
                       failures, crashes>>
        /\ stage = "dump" /\ stage' = "idle" /\ bm25Saved' = bm25
    BY DEF Dump, bounds
  <1>1. TypeOK'
    <2>1. calm' \in 0..2
      BY DEF Dump, TypeOK
    <2> QED
      BY <1>u, <2>1 DEF TypeOK, Stage
  <1>2. ControlOK'
    <2>1. OnDisk' = bm25'
      BY <1>u, CorpusAssumption DEF OnDisk, TypeOK
    <2> QED
      BY <1>u, <2>1 DEF ControlOK, Resting
  <1>3. TodoOK'
    BY <1>u DEF TodoOK, ControlOK
  <1>4. StageOK'
    BY <1>u DEF StageOK, Resting
  <1>5. StoresOK'
    <2>1. Half = {} /\ Half' = {}
      BY <1>u DEF Half
    <2>2. \A d \in Content : Same(d)
      BY <1>u DEF Same, StoreSame, Rows, Bytes
    <2> QED
      BY <1>u, <2>1, <2>2, SameGood DEF StoresOK
  <1> QED
    BY <1>1, <1>2, <1>3, <1>4, <1>5

(* The process dies between any two writes, and the BM25 changes with it. *)
LEMMA CrashKeeps ==
    ASSUME IInv, Crash
    PROVE  IInv'
  <1> USE DEF IInv
  <1>u. /\ UNCHANGED <<files, registry, vector, parents, bm25Saved, imageRow, imageFile,
                       raced, edits, failures>>
        /\ bm25' = OnDisk
        /\ cut' = cut \cup Half
        /\ lost' = lost \cup (bm25 \ OnDisk) \cup (OnDisk \ bm25)
        /\ stage' = "idle" /\ todo' = {} /\ current' = None /\ done' = 0 /\ text' = None
        /\ quiet' = FALSE /\ calm' = 0
    BY DEF Crash, Disturbed
  <1>h. Half \subseteq Content
    <2>1. stage \notin Resting => current \in Action /\ OldOK(current)
      BY DEF ControlOK, StageOK
    <2>2. stage \in {"drop", "unregister"} => current.kind \in {"update", "delete"}
      BY <2>1 DEF ControlOK, StagesOf, Action, Kind, Resting
    <2> QED
      BY <2>1, <2>2 DEF Half, Resting, Action, OldOK
  <1>d. OnDisk \subseteq Content
    BY DEF OnDisk, TypeOK
  <1>1. TypeOK'
    <2>1. stage' \in Stage /\ done' \in 0..4 /\ calm' \in 0..2
      BY <1>u DEF Stage
    <2>2. crashes' \in 0..MaxCrashes
      BY CorpusAssumption DEF Crash, TypeOK
    <2>3. quiet' \in BOOLEAN
      BY <1>u, Zenon
    <2>4. cut' \subseteq Content /\ lost' \subseteq Content /\ bm25' \subseteq Content
      BY <1>u, <1>h, <1>d DEF TypeOK
    <2> QED
      BY <1>u, <2>1, <2>2, <2>3, <2>4 DEF TypeOK
  <1>2. ControlOK'
    BY <1>u DEF ControlOK, Resting, OnDisk
  <1>3. TodoOK'
    BY <1>u DEF TodoOK
  <1>4. StageOK'
    BY <1>u DEF StageOK, Resting
  <1>5. StoresOK'
    <2>1. Half' = {}
      BY <1>u DEF Half
    <2> SUFFICES ASSUME NEW d \in Content \ (cut \cup Half) PROVE Good(d)'
      BY <1>u, <2>1 DEF StoresOK
    <2>2. Good(d)
      BY DEF StoresOK
    <2>3. d \in lost' \/ (d \in bm25' <=> d \in bm25)
      BY <1>u
    <2>4. Rows(d)' = Rows(d) /\ Bytes(d)' = Bytes(d)
      BY <1>u DEF Rows, Bytes
    <2>5. d \in lost => d \in lost'
      BY <1>u
    <2> QED
      BY <1>u, <2>2, <2>3, <2>4, <2>5 DEF Good, Agrees, Known, Backed
  <1> QED
    BY <1>1, <1>2, <1>3, <1>4, <1>5

(* Every step keeps the inductive invariant. *)
LEMMA NextKeeps == IInv /\ [Next]_vars => IInv'
  <1> SUFFICES ASSUME IInv, [Next]_vars PROVE IInv'
    OBVIOUS
  <1>0. ASSUME UNCHANGED vars PROVE IInv'
    BY <1>0 DEF vars, indexes, run, history, bounds, IInv, TypeOK, ControlOK, TodoOK, StageOK,
                StoresOK, OnDisk, OldOK, Fresh, Read, Gone, Made, Found, Backed, NewImages,
                Good, Agrees, Known, Rows, Bytes, Half
  <1>1. CASE UNCHANGED vars
    BY <1>0, <1>1
  <1>2. CASE Process
    BY <1>0, <1>2, StartKeeps, PickKeeps, CleanKeeps, ParseKeeps, NotParsedKeeps, BuildKeeps,
       RegisterKeeps, DropKeeps, UnregisterKeeps, MoveKeeps, FinishKeeps, SaveKeeps, DumpKeeps
       DEF Process, LoadFails
  <1>3. CASE \E p \in Path, c \in Content \cup {None} : Edit(p, c)
    BY <1>3, EditKeeps
  <1>4. CASE \E p, q \in Path : Rename(p, q)
    BY <1>4, RenameKeeps
  <1>5. CASE Fail \/ Crash
    BY <1>5, FailKeeps, CrashKeeps
  <1> QED
    BY <1>1, <1>2, <1>3, <1>4, <1>5 DEF Next

(* IInv holds in every state any ingest reaches, whatever is edited, and   *)
(* wherever an exception or a crash falls between two writes               *)
(* (pipeline/ingest.py, ingestion/actions.py:61-67).                       *)
THEOREM Invariance == Spec => []IInv
  <1> QED
    BY InitIInv, NextKeeps, PTL DEF Spec

(* Type correctness of the directory, the stores and the run. *)
THEOREM TypeCorrect == Spec => []TypeOK
  <1>1. IInv => TypeOK
    BY DEF IInv
  <1> QED
    BY <1>1, Invariance, PTL

(* The registry, Chroma, BM25, the parent blocks and the image store agree *)
(* about every document, but for those a fault caught between their own    *)
(* writes (_apply_new_or_update, _apply_delete, execute).                  *)
THEOREM StoresAgree == Spec => []Aligned
  <1>1. IInv => Aligned
    BY DEF IInv, StoresOK, Good, Aligned
  <1> QED
    BY <1>1, Invariance, PTL

(* The ImageRecord of an image names a registered document under which its *)
(* bytes are stored, unless a fault fell between that document's writes:   *)
(* bytes before the row (_process_block) and bytes before the row again    *)
(* (image_store.delete_by_doc), each in a step of its own.                 *)
THEOREM ImagesBacked == Spec => []ImageRowsBacked
  <1>1. IInv => ImageRowsBacked
    <2> SUFFICES ASSUME IInv, NEW d \in Content \ (cut \cup Half), Rows(d) # {}
                 PROVE  Known(d) /\ Rows(d) \subseteq Bytes(d)
      BY DEF ImageRowsBacked
    <2>1. Good(d)
      BY DEF IInv, StoresOK
    <2> QED
      BY <2>1 DEF Good, Agrees, Backed
  <1> QED
    BY <1>1, Invariance, PTL

(* A registered document stops being searchable only because its file is   *)
(* gone or because its replacement is registered and searchable already    *)
(* (_apply_new_or_update builds first and deletes afterwards).             *)
THEOREM NeverAGap == Spec => NoGap
  <1> DEFINE Safe ==
        \A d \in Content :
            (Known(d) /\ vector[d] # None /\ vector'[d] = None) =>
                /\ current.old = d
                /\ \/ current.kind = "delete"
                   \/ /\ current.kind = "update"
                      /\ Known(current.doc) /\ vector[current.doc] # None
                      /\ current.doc \in bm25
  <1>1. IInv /\ [Next]_vars => [Safe]_vars
    <2> SUFFICES ASSUME IInv, Next, NEW d \in Content,
                        Known(d), vector[d] # None, vector'[d] = None
                 PROVE  /\ current.old = d
                        /\ \/ current.kind = "delete"
                           \/ /\ current.kind = "update"
                              /\ Known(current.doc) /\ vector[current.doc] # None
                              /\ current.doc \in bm25
      OBVIOUS
    <2> USE DEF IInv
    <2>1. vector' # vector
      OBVIOUS
    <2>2. CASE Clean
      <3>1. current.doc = d
        BY <2>2 DEF Clean, DeleteChunks, Residue, TypeOK
      <3> QED
        BY <2>2, <3>1 DEF Clean, StageOK, Fresh
    <2>3. CASE Build
      <3>1. current.doc = d
        BY <2>3 DEF Build, StoreChunks, TypeOK
      <3> QED
        BY <2>3, <3>1 DEF Build, StageOK, Fresh
    <2>4. CASE Drop
      <3>1. current.old = d
        BY <2>4 DEF Drop, DeleteChunks, TypeOK
      <3>2. current.kind \in {"update", "delete"}
        BY <2>4 DEF Drop, ControlOK, Resting, StagesOf, Action, Kind
      <3> QED
        BY <2>4, <3>1, <3>2 DEF Drop, StageOK, Found
    <2>5. Clean \/ Build \/ Drop
      BY <2>1 DEF Next, Process, Start, LoadFails, vars, Pick, Parse, NotParsed, Fail, Register,
                  Unregister, Move, Finish, Save, Dump, Crash, Edit, Rename, Change, indexes
    <2> QED
      BY <2>2, <2>3, <2>4, <2>5
  <1>2. NoGap <=> [][Safe]_vars
    BY DEF NoGap
  <1> QED
    BY <1>1, <1>2, Invariance, PTL DEF Spec
=============================================================================
