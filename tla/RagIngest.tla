------------------------------ MODULE RagIngest ------------------------------
(***************************************************************************)
(* The incremental ingest of agents_rag (pipeline/ingest.py with           *)
(* ingestion/collector.py, actions.py and the stores of indexing/).        *)
(*                                                                         *)
(* A document is identified by its content (doc_id = fingerprint + one     *)
(* namespace), so a member of Content is both what a file holds and the    *)
(* doc_id.  Chroma, the parent blocks, the image store and the registry    *)
(* are durable at every write, and each is written in a step of its own:   *)
(* an exception or a crash can fall between any two.  BM25 is held in      *)
(* memory and saved once, when the run is over.  A content that can be     *)
(* parsed yields at least one chunk and at most one image; one store's     *)
(* chunks of a document are written and deleted as a whole.                *)
(***************************************************************************)
EXTENDS Naturals, FiniteSets

CONSTANTS
    NPaths,       \* number of paths; the scan visits them in this order
    Content,      \* file contents, and with them the documents
    Unparsable,   \* contents no parser accepts: low quality, or no parser
    Image,        \* image contents
    ImageOf,      \* [Content -> Image \cup {None}]
    MaxEdits,     \* bound: changes to the tree
    MaxFailures,  \* bound: exceptions an action raises
    MaxCrashes,   \* bound: deaths of the ingest process
    None

Path == 1..NPaths

ASSUME CorpusAssumption ==
    /\ NPaths \in Nat
    /\ Unparsable \subseteq Content
    /\ ImageOf \in [Content -> Image \cup {None}]
    /\ None \notin Content \cup Image
    /\ \A S \in SUBSET Content : S # None
    /\ None \notin Path
    /\ MaxEdits \in Nat /\ MaxFailures \in Nat /\ MaxCrashes \in Nat

VARIABLES
    files,      \* [Path -> Content or None]: the directory
    registry,   \* [Content -> Path or None]: source_path of each record
    vector,     \* [Content -> Content or None]: whose text a doc_id's chunks hold
    parents,    \* doc_ids with parent blocks
    bm25,       \* doc_ids in the BM25 index in memory
    bm25Saved,  \* doc_ids in the BM25 file, or None: the file is cut off
    imageRow,   \* [Image -> Content or None]: doc_id of the ImageRecord
    imageFile,  \* <<doc_id, image>> pairs stored under images/<doc_id>/
    todo,       \* the actions of the run still to execute
    current,    \* the action being executed, or None
    stage,      \* how far the process is
    done,       \* how many of the five stores the stage has written
    text,       \* the content the action has parsed, or None
    cut,        \* history: documents an exception or a crash left half-written
    lost,       \* history: documents whose BM25 change a crash undid
    raced,      \* history: documents whose file changed after the scan
    quiet,      \* history: nothing disturbed the run so far
    calm,       \* history: undisturbed runs since the last disturbance, up to 2
    edits, failures, crashes  \* bounded counters

indexes == <<vector, parents, bm25, bm25Saved, imageRow, imageFile>>
run == <<todo, current, stage, done, text>>
history == <<cut, lost, raced, quiet, calm>>
bounds == <<edits, failures, crashes>>
vars == <<files, registry, indexes, run, history, bounds>>

Kind == {"new", "update", "delete", "move"}
Action == [kind : Kind, doc : Content, path : Path,
           old : Content \cup {None}]
Stage == {"idle", "pick", "clean", "parse", "build", "register",
          "drop", "unregister", "move", "save", "dump"}

ASSUME NoneAssumption == None \notin Action

Known(d) == registry[d] # None
Rows(d) == {i \in Image : imageRow[i] = d}
Bytes(d) == {i \in Image : <<d, i>> \in imageFile}
Builds(a) == a.kind \in {"new", "update"}

-----------------------------------------------------------------------------
(* scan_directory and diff: five kinds of action, of which skip is none.    *)

Scanned == {files[p] : p \in Path} \ {None}

\* scan_by_doc keeps the last file of a content.
ScannedAt(d) ==
    CHOOSE p \in Path : /\ files[p] = d
                        /\ \A q \in Path : files[q] = d => q <= p

\* reg_by_path keeps one record of a path; a crash can leave it two.
RecordsByPath ==
    {byPath \in [Path -> Content \cup {None}] :
        \A p \in Path :
            LET at == {d \in Content : registry[d] = p}
            IN  byPath[p] \in (IF at = {} THEN {None} ELSE at)}

ActionFor(d, byPath) ==
    LET p == ScannedAt(d)
    IN  [doc |-> d, path |-> p,
         kind |-> IF Known(d) THEN "move"
                  ELSE IF byPath[p] # None THEN "update" ELSE "new",
         old |-> IF Known(d) THEN d ELSE byPath[p]]

\* A faulty diff: a path that is registered is never looked at again.
DiffByPath(byPath) ==
    {ActionFor(d, byPath) : d \in
        {e \in Scanned : ~Known(e) /\ byPath[ScannedAt(e)] = None}}

Diff(byPath) ==
    LET built == {ActionFor(d, byPath) : d \in
                    {e \in Scanned : registry[e] # ScannedAt(e)}}
        replaced == {a.old : a \in {b \in built : b.kind = "update"}}
        gone == {d \in Content : Known(d) /\ d \notin Scanned \cup replaced}
    IN  built \cup
        {[doc |-> d, path |-> registry[d], kind |-> "delete", old |-> d] :
            d \in gone}

-----------------------------------------------------------------------------
Init ==
    /\ files = [p \in Path |-> None]
    /\ registry = [d \in Content |-> None]
    /\ vector = [d \in Content |-> None]
    /\ parents = {}
    /\ bm25 = {} /\ bm25Saved = {}
    /\ imageRow = [i \in Image |-> None]
    /\ imageFile = {}
    /\ todo = {} /\ current = None /\ stage = "idle" /\ done = 0 /\ text = None
    /\ cut = {} /\ lost = {} /\ raced = {} /\ quiet = FALSE /\ calm = 0
    /\ edits = 0 /\ failures = 0 /\ crashes = 0

\* The run is not, or no longer, one that nothing disturbs.
Disturbed == quiet' = FALSE /\ calm' = 0

\* The actions whose file is scanned and not parsed yet.
Unread == {a \in todo : Builds(a)} \cup
          (IF stage \in {"clean", "parse"} THEN {current} ELSE {})

Change(paths) ==
    /\ edits < MaxEdits /\ edits' = edits + 1
    /\ raced' = raced \cup {a.doc : a \in {b \in Unread : b.path \in paths}}
    /\ Disturbed
    /\ UNCHANGED <<registry, indexes, run, cut, lost, failures, crashes>>

\* The owner of the directory puts, replaces or removes a file ...
Edit(p, c) ==
    /\ files[p] # c
    /\ files' = [files EXCEPT ![p] = c]
    /\ Change({p})

\* ... or renames it.
Rename(p, q) ==
    /\ p # q /\ files[p] # None
    /\ files' = [files EXCEPT ![p] = None, ![q] = files[p]]
    /\ Change({p, q})

\* `agents-rag ingest`: load BM25, scan, diff against the registry.
Start ==
    /\ stage = "idle" /\ bm25Saved # None
    /\ \E byPath \in RecordsByPath : todo' = Diff(byPath)
    /\ bm25' = bm25Saved
    /\ stage' = "pick"
    /\ raced' = raced \ {a.doc : a \in {b \in todo' : Builds(b)}}
    /\ quiet' = TRUE
    /\ UNCHANGED <<files, registry, vector, parents, bm25Saved, imageRow,
                   imageFile, current, done, text, cut, lost, calm, bounds>>

\* A BM25 file that was cut off cannot be unpickled, by this run or a later one.
LoadFails == stage = "idle" /\ bm25Saved = None /\ UNCHANGED vars

\* order_actions: what is built comes before what is deleted or moved.
Phase(a) == IF Builds(a) THEN 1 ELSE 2

FirstStage(a) ==
    CASE Builds(a) -> "clean"
      [] a.kind = "delete" -> "drop"
      [] a.kind = "move" -> "move"

Pick(a) ==
    /\ stage = "pick" /\ a \in todo
    /\ \A b \in todo : Phase(a) <= Phase(b)
    /\ todo' = todo \ {a} /\ current' = a /\ stage' = FirstStage(a)
    /\ UNCHANGED <<files, registry, indexes, done, text, history, bounds>>

NextAction == stage' = "pick" /\ current' = None /\ done' = 0 /\ text' = None

-----------------------------------------------------------------------------
(* The stores, one after the other. *)

ImageRowsKept(d) == imageRow  \* a faulty delete_by_doc: the directory only
ImageRowsWithout(d) ==
    [i \in Image |-> IF imageRow[i] = d THEN None ELSE imageRow[i]]

Bm25Kept(d) == bm25           \* a faulty _delete_chunks: BM25 forgotten
Bm25Without(d) == bm25 \ {d}

\* IngestPipeline._delete_chunks: the bytes of the images go before their rows.
DeleteChunks(d) ==
    /\ vector' = IF done = 0 THEN [vector EXCEPT ![d] = None] ELSE vector
    /\ bm25' = IF done = 1 THEN Bm25Without(d) ELSE bm25
    /\ parents' = IF done = 2 THEN parents \ {d} ELSE parents
    /\ imageFile' = IF done = 3 THEN {f \in imageFile : f[1] # d} ELSE imageFile
    /\ imageRow' = IF done = 4 THEN ImageRowsWithout(d) ELSE imageRow

\* _process_block: an image whose content_hash is recorded is not stored again.
NewImages(c) == {i \in Image : i = ImageOf[c] /\ imageRow[i] = None}

\* The bytes of the image, its row once it is described, and the three indexes.
StoreChunks(d, c) ==
    /\ imageFile' = IF done = 0 THEN imageFile \cup ({d} \X NewImages(c)) ELSE imageFile
    /\ imageRow' = [i \in Image |-> IF done = 1 /\ i \in NewImages(c)
                                     THEN d ELSE imageRow[i]]
    /\ vector' = IF done = 2 THEN [vector EXCEPT ![d] = c] ELSE vector
    /\ bm25' = IF done = 3 THEN bm25 \cup {d} ELSE bm25
    /\ parents' = IF done = 4 THEN parents \cup {d} ELSE parents

\* After the last store the process goes on to the next stage.
LastStore == done = 4
Advance(next) ==
    /\ done' = IF LastStore THEN 0 ELSE done + 1
    /\ stage' = IF LastStore THEN next ELSE stage
    /\ UNCHANGED <<bm25Saved, files, registry, todo, current, text,
                   raced, quiet, calm, bounds>>

-----------------------------------------------------------------------------
(* _apply_new_or_update, _apply_delete and _apply_move. *)

\* Residue of an earlier attempt of the document goes first.
ResidueAndOld(a) == IF a.kind = "update" THEN a.old ELSE a.doc \* a faulty order
Residue(a) == a.doc

Clean ==
    /\ stage = "clean"
    /\ DeleteChunks(Residue(current))
    /\ cut' = IF LastStore THEN cut \ {current.doc} ELSE cut
    /\ lost' = IF LastStore THEN lost \ {current.doc} ELSE lost
    /\ Advance("parse")

\* The file is read again here: it may no longer hold what was scanned.
PathAsText(a) == a.path  \* a faulty build that indexes the path
TextOf(a) == files[a.path]

Parse ==
    /\ stage = "parse" /\ files[current.path] \notin Unparsable \cup {None}
    /\ text' = TextOf(current)
    /\ stage' = "build"
    /\ UNCHANGED <<files, registry, indexes, todo, current, done, history, bounds>>

\* The parser returns nothing, in this run or any other, and surely so when
\* the file is gone: the action fails and the batch goes on.
NotParsed ==
    /\ stage = "parse" /\ files[current.path] \in Unparsable \cup {None}
    /\ NextAction
    /\ UNCHANGED <<files, registry, indexes, todo, history, bounds>>

Build ==
    /\ stage = "build"
    /\ StoreChunks(current.doc, text)
    /\ UNCHANGED <<cut, lost>>
    /\ Advance("register")

Replaces(a) == a.kind = "update" /\ a.old # a.doc

Register ==
    /\ stage = "register"
    /\ registry' = [registry EXCEPT ![current.doc] = current.path]
    /\ IF Replaces(current)
       THEN stage' = "drop" /\ text' = None /\ UNCHANGED <<current, done>>
       ELSE NextAction
    /\ UNCHANGED <<files, indexes, todo, history, bounds>>

\* The replaced document of an update, or the vanished one of a delete.
Drop ==
    /\ stage = "drop"
    /\ DeleteChunks(current.old)
    /\ UNCHANGED <<cut, lost>>
    /\ Advance("unregister")

Unregister ==
    /\ stage = "unregister"
    /\ registry' = [registry EXCEPT ![current.old] = None]
    /\ cut' = cut \ {current.old} /\ lost' = lost \ {current.old}
    /\ NextAction
    /\ UNCHANGED <<files, indexes, todo, raced, quiet, calm, bounds>>

\* _apply_move: nothing to do when the record is gone by now.
Move ==
    /\ stage = "move"
    /\ registry' = IF Known(current.doc)
                   THEN [registry EXCEPT ![current.doc] = current.path]
                   ELSE registry
    /\ NextAction
    /\ UNCHANGED <<files, indexes, todo, history, bounds>>

\* The document some of whose stores are written and some not.
Half ==
    CASE stage = "build" /\ done > 0 -> {current.doc}
      [] stage = "register" -> {current.doc}
      [] stage = "drop" /\ done > 0 -> {current.old}
      [] stage = "unregister" -> {current.old}
      [] OTHER -> {}

\* execute isolates an exception, whichever call of the handler raised it: what
\* is written stays, the action is dropped, the batch goes on.
Fail ==
    /\ stage \in {"clean", "parse", "build", "register", "drop", "unregister", "move"}
    /\ failures < MaxFailures /\ failures' = failures + 1
    /\ cut' = cut \cup Half
    /\ NextAction /\ Disturbed
    /\ UNCHANGED <<files, registry, indexes, todo, lost, raced, edits, crashes>>

Finish ==
    /\ stage = "pick" /\ todo = {}
    /\ stage' = "save"
    /\ UNCHANGED <<files, registry, indexes, todo, current, done, text,
                   history, bounds>>

\* bm25.save empties the file first ...
Save ==
    /\ stage = "save"
    /\ bm25Saved' = None
    /\ stage' = "dump"
    /\ UNCHANGED <<files, registry, vector, parents, bm25, imageRow, imageFile,
                   todo, current, done, text, history, bounds>>

\* ... and pickles the index into it; the run is over.
Dump ==
    /\ stage = "dump"
    /\ bm25Saved' = bm25
    /\ stage' = "idle"
    /\ calm' = IF ~quiet THEN 0 ELSE IF calm = 2 THEN 2 ELSE calm + 1
    /\ UNCHANGED <<files, registry, vector, parents, bm25, imageRow, imageFile,
                   todo, current, done, text, cut, lost, raced, quiet, bounds>>

\* The process dies, and with it the BM25 index of this run.
OnDisk == IF bm25Saved = None THEN {} ELSE bm25Saved

Crash ==
    /\ stage # "idle"
    /\ crashes < MaxCrashes /\ crashes' = crashes + 1
    /\ stage' = "idle" /\ todo' = {} /\ current' = None /\ done' = 0 /\ text' = None
    /\ bm25' = OnDisk
    /\ cut' = cut \cup Half
    /\ lost' = lost \cup (bm25 \ OnDisk) \cup (OnDisk \ bm25)
    /\ Disturbed
    /\ UNCHANGED <<files, registry, vector, parents, bm25Saved, imageRow,
                   imageFile, raced, edits, failures>>

Process ==
    \/ Start \/ LoadFails
    \/ \E a \in todo : Pick(a)
    \/ Clean \/ Parse \/ NotParsed \/ Build \/ Register
    \/ Drop \/ Unregister \/ Move \/ Finish \/ Save \/ Dump

Next ==
    \/ Process
    \/ Fail \/ Crash
    \/ \E p \in Path, c \in Content \cup {None} : Edit(p, c)
    \/ \E p, q \in Path : Rename(p, q)

Spec == Init /\ [][Next]_vars

-----------------------------------------------------------------------------
TypeOK ==
    /\ files \in [Path -> Content \cup {None}]
    /\ registry \in [Content -> Path \cup {None}]
    /\ vector \in [Content -> Content \cup {None}]
    /\ parents \subseteq Content /\ bm25 \subseteq Content
    /\ bm25Saved = None \/ bm25Saved \subseteq Content
    /\ imageRow \in [Image -> Content \cup {None}]
    /\ imageFile \subseteq Content \X Image
    /\ todo \subseteq Action /\ current \in Action \cup {None}
    /\ stage \in Stage /\ done \in 0..4 /\ text \in Content \cup {None}
    /\ cut \subseteq Content /\ lost \subseteq Content /\ raced \subseteq Content
    /\ quiet \in BOOLEAN /\ calm \in 0..2
    /\ edits \in 0..MaxEdits /\ failures \in 0..MaxFailures
    /\ crashes \in 0..MaxCrashes

\* Whatever fails, dies or is edited, wherever: a document is registered exactly
\* if it is in Chroma, in BM25 and among the parent blocks, an unregistered one
\* keeps no image, and its chunks hold its own text.  The exceptions are no
\* wider than the fault: a document the fault caught between its own writes, until
\* it is built or deleted again, one whose BM25 change a crash took, and one
\* whose own file changed between scan and parse.
Agrees(d) ==
    /\ Known(d) <=> vector[d] # None
    /\ Known(d) <=> d \in parents
    /\ d \in lost \/ (Known(d) <=> d \in bm25)
    /\ Known(d) \/ Rows(d) \cup Bytes(d) = {}
    /\ d \in raced \/ vector[d] \in {d, None}

Aligned == \A d \in Content \ (cut \cup Half) : Agrees(d)

\* The ImageRecord of an image names a registered document under which the bytes
\* are stored, unless a fault fell between that document's own writes.
ImageRowsBacked ==
    \A d \in Content \ (cut \cup Half) :
        Rows(d) # {} => Known(d) /\ Rows(d) \subseteq Bytes(d)

\* Build first, delete afterwards: a registered document stops being
\* searchable only because its file is gone, or because the document that
\* replaces it is registered and searchable already.
NoGap ==
    [][\A d \in Content :
        (Known(d) /\ vector[d] # None /\ vector'[d] = None) =>
            /\ current.old = d
            /\ \/ current.kind = "delete"
               \/ /\ current.kind = "update"
                  /\ Known(current.doc) /\ vector[current.doc] # None
                  /\ current.doc \in bm25]_vars

\* Two undisturbed runs over a tree at rest repair what earlier faults, races
\* and moves left: every document that can be parsed is registered at its file
\* and, unless a fault fell between its own writes or took its BM25 change, found
\* in all three indexes; nothing else is registered, but an old version whose
\* successor cannot be parsed.
Settled ==
    (stage = "idle" /\ calm = 2) =>
        /\ \A d \in Scanned \ Unparsable :
              /\ registry[d] = ScannedAt(d)
              /\ d \notin cut \cup lost =>
                    vector[d] # None /\ d \in parents /\ d \in bm25Saved
        /\ \A d \in Content :
              Known(d) => \/ d \in Scanned
                          \/ files[registry[d]] \in Unparsable

\* Not so in the code, whose updates come first and delete what is to be moved:
\* when a run that nothing disturbed is over, every file it scanned is registered,
\* the moved ones under their new path (collector.py:90-91).
MovedStaysIndexed ==
    (stage = "idle" /\ calm > 0) =>
        \A d \in Scanned \ Unparsable : Known(d)

\* Not so in the code, which stores an image under the first document that shows
\* it and deletes it with that document: without any fault, the image an indexed
\* chunk refers to can be fetched (image_store.py:105, ingest.py:172-178).
ImageRetrievable ==
    (stage = "idle" /\ calm > 0 /\ failures + crashes = 0) =>
        \A d \in Content \ raced :
            Known(d) /\ ImageOf[d] # None =>
                \E e \in Content : ImageOf[d] \in Bytes(e)
=============================================================================
