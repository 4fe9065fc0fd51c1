------------------------- MODULE AgentIngestion_proofs -------------------------
(***************************************************************************)
(* Whatever imports, posts, proposals, questions and decisions interleave, *)
(* and wherever they stop: nothing is imported twice or left out, and an   *)
(* eligible row is found.                                                  *)
(***************************************************************************)
EXTENDS AgentIngestion, MemoryService_proofs, FiniteSetTheorems

-----------------------------------------------------------------------------
(* The invariant *)

SourceRef == [name: STRING, chunk: Nat, content_hash: STRING]

PC ==
  {"idle", "list", "chunk", "reindex", "ensure", "create", "upsert",
   "build", "search", "get", "fallback", "candidates"}

Task ==
  [pc: PC, doc: Document \cup {NoDocument}, chunk: Nat, indexes: BOOLEAN,
   existing: SUBSET SourceRef, batch: SUBSET Ids, found: SUBSET Ids, before: SUBSET Ids]

Indexing == {"ensure", "create", "upsert"}

\* A task that stores a document.
Storing(t) ==
  /\ t.doc \in Documents
  /\ t.chunk \in DOMAIN t.doc.chunks
  /\ t.pc \in {"list", "chunk", "reindex"} \cup Indexing
  /\ t.pc = "list" => Looks(t.doc)
  /\ t.pc = "reindex" => t.doc.kind = "seed"
  /\ t.batch # {} => t.pc \in Indexing

\* A task that answers a question.
Asking(t) ==
  /\ t.doc = NoDocument
  /\ t.pc \in {"build", "ensure", "create", "search", "get", "fallback", "candidates"}
  /\ t.batch = {}
  /\ t.pc # "build" => agent

\* Rows come from documents, under the ids uuid4 returns.
RowsOK ==
  /\ TypeOK
  /\ source \in [Ids -> SourceRef \cup {NoSource}]
  /\ \A id \in Stored : \E doc \in Documents :
       \E i \in DOMAIN doc.chunks : source[id] = SourceOf(doc, i)
  /\ Stored \subseteq {uuids[k] : k \in DOMAIN uuids}
  /\ points \subseteq Stored
  /\ offered \in DOMAIN Offers

\* A row that could be used once, and what becomes of it.
UsedOnce(id) ==
  IsStored(id) /\ memories[id].status \in {"verified_active", "superseded", "expired"}

TaskOK(t) ==
  /\ t \in Task
  /\ t = NoTask \/ Storing(t) \/ Asking(t)
  /\ t.existing \subseteq Existing
  /\ t.batch \subseteq Stored
  /\ t.found \subseteq Stored
  /\ \A id \in t.before : UsedOnce(id)

\* What EligibleAreFound says of one task.
FindsEnough(t) ==
  t.pc = "candidates" =>
    Cardinality(t.found) >= retrieval_limit \/ t.before \cap Usable \subseteq t.found

\* The chunks an import is past are stored.
Progress(t) ==
  t.doc # NoDocument /\ t.doc.kind # "seed" =>
    \A i \in DOMAIN t.doc.chunks :
      i < t.chunk \/ (i = t.chunk /\ t.pc \in Indexing) => SourceOf(t.doc, i) \in Existing

\* What holds of a task whatever the others do.
Settled(t) == TaskOK(t) /\ Progress(t) /\ FindsEnough(t)

\* Two imports under one name, of which one looks for what is there, are known.
Sharing(v, w) ==
  /\ task[v].doc # NoDocument /\ task[w].doc # NoDocument
  /\ Looks(task[v].doc) /\ task[v].doc.name = task[w].doc.name
  => task[v].doc.name \in shared

\* What an import that is alone under its name has not seen in its listing, it
\* has stored itself.
Covers(t) ==
  t.doc # NoDocument /\ Looks(t.doc) /\ t.pc # "list" /\ t.doc.name \notin shared =>
    \A id \in Stored : source[id].name = t.doc.name =>
      \/ source[id] \in t.existing
      \/ source[id].chunk < t.chunk
      \/ source[id].chunk = t.chunk /\ t.pc \in Indexing

TasksOK ==
  /\ task \in [Importers -> Task]
  /\ \A w \in Importers : Settled(task[w]) /\ Covers(task[w])
  /\ \A v, w \in Importers : v # w => Sharing(v, w)

IngestionInv ==
  /\ RowsOK
  /\ TasksOK
  /\ imported \subseteq Documents
  /\ ImportedOnce
  /\ ImportsAreComplete

-----------------------------------------------------------------------------
(* Documents and what follows a chunk *)

LEMMA DocumentFacts ==
  ASSUME offered \in DOMAIN Offers, NEW doc \in Documents
  PROVE  /\ doc \in Document /\ doc # NoDocument
         /\ doc.chunks \in Seq(STRING) /\ doc.name \in STRING
         /\ 1 \in DOMAIN doc.chunks /\ DOMAIN doc.chunks = 1..Len(doc.chunks)
         /\ Len(doc.chunks) \in Nat
         /\ \A i \in DOMAIN doc.chunks : RecordOf(doc, i) \in Submissions
                                         /\ SourceOf(doc, i) \in SourceRef
<1>1. doc \in Document /\ doc # NoDocument
  BY IngestionAssumption DEF Documents
<1>2. doc.chunks # <<>> /\ \A i \in DOMAIN doc.chunks : RecordOf(doc, i) \in Submissions
  BY DocumentsAssumption DEF Documents
<1>3. doc.chunks \in Seq(STRING) /\ doc.name \in STRING
  BY <1>1 DEF Document
<1>4. 1 \in DOMAIN doc.chunks /\ DOMAIN doc.chunks = 1..Len(doc.chunks) /\ Len(doc.chunks) \in Nat
  BY <1>2, <1>3
<1>5. \A i \in DOMAIN doc.chunks : SourceOf(doc, i) \in SourceRef
  BY <1>3, <1>4 DEF SourceOf, SourceRef
<1> QED
  BY <1>1, <1>2, <1>3, <1>4, <1>5

\* Documents of one name are of one kind if one of them is looked for.
LEMMA SameName ==
  ASSUME offered \in DOMAIN Offers, NEW doc \in Documents, NEW other \in Documents,
         Looks(doc), other.name = doc.name
  PROVE  /\ Looks(other)
         /\ doc.kind = "fiqa" => other.kind = "fiqa" /\ other.chunks = doc.chunks
BY DocumentsAssumption DEF Documents, Looks

LEMMA NoTaskSettled ==
  NoTask \in Task /\ Settled(NoTask) /\ Covers(NoTask) /\ NoTask.doc = NoDocument
  /\ NoTask.batch = {}
BY DEF NoTask, Task, PC, Settled, TaskOK, Progress, FindsEnough, Covers

\* A stored chunk is followed by the next, by indexing the demo, or by the end.
LEMMA AfterChunkDoes ==
  ASSUME offered \in DOMAIN Offers, NEW t \in Task, t.doc \in Documents,
         t.chunk \in DOMAIN t.doc.chunks, NEW n, n = AfterChunk(t)
  PROVE  /\ n \in Task
         /\ \/ /\ n.pc = "chunk" /\ n.chunk = t.chunk + 1 /\ n.chunk \in DOMAIN t.doc.chunks
               /\ n.doc = t.doc /\ n.existing = t.existing /\ n.batch = {}
               /\ n.found = t.found /\ n.before = t.before
               /\ n # NoTask
            \/ /\ n.pc = "reindex" /\ n.chunk = t.chunk /\ t.doc.kind = "seed"
               /\ n.doc = t.doc /\ n.existing = t.existing /\ n.batch = t.batch
               /\ n.found = t.found /\ n.before = t.before
               /\ n # NoTask
            \/ n = NoTask /\ t.chunk = Len(t.doc.chunks) /\ t.doc.kind # "seed"
<1>1. /\ t.chunk \in Nat /\ Len(t.doc.chunks) \in Nat
      /\ DOMAIN t.doc.chunks = 1..Len(t.doc.chunks)
  BY DocumentFacts DEF Task
<1>2. CASE t.chunk < Len(t.doc.chunks)
  <2>1. n = [t EXCEPT !.pc = "chunk", !.chunk = t.chunk + 1, !.batch = {}]
    BY <1>2 DEF AfterChunk
  <2>2. t.chunk + 1 \in 1..Len(t.doc.chunks) /\ t.chunk + 1 \in Nat
    BY <1>1, <1>2
  <2>3. /\ n.pc = "chunk" /\ n.chunk = t.chunk + 1 /\ n.doc = t.doc /\ n.batch = {}
        /\ n.existing = t.existing /\ n.found = t.found /\ n.before = t.before
        /\ n \in Task
    BY <2>1, <2>2 DEF Task, PC
  <2>4. n # NoTask
    BY <2>3 DEF NoTask
  <2> QED
    BY <1>1, <2>2, <2>3, <2>4
<1>3. CASE ~(t.chunk < Len(t.doc.chunks)) /\ t.doc.kind = "seed"
  <2>1. n = [t EXCEPT !.pc = "reindex"]
    BY <1>3 DEF AfterChunk
  <2>2. /\ n.pc = "reindex" /\ n.chunk = t.chunk /\ n.doc = t.doc /\ n.batch = t.batch
        /\ n.existing = t.existing /\ n.found = t.found /\ n.before = t.before
        /\ n \in Task
    BY <2>1 DEF Task, PC
  <2>3. n # NoTask
    BY <2>2 DEF NoTask
  <2> QED
    BY <1>3, <2>2, <2>3
<1>4. CASE ~(t.chunk < Len(t.doc.chunks)) /\ t.doc.kind # "seed"
  <2>1. n = NoTask
    BY <1>4 DEF AfterChunk
  <2>2. t.chunk = Len(t.doc.chunks)
    BY <1>1, <1>4
  <2> QED
    BY <1>4, <2>1, <2>2, NoTaskSettled
<1> QED
  BY <1>2, <1>3, <1>4

-----------------------------------------------------------------------------
(* What the memory does meanwhile *)

LEMMA IngestStores ==
  ASSUME TypeOK, NEW id \in Ids, NEW s \in Submissions, Ingest(id, s)
  PROVE  Stored' = Stored \cup {id} /\ id \notin Stored
<1>1. PICK record, olds : Replaces(id, s, record, olds)
  BY IngestReplaces
<1>2. olds \subseteq Stored /\ record \in MemoryRecord /\ SaveReplacing(id, record, olds)
  BY <1>1 DEF Replaces, ActiveConflicts
<1>3. memories'[id] = record /\ record # NoRecord
  BY <1>2, NamesAssumption DEF SaveReplacing
<1>4. ASSUME NEW m \in Ids, m # id, m \notin Stored PROVE memories'[m] = memories[m]
  BY <1>2, <1>4 DEF SaveReplacing
<1>5. ASSUME NEW m \in Stored PROVE m \in Stored'
  <2>1. Next
    BY DEF Next
  <2> QED
    BY <1>5, <2>1, RowKeeps DEF Stored
<1>6. id \notin Stored
  BY DEF Ingest, Stored
<1> QED
  BY <1>3, <1>4, <1>5, <1>6 DEF Stored, IsStored

LEMMA DecideStores ==
  ASSUME TypeOK, NEW id \in Ids, Approve(id) \/ Reject(id)
  PROVE  Stored' = Stored
<1>0. Next
  BY DEF Next
<1>1. ASSUME NEW m \in Stored PROVE m \in Stored'
  BY <1>0, <1>1, RowKeeps DEF Stored
<1>2. ASSUME NEW m \in Ids, m \notin Stored PROVE memories'[m] = memories[m]
  <2>1. id \in Stored
    BY DEF Approve, Reject, CanReview, Stored
  <2>2. CASE Approve(id)
    <3>1. PICK record, olds : Replaces(id, memories[id], record, olds)
      BY <2>2, ApproveReplaces
    <3>2. olds \subseteq Stored /\ SaveReplacing(id, record, olds)
      BY <3>1 DEF Replaces, ActiveConflicts
    <3> QED
      BY <1>2, <2>1, <3>2 DEF SaveReplacing
  <2>3. CASE Reject(id)
    BY <1>2, <2>1, <2>3 DEF Reject, TypeOK
  <2> QED
    BY <2>2, <2>3
<1> QED
  BY <1>1, <1>2 DEF Stored, IsStored

\* A closed version answers for no date it did not answer for.
LEMMA ClosedWasEligible ==
  ASSUME NEW old \in MemoryRecord, NEW record \in MemoryRecord, NEW d \in Date,
         old.status = "verified_active", EligibleAt(Closed(old, record), d)
  PROVE  EligibleAt(old, d)
<1> DEFINE closed == Closed(old, record)
<1>1. /\ record.valid_from \in OptionalDate /\ old.valid_to \in OptionalDate
      /\ old.valid_from \in OptionalDate
      /\ MinDate \in Int /\ MaxDate \in Int /\ d \in Int /\ MinDate <= d /\ d <= MaxDate
      /\ NoDate \notin Int
  BY DatesAssumption DEF MemoryRecord, Date, OptionalDate
<1>2. /\ closed.valid_from = old.valid_from
      /\ closed.valid_to = IF record.valid_from # NoDate
                              /\ (old.valid_to = NoDate \/ old.valid_to >= record.valid_from)
                           THEN record.valid_from - 1 ELSE old.valid_to
  BY DEF Closed, MemoryRecord
<1>3. d \in Start(closed) .. End(closed)
  BY DEF EligibleAt, IsValidAt
<1> HIDE DEF closed
<1>4. Start(closed) = Start(old) /\ Start(old) \in Int /\ End(old) \in Int
  BY <1>1, <1>2 DEF Start, End, OptionalDate, Date
<1>5. d <= End(old)
  <2>1. CASE closed.valid_to = old.valid_to
    BY <1>1, <1>3, <1>4, <2>1 DEF End
  <2>2. CASE /\ record.valid_from # NoDate /\ closed.valid_to = record.valid_from - 1
             /\ old.valid_to = NoDate \/ old.valid_to >= record.valid_from
    <3>1. record.valid_from \in Int
      BY <1>1, <2>2 DEF OptionalDate, Date
    <3>2. closed.valid_to # NoDate
      BY <1>1, <2>2, <3>1
    <3>3. d <= record.valid_from - 1
      BY <1>1, <1>3, <1>4, <2>2, <3>1, <3>2 DEF End
    <3> QED
      BY <1>1, <2>2, <3>1, <3>3 DEF End, OptionalDate, Date
  <2> QED
    BY <1>2, <2>1, <2>2
<1>6. Start(old) <= d
  BY <1>1, <1>3, <1>4, <1>5 DEF End
<1> QED
  BY <1>1, <1>4, <1>5, <1>6 DEF EligibleAt, IsValidAt

\* What could be used once is never usable again when it no longer is.
LEMMA Usability ==
  ASSUME TypeOK, [Next]_vars, NEW id \in Ids, UsedOnce(id)
  PROVE  UsedOnce(id)' /\ (CanUse(id)' => CanUse(id))
<1>1. /\ IsStored(id) /\ memories[id].status \in {"verified_active", "superseded", "expired"}
      /\ memories[id] \in MemoryRecord /\ memories'[id] \in MemoryRecord /\ IsStored(id)'
      /\ memories'[id].tenant_id = memories[id].tenant_id
  BY RowKeeps DEF UsedOnce
<1>2. CASE memories'[id] = memories[id]
  BY <1>1, <1>2 DEF UsedOnce, CanUse, IsStored
<1>3. CASE memories'[id].status = "expired"
  BY <1>1, <1>3 DEF UsedOnce, CanUse, EligibleAt
<1>4. ASSUME NEW by \in Ids, ClosedBy(id, by) PROVE UsedOnce(id)' /\ (CanUse(id)' => CanUse(id))
  <2>1. /\ memories'[by] \in MemoryRecord /\ memories[id].status = "verified_active"
        /\ memories'[id] = Closed(memories[id], memories'[by])
    BY <1>4 DEF ClosedBy
  <2>2. PICK new \in MemoryRecord : new = memories'[by]
    BY <2>1
  <2>3. memories'[id] = Closed(memories[id], new)
    BY <2>1, <2>2
  <2>4. memories'[id].status = "superseded"
    BY <1>1, <2>3, ClosedKeeps
  <2>5. as_of \in Date
    BY IngestionAssumption DEF Date
  <2>6. EligibleAt(memories'[id], as_of) => EligibleAt(memories[id], as_of)
    BY <1>1, <2>1, <2>3, <2>5, ClosedWasEligible
  <2> QED
    BY <1>1, <2>4, <2>6 DEF UsedOnce, CanUse
<1>5. CASE Arrives(id)
  BY <1>1, <1>5 DEF Arrives
<1>6. CASE Moves(id, {"pending"}, {"verified_active", "rejected"})
  BY <1>1, <1>6 DEF Moves
<1>7. CASE Moves(id, {"pending", "verified_active"}, {"expired"})
  BY <1>3, <1>7 DEF Moves
<1>8. CASE Untouched(id)
  BY <1>2, <1>8 DEF Untouched
<1> QED
  BY <1>4, <1>5, <1>6, <1>7, <1>8, RowSteps DEF RowStep

-----------------------------------------------------------------------------
(* What a step leaves of the invariant to those who do not take it *)

GoesOn ==
  /\ [Next]_vars
  /\ offered' = offered
  /\ agent => agent'
  /\ shared \subseteq shared'
  /\ \A id \in Stored : source'[id] = source[id]

LEMMA RowsGoOn ==
  ASSUME TypeOK, GoesOn
  PROVE  TypeOK' /\ Stored \subseteq Stored' /\ Existing \subseteq Existing'
<1>1. TypeOK'
  BY TypeStep DEF GoesOn
<1>2. ASSUME NEW id \in Stored PROVE id \in Stored'
  BY <1>2, RowKeeps DEF Stored, GoesOn
<1> QED
  BY <1>1, <1>2 DEF Existing, GoesOn

LEMMA StaysSettled ==
  ASSUME RowsOK, GoesOn, NEW t, Settled(t)
  PROVE  Settled(t)'
<1>0. TypeOK /\ [Next]_vars /\ Documents' = Documents
  BY DEF RowsOK, GoesOn, Documents
<1>1. Stored \subseteq Stored' /\ Existing \subseteq Existing'
  BY <1>0, RowsGoOn
<1>2. ASSUME NEW id \in t.before
      PROVE  id \in Ids /\ UsedOnce(id)' /\ (CanUse(id)' => CanUse(id))
  <2>1. id \in Ids /\ UsedOnce(id)
    BY <1>2 DEF Settled, TaskOK, Task
  <2> QED
    BY <1>0, <2>1, Usability
<1>3. Storing(t)' <=> Storing(t)
  BY <1>0 DEF Storing
<1>4. Asking(t) => Asking(t)'
  BY DEF Asking, GoesOn
<1>5. TaskOK(t)'
  BY <1>1, <1>2, <1>3, <1>4 DEF Settled, TaskOK
<1>6. Progress(t)'
  BY <1>1 DEF Settled, Progress
<1>7. t.before \cap Usable' \subseteq t.before \cap Usable
  BY <1>2 DEF Usable
<1>8. FindsEnough(t)'
  BY <1>7 DEF Settled, FindsEnough
<1> QED
  BY <1>5, <1>6, <1>8 DEF Settled

\* What importer `w' does when its task goes on as `n'.
Turned(w, n) ==
  /\ task' = [task EXCEPT ![w] = n]
  /\ \A id \in Stored' \ Stored :
       /\ task[w].doc # NoDocument /\ source'[id].name = task[w].doc.name
  /\ \/ n.doc \in {NoDocument, task[w].doc}
     \/ /\ n.doc \in Documents
        /\ \A v \in Importers \ {w} :
             task[v].doc # NoDocument /\ task[v].doc.name = n.doc.name /\ Looks(n.doc)
               => n.doc.name \in shared'

LEMMA SharingIsKnown ==
  ASSUME RowsOK, TasksOK, GoesOn, NEW w \in Importers, NEW n, Turned(w, n)
  PROVE  (\A v, u \in Importers : v # u => Sharing(v, u))'
<1>0. SUFFICES ASSUME NEW v \in Importers, NEW u \in Importers, v # u PROVE Sharing(v, u)'
  OBVIOUS
<1>1. /\ task'[w] = n /\ \A x \in Importers : x # w => task'[x] = task[x]
      /\ shared \subseteq shared' /\ offered \in DOMAIN Offers
  BY DEF Turned, TasksOK, GoesOn, RowsOK
<1>2. \A x \in Importers : task[x].doc # NoDocument => task[x].doc \in Documents
  BY DEF TasksOK, Settled, TaskOK, Storing, Asking, NoTask
<1>3. CASE v # w /\ u # w
  BY <1>0, <1>1, <1>3 DEF TasksOK, Sharing
<1>4. CASE n.doc \in {NoDocument, task[w].doc}
  BY <1>0, <1>1, <1>4 DEF TasksOK, Sharing
<1>5. CASE n.doc \in Documents /\ v = w
  BY <1>0, <1>1, <1>5 DEF Sharing, Turned, TasksOK
<1>6. CASE n.doc \in Documents /\ u = w
  <2> SUFFICES ASSUME task[v].doc # NoDocument, Looks(task[v].doc), task[v].doc.name = n.doc.name,
                      n.doc \notin {NoDocument, task[w].doc}
               PROVE  n.doc.name \in shared'
    BY <1>0, <1>1, <1>4, <1>6 DEF Sharing
  <2>1. task[v].doc \in Documents
    BY <1>2
  <2>2. Looks(n.doc)
    BY <1>1, <1>6, <2>1, SameName
  <2> QED
    BY <1>0, <1>6, <2>2 DEF Turned
<1> QED
  BY <1>3, <1>4, <1>5, <1>6 DEF Turned

\* The others' listings go on covering what is stored under their names.
LEMMA OthersCover ==
  ASSUME RowsOK, TasksOK, GoesOn, NEW w \in Importers, NEW n, Turned(w, n),
         NEW v \in Importers, v # w, NEW t, t = task[v]
  PROVE  Covers(t)'
<1>1. Covers(t) /\ shared \subseteq shared'
  BY DEF TasksOK, GoesOn
<1> SUFFICES ASSUME t.doc # NoDocument, Looks(t.doc), t.pc # "list", t.doc.name \notin shared',
                    NEW id \in Stored', source'[id].name = t.doc.name
             PROVE  \/ source'[id] \in t.existing
                    \/ source'[id].chunk < t.chunk
                    \/ source'[id].chunk = t.chunk /\ t.pc \in Indexing
  BY DEF Covers
<1>2. CASE id \in Stored
  BY <1>1, <1>2 DEF Covers, GoesOn
<1>3. CASE id \notin Stored
  <2>1. task[w].doc # NoDocument /\ source'[id].name = task[w].doc.name
    BY <1>3 DEF Turned
  <2>2. Sharing(v, w)
    BY DEF TasksOK
  <2> QED
    BY <1>1, <2>1, <2>2 DEF Sharing
<1> QED
  BY <1>2, <1>3

LEMMA TasksGoOn ==
  ASSUME RowsOK, TasksOK, GoesOn, NEW w \in Importers, NEW n, Turned(w, n),
         Settled(n)', Covers(n)'
  PROVE  TasksOK'
<1>1. task \in [Importers -> Task] /\ task' = [task EXCEPT ![w] = n] /\ n \in Task
  BY DEF TasksOK, Turned, Settled, TaskOK
<1>2. task' \in [Importers -> Task]
  BY <1>1
<1>3. ASSUME NEW v \in Importers PROVE (Settled(task[v]) /\ Covers(task[v]))'
  <2>1. PICK t : t = task'[v]
    OBVIOUS
  <2>2. Settled(t)' /\ Covers(t)'
    <3>1. CASE v = w
      <4>1. t = n
        BY <1>1, <2>1, <3>1
      <4> QED
        BY <4>1
    <3>2. CASE v # w
      <4>1. t = task[v]
        BY <1>1, <2>1, <3>2
      <4>2. Settled(t)
        BY <4>1 DEF TasksOK
      <4> QED
        BY <3>2, <4>1, <4>2, StaysSettled, OthersCover
    <3> QED
      BY <3>1, <3>2
  <2> QED
    BY <2>1, <2>2 DEF Settled, Covers, TaskOK, Storing, Asking, Progress, FindsEnough
<1> QED
  BY <1>2, <1>3, SharingIsKnown DEF TasksOK

\* A document may be listed as imported when its chunks are stored.
Complete(doc) ==
  /\ doc \in Documents
  /\ doc.kind # "seed" => \A i \in DOMAIN doc.chunks : SourceOf(doc, i) \in Existing

LEMMA ImportsGoOn ==
  ASSUME TypeOK, GoesOn, imported \subseteq Documents, ImportsAreComplete,
         \A doc \in imported' \ imported : Complete(doc)'
  PROVE  imported' \subseteq Documents' /\ ImportsAreComplete'
<1>1. Existing \subseteq Existing' /\ Documents' = Documents
  BY RowsGoOn DEF GoesOn, Documents
<1>2. ASSUME NEW doc \in imported PROVE Complete(doc)'
  BY <1>1, <1>2 DEF ImportsAreComplete, Complete, Existing
<1>3. \A doc \in imported' : Complete(doc)'
  BY <1>2
<1> QED
  BY <1>3 DEF Complete, ImportsAreComplete, Existing

\* A step that stores nothing.
LEMMA QuietStep ==
  ASSUME IngestionInv, GoesOn, Stored' = Stored, UNCHANGED source, points' \subseteq Stored,
         NEW w \in Importers, NEW n, Turned(w, n), Settled(n)', Covers(n)',
         \A doc \in imported' \ imported : Complete(doc)'
  PROVE  IngestionInv'
<1>1. RowsOK /\ TasksOK /\ TypeOK
  BY DEF IngestionInv, RowsOK
<1>2. TypeOK'
  BY <1>1, RowsGoOn
<1>3. RowsOK'
  BY <1>1, <1>2 DEF RowsOK, GoesOn, Documents
<1>4. ImportedOnce'
  BY DEF IngestionInv, ImportedOnce, GoesOn, Documents
<1>5. TasksOK'
  BY <1>1, TasksGoOn
<1>6. (imported \subseteq Documents)' /\ ImportsAreComplete'
  BY <1>1, ImportsGoOn DEF IngestionInv
<1> QED
  BY <1>3, <1>4, <1>5, <1>6 DEF IngestionInv

-----------------------------------------------------------------------------
(* The actions *)

\* What is known of the importer that moves.
LEMMA Here ==
  ASSUME IngestionInv, NEW w \in Importers, NEW t, t = task[w]
  PROVE  /\ t \in Task /\ Settled(t) /\ Covers(t)
         /\ t = NoTask \/ Storing(t) \/ Asking(t)
         /\ t.existing \subseteq Existing /\ t.batch \subseteq Stored /\ t.found \subseteq Stored
         /\ task \in [Importers -> Task]
         /\ RowsOK /\ TypeOK /\ offered \in DOMAIN Offers /\ Stored \subseteq Ids
BY DEF IngestionInv, TasksOK, Settled, TaskOK, RowsOK, Stored

LEMMA StoredSources ==
  ASSUME RowsOK
  PROVE  /\ Existing \subseteq SourceRef
         /\ IsFiniteSet(Stored)
<1>1. ASSUME NEW id \in Stored PROVE source[id] \in SourceRef
  <2>1. offered \in DOMAIN Offers
    BY DEF RowsOK
  <2>2. PICK doc \in Documents : \E i \in DOMAIN doc.chunks : source[id] = SourceOf(doc, i)
    BY DEF RowsOK
  <2> QED
    BY <2>1, <2>2, DocumentFacts
<1>2. IsFiniteSet({uuids[k] : k \in DOMAIN uuids})
  <2>1. uuids \in Seq(Ids)
    BY IngestionAssumption
  <2>2. DOMAIN uuids = 1..Len(uuids) /\ Len(uuids) \in Nat
    BY <2>1
  <2>3. IsFiniteSet(1..Len(uuids))
    BY <2>2, FS_Interval
  <2> DEFINE named == {uuids[k] : k \in DOMAIN uuids}
  <2>4. uuids \in Surjection(1..Len(uuids), named)
    BY <2>1, <2>2 DEF Surjection
  <2> HIDE DEF named
  <2>5. IsFiniteSet(named)
    BY <2>3, <2>4, FS_Surjection
  <2> QED
    BY <2>5 DEF named
<1>3. IsFiniteSet(Stored)
  BY <1>2, FS_Subset DEF RowsOK
<1> QED
  BY <1>1, <1>3 DEF Existing

LEMMA NoTaskFields ==
  /\ NoTask.pc = "idle" /\ NoTask.doc = NoDocument /\ NoTask.chunk = 0
  /\ NoTask.existing = {} /\ NoTask.batch = {} /\ NoTask.found = {} /\ NoTask.before = {}
BY DEF NoTask

\* A step that neither stores, decides nor gives rows to the index.
LEMMA StillStep ==
  ASSUME IngestionInv, UNCHANGED <<vars, offered, source>>, agent => agent',
         shared \subseteq shared', points' \subseteq Stored,
         NEW w \in Importers, NEW n, Turned(w, n), Settled(n), Covers(n),
         \A doc \in imported' \ imported : Complete(doc)
  PROVE  IngestionInv'
<1>1. GoesOn
  BY DEF GoesOn
<1>2. Stored' = Stored /\ source' = source /\ Existing' = Existing /\ Documents' = Documents
  BY DEF vars, Stored, IsStored, Existing, Documents
<1>3. Settled(n)'
  BY <1>1, StaysSettled DEF IngestionInv
<1>4. Covers(n)'
  BY <1>2 DEF Covers
<1>5. \A doc \in imported' \ imported : Complete(doc)'
  BY <1>2 DEF Complete
<1> QED
  BY <1>1, <1>2, <1>3, <1>4, <1>5, QuietStep

\* ... and takes nobody's place.
LEMMA PlainStep ==
  ASSUME IngestionInv, UNCHANGED <<vars, offered, source, points, shared, imported>>,
         agent => agent', NEW w \in Importers, NEW n, Turns(w, n),
         n.doc \in {NoDocument, task[w].doc},
         Settled(n), Covers(n)
  PROVE  IngestionInv'
<1>1. Stored' = Stored /\ points \subseteq Stored
  BY DEF vars, Stored, IsStored, IngestionInv, RowsOK
<1>2. Turned(w, n)
  BY <1>1 DEF Turned, Turns
<1> QED
  BY <1>1, <1>2, StillStep

LEMMA GivesUpStep ==
  ASSUME IngestionInv, GoesOn, Stored' = Stored, NEW w \in Importers, GivesUp(w)
  PROVE  IngestionInv'
<1>1. Turned(w, NoTask)
  BY NoTaskFields DEF Turned, GivesUp, Turns
<1>2. Settled(NoTask)' /\ Covers(NoTask)'
  <2>1. PICK n : n = NoTask
    OBVIOUS
  <2>2. Settled(n) /\ Covers(n) /\ n.doc = NoDocument
    BY <2>1, NoTaskSettled
  <2>3. Settled(n)'
    BY <2>2, StaysSettled DEF IngestionInv
  <2>4. Covers(n)'
    BY <2>2 DEF Covers
  <2>5. Settled(NoTask)'
    BY <2>1, <2>3
  <2> QED
    BY <2>1, <2>4, <2>5
<1>3. points' \subseteq Stored /\ source' = source /\ imported' = imported
  BY DEF GivesUp, IngestionInv, RowsOK
<1> QED
  BY <1>1, <1>2, <1>3, QuietStep

LEMMA ImportStep ==
  ASSUME IngestionInv, NEW w \in Importers, NEW doc \in Documents, Import(w, doc)
  PROVE  IngestionInv'
<1> DEFINE pc == IF Looks(doc) THEN "list"
                 ELSE IF doc.kind = "seed" /\ Stored # {} THEN "reindex" ELSE "chunk"
           indexes == doc.kind \in {"file", "fiqa", "sec"} \/ (doc.kind = "post" /\ agent)
<1>1. PICK n : n = [NoTask EXCEPT !.pc = pc, !.doc = doc, !.chunk = 1, !.indexes = indexes]
  OBVIOUS
<1>2. task[w] = NoTask /\ task' = [task EXCEPT ![w] = n]
  BY <1>1 DEF Import, Turns
<1>3. RowsOK /\ offered \in DOMAIN Offers /\ points \subseteq Stored
  BY DEF IngestionInv, RowsOK
<1>4. /\ doc \in Document /\ 1 \in DOMAIN doc.chunks /\ DOMAIN doc.chunks = 1..Len(doc.chunks)
      /\ doc # NoDocument
  BY <1>3, DocumentFacts
<1>5. /\ pc \in {"list", "reindex", "chunk"} /\ (pc = "list" <=> Looks(doc))
      /\ pc = "reindex" => doc.kind = "seed"
  OBVIOUS
<1> HIDE DEF pc, indexes
<1>6. /\ n.pc = pc /\ n.doc = doc /\ n.chunk = 1
      /\ n.existing = {} /\ n.batch = {} /\ n.found = {} /\ n.before = {}
  BY <1>1 DEF NoTask
<1>7. n \in Task
  <2>1. indexes \in BOOLEAN
    BY DEF indexes
  <2>2. pc \in PC
    BY <1>5 DEF PC
  <2> QED
    BY <1>1, <1>4, <2>1, <2>2, NoTaskSettled DEF Task
<1>8. Storing(n)
  BY <1>4, <1>5, <1>6 DEF Storing
<1>9. Settled(n) /\ Covers(n)
  BY <1>4, <1>5, <1>6, <1>7, <1>8 DEF Settled, TaskOK, Progress, FindsEnough, Covers, Indexing
<1>10. /\ UNCHANGED <<vars, offered, source, points, agent, imported>>
       /\ shared \subseteq shared' /\ Stored' = Stored
  BY DEF Import, vars, Stored, IsStored
<1>11. \A v \in Importers \ {w} :
         task[v].doc # NoDocument /\ task[v].doc.name = doc.name /\ Looks(doc)
           => doc.name \in shared'
  BY DEF Import
<1>12. Turned(w, n)
  BY <1>2, <1>6, <1>10, <1>11, NoTaskFields DEF Turned
<1> QED
  BY <1>3, <1>9, <1>10, <1>12, StillStep

LEMMA ListExistingStep ==
  ASSUME IngestionInv, NEW w \in Importers, ListExisting(w)
  PROVE  IngestionInv'
<1>1. PICK t : t = task[w]
  OBVIOUS
<1>2. PICK n : n = [t EXCEPT !.pc = "chunk", !.existing = Existing]
  OBVIOUS
<1>3. /\ t.pc = "list" /\ Turns(w, n)
      /\ UNCHANGED <<vars, offered, source, agent, points, shared, imported>>
  BY <1>1, <1>2 DEF ListExisting
<1>4. t \in Task /\ Settled(t) /\ RowsOK
  BY <1>1, Here
<1>5. Storing(t)
  BY <1>1, <1>3, Here, NoTaskFields DEF Asking
<1>6. Existing \subseteq SourceRef
  BY <1>4, StoredSources
<1>7. /\ n \in Task /\ n.pc = "chunk" /\ n.doc = t.doc /\ n.chunk = t.chunk
      /\ n.existing = Existing /\ n.batch = t.batch /\ n.found = t.found /\ n.before = t.before
  BY <1>2, <1>4, <1>6 DEF Task, PC
<1>8. Storing(n) /\ t.batch = {}
  BY <1>3, <1>5, <1>7 DEF Storing, Indexing
<1>9. Settled(n)
  BY <1>4, <1>7, <1>8 DEF Settled, TaskOK, Progress, FindsEnough, Indexing
<1>10. Covers(n)
  BY <1>7 DEF Covers, Existing
<1> QED
  BY <1>1, <1>3, <1>7, <1>9, <1>10, PlainStep

LEMMA AskStep ==
  ASSUME IngestionInv, NEW w \in Importers, Ask(w)
  PROVE  IngestionInv'
<1> DEFINE pc == IF agent THEN "ensure" ELSE "build"
<1>1. PICK n : n = [NoTask EXCEPT !.pc = pc, !.before = Usable]
  OBVIOUS
<1>2. /\ task[w] = NoTask /\ Turns(w, n)
      /\ UNCHANGED <<vars, offered, source, agent, points, shared, imported>>
  BY <1>1 DEF Ask
<1>3. pc \in {"ensure", "build"} /\ (pc # "build" => agent) /\ pc \in PC
  BY DEF PC
<1> HIDE DEF pc
<1>4. n \in Task
  BY <1>1, <1>3, NoTaskSettled DEF Task, Usable
<1>5. /\ n.pc = pc /\ n.doc = NoDocument /\ n.existing = {} /\ n.batch = {} /\ n.found = {}
      /\ n.before = Usable
  BY <1>1 DEF NoTask
<1>6. Asking(n)
  BY <1>3, <1>5 DEF Asking
<1>7. \A id \in Usable : UsedOnce(id)
  BY DEF Usable, CanUse, EligibleAt, UsedOnce
<1>8. Settled(n) /\ Covers(n)
  BY <1>3, <1>4, <1>5, <1>6, <1>7 DEF Settled, TaskOK, Progress, FindsEnough, Covers
<1> QED
  BY <1>2, <1>5, <1>8, PlainStep, NoTaskFields

\* A chunk whose text is stored has been passed.
CoversUpTo(t) ==
  t.doc.name \notin shared /\ Looks(t.doc) =>
    \A id \in Stored : source[id].name = t.doc.name =>
      source[id] \in t.existing \/ source[id].chunk <= t.chunk

Passes ==
  \A t \in Task : \A n :
    /\ RowsOK /\ Settled(t) /\ Storing(t) /\ CoversUpTo(t) /\ t.pc \in {"chunk", "upsert"}
    /\ n = AfterChunk(t) /\ (t.batch = {} \/ t.doc.kind # "seed")
    /\ t.doc.kind # "seed" => SourceOf(t.doc, t.chunk) \in Existing
    => /\ Settled(n) /\ Covers(n) /\ n.doc \in {NoDocument, t.doc} /\ n.batch = {}
       /\ n = NoTask => Complete(t.doc)

LEMMA PassedChunk == Passes
<1> SUFFICES ASSUME NEW t \in Task, NEW n, RowsOK, Settled(t), Storing(t), CoversUpTo(t),
                    t.pc \in {"chunk", "upsert"}, n = AfterChunk(t),
                    t.batch = {} \/ t.doc.kind # "seed",
                    t.doc.kind # "seed" => SourceOf(t.doc, t.chunk) \in Existing
             PROVE  /\ Settled(n) /\ Covers(n) /\ n.doc \in {NoDocument, t.doc} /\ n.batch = {}
                    /\ n = NoTask => Complete(t.doc)
  BY DEF Passes
<1>1. /\ offered \in DOMAIN Offers /\ t.doc \in Documents /\ t.chunk \in DOMAIN t.doc.chunks
      /\ t.chunk \in Nat /\ t.doc # NoDocument /\ DOMAIN t.doc.chunks = 1..Len(t.doc.chunks)
      /\ Len(t.doc.chunks) \in Nat
  <2>1. offered \in DOMAIN Offers /\ t.doc \in Documents /\ t.chunk \in DOMAIN t.doc.chunks
    BY DEF RowsOK, Storing
  <2> QED
    BY <2>1, DocumentFacts DEF Task
<1>2. ASSUME NEW i \in DOMAIN t.doc.chunks, i <= t.chunk, t.doc.kind # "seed"
      PROVE  SourceOf(t.doc, i) \in Existing
  BY <1>1, <1>2 DEF Settled, Progress
<1>3. ASSUME t.doc.name \notin shared, Looks(t.doc), NEW id \in Stored, source[id].name = t.doc.name
      PROVE  source[id] \in t.existing \/ source[id].chunk <= t.chunk
  BY <1>3 DEF CoversUpTo
<1>4. CASE /\ n.pc = "chunk" /\ n.chunk = t.chunk + 1 /\ n.chunk \in DOMAIN t.doc.chunks
           /\ n.doc = t.doc /\ n.existing = t.existing /\ n.batch = {}
           /\ n.found = t.found /\ n.before = t.before
           /\ n # NoTask /\ n \in Task
  <2>1. Storing(n)
    BY <1>1, <1>4 DEF Storing
  <2>2. TaskOK(n)
    BY <1>4, <2>1 DEF Settled, TaskOK
  <2>3. Progress(n)
    <3>1. \A i \in DOMAIN t.doc.chunks : i < t.chunk + 1 => i <= t.chunk
      BY <1>1
    <3> QED
      BY <1>2, <1>4, <3>1 DEF Progress, Indexing
  <2>4. Covers(n)
    <3>1. \A k \in Nat : k <= t.chunk => k < t.chunk + 1
      BY <1>1
    <3>2. \A id \in Stored : source[id].chunk \in Nat
      BY StoredSources DEF Existing, SourceRef
    <3> QED
      BY <1>3, <1>4, <3>1, <3>2 DEF Covers
  <2> QED
    BY <1>4, <2>2, <2>3, <2>4 DEF Settled, FindsEnough
<1>5. CASE /\ n.pc = "reindex" /\ n.chunk = t.chunk /\ t.doc.kind = "seed"
           /\ n.doc = t.doc /\ n.existing = t.existing /\ n.batch = t.batch
           /\ n.found = t.found /\ n.before = t.before
           /\ n # NoTask /\ n \in Task
  <2>1. Storing(n) /\ t.batch = {}
    BY <1>1, <1>5 DEF Storing
  <2>2. TaskOK(n)
    BY <1>5, <2>1 DEF Settled, TaskOK
  <2> QED
    BY <1>5, <2>1, <2>2 DEF Settled, Progress, FindsEnough, Covers, Looks
<1>6. CASE n = NoTask /\ t.chunk = Len(t.doc.chunks) /\ t.doc.kind # "seed"
  <2>1. \A i \in DOMAIN t.doc.chunks : i <= t.chunk
    BY <1>1, <1>6
  <2>2. Complete(t.doc)
    BY <1>1, <1>2, <2>1 DEF Complete
  <2> QED
    BY <1>6, <2>2, NoTaskSettled
<1> QED
  BY <1>1, <1>4, <1>5, <1>6, AfterChunkDoes

LEMMA CoversAtChunk ==
  ASSUME RowsOK, NEW t \in Task, Storing(t), Covers(t), t.pc # "list"
  PROVE  CoversUpTo(t)
<1>1. t.doc # NoDocument /\ t.chunk \in Nat
  BY DocumentFacts DEF Storing, RowsOK, Task
<1>2. \A id \in Stored : source[id].chunk \in Nat
  BY StoredSources DEF Existing, SourceRef
<1>3. \A k \in Nat : k < t.chunk \/ k = t.chunk => k <= t.chunk
  BY <1>1
<1> QED
  BY <1>1, <1>2, <1>3 DEF Covers, CoversUpTo

LEMMA SkipKnownStep ==
  ASSUME IngestionInv, NEW w \in Importers, SkipKnown(w)
  PROVE  IngestionInv'
<1>1. PICK t : t = task[w]
  OBVIOUS
<1>2. PICK n : n = AfterChunk(t)
  OBVIOUS
<1>3. /\ t.pc = "chunk" /\ IsKnown(t) /\ Turns(w, n) /\ Ends(t, n)
      /\ UNCHANGED <<vars, offered, source, agent, points, shared>>
  BY <1>1, <1>2 DEF SkipKnown
<1>4. t \in Task /\ Settled(t) /\ RowsOK /\ Covers(t) /\ t.existing \subseteq Existing
  BY <1>1, Here
<1>5. Storing(t) /\ t.batch = {}
  <2>1. Storing(t)
    BY <1>1, <1>3, Here, NoTaskFields DEF Asking
  <2> QED
    BY <1>3, <2>1 DEF Storing, Indexing
<1>6. SourceOf(t.doc, t.chunk) \in Existing
  <2>1. CASE SourceOf(t.doc, t.chunk) \in t.existing
    BY <1>4, <2>1
  <2>2. CASE t.doc.kind = "fiqa" /\ \E s \in t.existing : s.name = t.doc.name /\ s.chunk = t.chunk
    <3>1. PICK s \in Existing : s.name = t.doc.name /\ s.chunk = t.chunk
      BY <1>4, <2>2
    <3>2. PICK doc \in Documents : \E i \in DOMAIN doc.chunks : s = SourceOf(doc, i)
      BY <1>4, <3>1 DEF RowsOK, Existing
    <3>3. PICK i \in DOMAIN doc.chunks : s = SourceOf(doc, i)
      BY <3>2
    <3>4. doc.name = t.doc.name /\ i = t.chunk /\ s.content_hash = doc.chunks[i]
      BY <3>1, <3>3 DEF SourceOf
    <3>5. doc.chunks = t.doc.chunks
      BY <1>4, <1>5, <2>2, <3>4, SameName DEF RowsOK, Storing, Looks
    <3> QED
      BY <3>1, <3>3, <3>4, <3>5 DEF SourceOf
  <2> QED
    BY <1>3, <2>1, <2>2 DEF IsKnown
<1>7. /\ Settled(n) /\ Covers(n) /\ n.doc \in {NoDocument, t.doc}
      /\ n = NoTask => Complete(t.doc)
  BY <1>2, <1>3, <1>4, <1>5, <1>6, PassedChunk, CoversAtChunk DEF Passes
<1>8. Stored' = Stored /\ points' \subseteq Stored
  BY <1>3, <1>4 DEF vars, Stored, IsStored, RowsOK
<1>9. Turned(w, n)
  BY <1>1, <1>3, <1>5, <1>7, <1>8 DEF Turned, Turns
<1>10. \A doc \in imported' \ imported : Complete(doc)
  BY <1>3, <1>7 DEF Ends
<1> QED
  BY <1>3, <1>7, <1>8, <1>9, <1>10, StillStep

LEMMA UpsertStep ==
  ASSUME IngestionInv, NEW w \in Importers, Upsert(w)
  PROVE  IngestionInv'
<1>1. PICK t : t = task[w]
  OBVIOUS
<1>2. PICK n : n = IF t.doc.kind = "seed" THEN NoTask ELSE AfterChunk(t)
  OBVIOUS
<1>3. /\ t.pc = "upsert" /\ Turns(w, n) /\ Ends(t, n)
      /\ points' = points \cup t.batch
      /\ UNCHANGED <<vars, offered, source, agent, shared>>
  BY <1>1, <1>2 DEF Upsert
<1>4. t \in Task /\ Settled(t) /\ RowsOK /\ Covers(t) /\ t.batch \subseteq Stored
  BY <1>1, Here
<1>5. Storing(t)
  BY <1>1, <1>3, Here, NoTaskFields DEF Asking
<1>6. /\ Settled(n) /\ Covers(n) /\ n.doc \in {NoDocument, t.doc} /\ n.batch = {}
      /\ n = NoTask => Complete(t.doc)
  <2>1. CASE t.doc.kind = "seed"
    BY <1>2, <1>5, <2>1, NoTaskSettled DEF Complete, Storing
  <2>2. CASE t.doc.kind # "seed"
    <3>1. t.doc # NoDocument /\ t.chunk \in DOMAIN t.doc.chunks
      BY <1>4, <1>5, DocumentFacts DEF Storing, RowsOK
    <3>2. SourceOf(t.doc, t.chunk) \in Existing
      BY <1>3, <1>4, <2>2, <3>1 DEF Settled, Progress, Indexing
    <3> QED
      BY <1>2, <1>3, <1>4, <1>5, <2>2, <3>2, PassedChunk, CoversAtChunk DEF Passes
  <2> QED
    BY <2>1, <2>2
<1>7. Stored' = Stored /\ points' \subseteq Stored
  BY <1>3, <1>4 DEF vars, Stored, IsStored, RowsOK
<1>8. Turned(w, n)
  BY <1>1, <1>3, <1>6, <1>7 DEF Turned, Turns
<1>9. \A doc \in imported' \ imported : Complete(doc)
  BY <1>3, <1>6 DEF Ends
<1> QED
  BY <1>3, <1>6, <1>7, <1>8, <1>9, StillStep

LEMMA ReindexStep ==
  ASSUME IngestionInv, NEW w \in Importers, Reindex(w)
  PROVE  IngestionInv'
<1>1. PICK t : t = task[w]
  OBVIOUS
<1>2. PICK n : n = [t EXCEPT !.pc = "ensure", !.batch = Stored]
  OBVIOUS
<1>3. /\ t.pc = "reindex" /\ Turns(w, n)
      /\ UNCHANGED <<vars, offered, source, agent, points, shared, imported>>
  BY <1>1, <1>2 DEF Reindex
<1>4. t \in Task /\ Settled(t) /\ Stored \subseteq Ids /\ t.batch \subseteq Stored
  BY <1>1, Here
<1>5. Storing(t) /\ t.doc.kind = "seed"
  BY <1>1, <1>3, Here, NoTaskFields DEF Asking, Storing
<1>6. /\ n \in Task /\ n.pc = "ensure" /\ n.doc = t.doc /\ n.chunk = t.chunk
      /\ n.existing = t.existing /\ n.batch = Stored /\ n.found = t.found /\ n.before = t.before
  BY <1>2, <1>4 DEF Task, PC
<1>7. Storing(n)
  BY <1>5, <1>6 DEF Storing, Indexing
<1>8. Settled(n) /\ Covers(n)
  BY <1>4, <1>5, <1>6, <1>7 DEF Settled, TaskOK, Progress, FindsEnough, Covers, Looks
<1> QED
  BY <1>1, <1>3, <1>4, <1>6, <1>8, PlainStep

\* Steps along the index change nothing of a task but where it stands.
LEMMA ReachesNext ==
  ASSUME NEW t \in Task, Settled(t), Covers(t), Storing(t) \/ Asking(t), t.pc \in {"ensure", "create"},
         RowsOK, NEW n, n = Reaches(t) \/ n = [t EXCEPT !.pc = "create"]
  PROVE  Settled(n) /\ Covers(n) /\ n.doc = t.doc /\ n.batch = t.batch
<1>1. ASSUME NEW pc \in PC, n = [t EXCEPT !.pc = pc]
      PROVE  /\ n \in Task /\ n.pc = pc /\ n.doc = t.doc /\ n.chunk = t.chunk
             /\ n.existing = t.existing /\ n.batch = t.batch
             /\ n.found = t.found /\ n.before = t.before
  BY <1>1 DEF Task
<1>2. ASSUME Storing(t), NEW pc \in {"create", "upsert"}, n = [t EXCEPT !.pc = pc]
      PROVE  Settled(n) /\ Covers(n) /\ n.doc = t.doc /\ n.batch = t.batch
  <2>1. /\ n \in Task /\ n.pc = pc /\ n.doc = t.doc /\ n.chunk = t.chunk
        /\ n.existing = t.existing /\ n.batch = t.batch
        /\ n.found = t.found /\ n.before = t.before
    BY <1>1, <1>2 DEF PC
  <2>2. Storing(n) /\ t.pc \in Indexing /\ n.pc \in Indexing /\ n.pc # "list" /\ t.pc # "list"
        /\ n.pc # "candidates"
    BY <1>2, <2>1 DEF Storing, Indexing
  <2>3. TaskOK(n) /\ Progress(n) /\ FindsEnough(n)
    BY <2>1, <2>2 DEF Settled, TaskOK, Progress, FindsEnough
  <2>4. Covers(n)
    BY <2>1, <2>2 DEF Covers
  <2> QED
    BY <2>1, <2>3, <2>4 DEF Settled
<1>3. ASSUME Asking(t), NEW pc \in {"create", "search"}, n = [t EXCEPT !.pc = pc]
      PROVE  Settled(n) /\ Covers(n) /\ n.doc = t.doc /\ n.batch = t.batch
  <2>1. /\ n \in Task /\ n.pc = pc /\ n.doc = t.doc /\ n.chunk = t.chunk
        /\ n.existing = t.existing /\ n.batch = t.batch
        /\ n.found = t.found /\ n.before = t.before
    BY <1>1, <1>3 DEF PC
  <2>2. Asking(n) /\ n.doc = NoDocument /\ n.pc # "candidates"
    BY <1>3, <2>1 DEF Asking
  <2> QED
    BY <2>1, <2>2 DEF Settled, TaskOK, Progress, FindsEnough, Covers
<1>4. Storing(t) => t.doc # NoDocument
  BY DocumentFacts DEF Storing, RowsOK
<1>5. CASE n = [t EXCEPT !.pc = "create"]
  BY <1>2, <1>3, <1>5
<1>6. CASE n = Reaches(t) /\ Storing(t)
  BY <1>2, <1>4, <1>6 DEF Reaches, IsAsking
<1>7. CASE n = Reaches(t) /\ Asking(t)
  <2>1. n = [t EXCEPT !.pc = "search"]
    BY <1>7 DEF Reaches, IsAsking, Asking
  <2> QED
    BY <1>3, <1>7, <2>1
<1> QED
  BY <1>5, <1>6, <1>7

LEMMA EnsureStep ==
  ASSUME IngestionInv, NEW w \in Importers, EnsureCollection(w)
  PROVE  IngestionInv'
<1>1. PICK t : t = task[w]
  OBVIOUS
<1>2. PICK n : n = IF collection THEN Reaches(t) ELSE [t EXCEPT !.pc = "create"]
  OBVIOUS
<1>3. /\ t.pc = "ensure" /\ Turns(w, n)
      /\ UNCHANGED <<vars, offered, source, agent, points, shared, imported>>
  BY <1>1, <1>2 DEF EnsureCollection
<1>4. t \in Task /\ Settled(t) /\ Covers(t) /\ RowsOK /\ (Storing(t) \/ Asking(t))
  BY <1>1, <1>3, Here, NoTaskFields
<1>5. Settled(n) /\ Covers(n) /\ n.doc = t.doc /\ n.batch = t.batch
  BY <1>2, <1>3, <1>4, ReachesNext
<1> QED
  BY <1>1, <1>3, <1>5, PlainStep

LEMMA CreateStep ==
  ASSUME IngestionInv, NEW w \in Importers, CreateCollection(w)
  PROVE  IngestionInv'
<1>1. CASE collection
  <2>1. UNCHANGED vars /\ GivesUp(w)
    BY <1>1 DEF CreateCollection
  <2>2. GoesOn /\ Stored' = Stored
    BY <2>1 DEF GivesUp, GoesOn, vars, Stored, IsStored
  <2> QED
    BY <2>1, <2>2, GivesUpStep
<1>2. CASE ~collection
  <2>1. PICK t : t = task[w]
    OBVIOUS
  <2>2. PICK n : n = Reaches(t)
    OBVIOUS
  <2>3. /\ t.pc = "create" /\ Turns(w, n)
        /\ UNCHANGED <<vars, offered, source, agent, points, shared, imported>>
    BY <1>2, <2>1, <2>2 DEF CreateCollection
  <2>4. t \in Task /\ Settled(t) /\ Covers(t) /\ RowsOK /\ (Storing(t) \/ Asking(t))
    BY <2>1, <2>3, Here, NoTaskFields
  <2>5. Settled(n) /\ Covers(n) /\ n.doc = t.doc /\ n.batch = t.batch
    BY <2>2, <2>3, <2>4, ReachesNext
  <2> QED
    BY <2>1, <2>3, <2>5, PlainStep
<1> QED
  BY <1>1, <1>2

\* A question's task with other rows found.
Found(t, pc, ids) == [t EXCEPT !.pc = pc, !.found = ids]

LEMMA AskingGoes ==
  ASSUME NEW t \in Task, Settled(t), Asking(t), t.pc # "build",
         NEW pc \in {"get", "fallback", "candidates"}, NEW ids \in SUBSET Stored,
         pc = "candidates" =>
           Cardinality(ids) >= retrieval_limit \/ t.before \cap Usable \subseteq ids,
         NEW n, n = Found(t, pc, ids)
  PROVE  Settled(n) /\ Covers(n) /\ n.doc = t.doc /\ n.batch = t.batch
<1>1. /\ n \in Task /\ n.pc = pc /\ n.doc = t.doc /\ n.chunk = t.chunk
      /\ n.existing = t.existing /\ n.batch = t.batch
      /\ n.found = ids /\ n.before = t.before
  BY DEF Task, PC, Stored, Found
<1>2. Asking(n) /\ n.doc = NoDocument
  BY <1>1 DEF Asking
<1>3. TaskOK(n)
  BY <1>1, <1>2 DEF Settled, TaskOK
<1>4. FindsEnough(n)
  BY <1>1 DEF FindsEnough
<1> QED
  BY <1>1, <1>2, <1>3, <1>4 DEF Settled, Progress, Covers

\* Whoever searches answers a question, and has an agent.
LEMMA WhoAsks ==
  ASSUME IngestionInv, NEW w \in Importers, NEW t, t = task[w],
         t.pc \in {"build", "search", "get", "fallback", "candidates"}
  PROVE  t \in Task /\ Settled(t) /\ Asking(t) /\ Covers(t)
BY Here, NoTaskFields DEF Storing, Indexing

LEMMA SearchStep ==
  ASSUME IngestionInv, NEW w \in Importers, Search(w)
  PROVE  IngestionInv'
<1>1. PICK t : t = task[w]
  OBVIOUS
<1>2. PICK hits \in SUBSET points :
        /\ Turns(w, [t EXCEPT !.pc = "get", !.found = hits])
        /\ UNCHANGED <<vars, offered, source, agent, points, shared, imported>>
        /\ t.pc = "search"
  BY <1>1 DEF Search, kSubset
<1>3. PICK n : n = Found(t, "get", hits)
  OBVIOUS
<1>4. t \in Task /\ Settled(t) /\ Asking(t)
  BY <1>1, <1>2, WhoAsks
<1>5. hits \in SUBSET Stored
  BY DEF IngestionInv, RowsOK
<1>6. t.pc # "build" /\ "get" \in {"get", "fallback", "candidates"} /\ "get" # "candidates"
  BY <1>2
<1>7. Settled(n) /\ Covers(n) /\ n.doc = t.doc /\ n.batch = t.batch
  BY <1>3, <1>4, <1>5, <1>6, AskingGoes
<1> QED
  BY <1>1, <1>2, <1>3, <1>7, PlainStep DEF Found

LEMMA GetHitsStep ==
  ASSUME IngestionInv, NEW w \in Importers, GetHits(w)
  PROVE  IngestionInv'
<1>1. PICK t : t = task[w]
  OBVIOUS
<1>2. PICK usable : usable = t.found \cap Usable
  OBVIOUS
<1>3. PICK pc : pc = IF TooFew(usable) THEN "fallback" ELSE "candidates"
  OBVIOUS
<1>4. PICK n : n = Found(t, pc, usable)
  OBVIOUS
<1>5. /\ t.pc = "get" /\ Turns(w, n)
      /\ UNCHANGED <<vars, offered, source, agent, points, shared, imported>>
  BY <1>1, <1>2, <1>3, <1>4 DEF GetHits, Found
<1>6. t \in Task /\ Settled(t) /\ Asking(t)
  BY <1>1, <1>5, WhoAsks
<1>7. usable \in SUBSET Stored
  BY <1>2, <1>6 DEF Settled, TaskOK
<1>8. Cardinality(usable) \in Nat
  <2>1. IsFiniteSet(Stored)
    BY StoredSources DEF IngestionInv
  <2> QED
    BY <1>7, <2>1, FS_Subset, FS_CardinalityType
<1>9. retrieval_limit \in Nat
  BY IngestionAssumption
<1>10. pc = "candidates" => Cardinality(usable) >= retrieval_limit
  BY <1>3, <1>8, <1>9 DEF TooFew
<1>11. t.pc # "build" /\ pc \in {"get", "fallback", "candidates"}
  BY <1>3, <1>5
<1>12. Settled(n) /\ Covers(n) /\ n.doc = t.doc /\ n.batch = t.batch
  BY <1>4, <1>6, <1>7, <1>10, <1>11, AskingGoes
<1> QED
  BY <1>1, <1>5, <1>12, PlainStep

LEMMA FallbackStep ==
  ASSUME IngestionInv, NEW w \in Importers, Fallback(w)
  PROVE  IngestionInv'
<1>1. PICK t : t = task[w]
  OBVIOUS
<1>2. PICK ids : ids = t.found \cup Usable
  OBVIOUS
<1>3. PICK n : n = Found(t, "candidates", ids)
  OBVIOUS
<1>4. /\ t.pc = "fallback" /\ Turns(w, n)
      /\ UNCHANGED <<vars, offered, source, agent, points, shared, imported>>
  BY <1>1, <1>2, <1>3 DEF Fallback, Found
<1>5. t \in Task /\ Settled(t) /\ Asking(t)
  BY <1>1, <1>4, WhoAsks
<1>6. ids \in SUBSET Stored /\ t.before \cap Usable \subseteq ids
  BY <1>2, <1>5 DEF Settled, TaskOK, Usable, CanUse, Stored
<1>7. Settled(n) /\ Covers(n) /\ n.doc = t.doc /\ n.batch = t.batch
  BY <1>3, <1>4, <1>5, <1>6, AskingGoes
<1> QED
  BY <1>1, <1>4, <1>7, PlainStep

LEMMA AnswerStep ==
  ASSUME IngestionInv, NEW w \in Importers, Answer(w)
  PROVE  IngestionInv'
<1>1. PICK t : t = task[w]
  OBVIOUS
<1>2. /\ t.pc = "candidates" /\ Turns(w, NoTask)
      /\ UNCHANGED <<vars, offered, source, agent, points, shared, imported>>
  BY <1>1 DEF Answer
<1>3. t.batch = {}
  BY <1>1, <1>2, WhoAsks DEF Asking
<1> QED
  BY <1>1, <1>2, <1>3, PlainStep, NoTaskSettled

LEMMA BuildStep ==
  ASSUME IngestionInv, NEW w \in Importers, BuildAgent(w)
  PROVE  IngestionInv'
<1>1. PICK t : t = task[w]
  OBVIOUS
<1>2. PICK n : n = [t EXCEPT !.pc = "ensure"]
  OBVIOUS
<1>3. /\ t.pc = "build" /\ Turns(w, n) /\ agent' = TRUE
      /\ UNCHANGED <<vars, offered, source, points, shared, imported>>
  BY <1>1, <1>2 DEF BuildAgent
<1>4. t \in Task /\ Settled(t) /\ Asking(t) /\ Covers(t)
  BY <1>1, <1>3, WhoAsks
<1>5. GoesOn /\ Stored' = Stored
  BY <1>3 DEF GoesOn, vars, Stored, IsStored
<1>6. Settled(t)'
  BY <1>4, <1>5, StaysSettled DEF IngestionInv
<1>7. /\ n \in Task /\ n.pc = "ensure" /\ n.doc = t.doc /\ n.chunk = t.chunk
      /\ n.existing = t.existing /\ n.batch = t.batch
      /\ n.found = t.found /\ n.before = t.before
  BY <1>2, <1>4 DEF Task, PC
<1>8. Asking(n)' /\ n.doc = NoDocument
  BY <1>3, <1>4, <1>7 DEF Asking
<1>9. Settled(n)' /\ Covers(n)'
  BY <1>6, <1>7, <1>8 DEF Settled, TaskOK, Progress, FindsEnough, Covers
<1>10. Turned(w, n)
  BY <1>1, <1>3, <1>5, <1>7 DEF Turned, Turns
<1>11. source' = source /\ points' \subseteq Stored /\ imported' = imported
  BY <1>3 DEF IngestionInv, RowsOK
<1> QED
  BY <1>5, <1>9, <1>10, <1>11, QuietStep

LEMMA InterruptedStep ==
  ASSUME IngestionInv, NEW w \in Importers, Interrupted(w)
  PROVE  IngestionInv'
<1>1. GivesUp(w) /\ UNCHANGED vars
  BY DEF Interrupted
<1>2. GoesOn /\ Stored' = Stored
  BY <1>1 DEF GivesUp, GoesOn, vars, Stored, IsStored
<1> QED
  BY <1>1, <1>2, GivesUpStep

\* What an import hands to ingest is a submission.
LEMMA ChunkSubmitted ==
  ASSUME IngestionInv, NEW w \in Importers, NEW t, t = task[w], t.pc = "chunk"
  PROVE  /\ t \in Task /\ Settled(t) /\ Storing(t) /\ Covers(t) /\ t.batch = {}
         /\ t.doc \in Documents /\ t.doc # NoDocument /\ t.chunk \in DOMAIN t.doc.chunks
         /\ RecordOf(t.doc, t.chunk) \in Submissions
         /\ SourceOf(t.doc, t.chunk) \in SourceRef
         /\ \A k \in DOMAIN uuids : uuids[k] \in Ids
<1>1. t \in Task /\ Settled(t) /\ Storing(t) /\ Covers(t) /\ offered \in DOMAIN Offers
  BY Here, NoTaskFields DEF Asking
<1>2. \A k \in DOMAIN uuids : uuids[k] \in Ids
  BY IngestionAssumption
<1> QED
  BY <1>1, <1>2, DocumentFacts DEF Storing, Indexing

LEMMA ChunkRefusedStep ==
  ASSUME IngestionInv, NEW w \in Importers, ChunkRefused(w)
  PROVE  IngestionInv'
<1>1. PICK t : t = task[w]
  OBVIOUS
<1>2. t.pc = "chunk" /\ GivesUp(w)
  BY <1>1 DEF ChunkRefused
<1>3. RecordOf(t.doc, t.chunk) \in Submissions /\ \A k \in DOMAIN uuids : uuids[k] \in Ids
  BY <1>1, <1>2, ChunkSubmitted
<1>4. [Next]_vars /\ UNCHANGED memories
  <2>1. CASE UNCHANGED vars
    BY <2>1 DEF vars
  <2>2. ASSUME NEW k \in DOMAIN uuids, IngestBlocked(uuids[k])
        PROVE  [Next]_vars /\ UNCHANGED memories
    BY <1>3, <2>2 DEF Next, IngestBlocked
  <2>3. ASSUME NEW k \in DOMAIN uuids, IngestFails(uuids[k], RecordOf(t.doc, t.chunk))
        PROVE  [Next]_vars /\ UNCHANGED memories
    BY <1>3, <2>3 DEF Next, IngestFails
  <2> QED
    BY <1>1, <2>1, <2>2, <2>3 DEF ChunkRefused
<1>5. GoesOn /\ Stored' = Stored
  BY <1>2, <1>4 DEF GivesUp, GoesOn, Stored, IsStored
<1> QED
  BY <1>2, <1>5, GivesUpStep

\* What a chunk that is not known brings.
Brings(t, id) ==
  /\ id \in Ids /\ id \notin Stored /\ Stored' = Stored \cup {id}
  /\ id \in {uuids[k] : k \in DOMAIN uuids}
  /\ source' = [source EXCEPT ![id] = SourceOf(t.doc, t.chunk)]
  /\ UNCHANGED <<offered, agent, collection, points, shared>>
  /\ ~IsKnown(t)

LEMMA NewRow ==
  ASSUME IngestionInv, GoesOn, NEW w \in Importers, NEW t, t = task[w], t.pc = "chunk",
         NEW id, Brings(t, id)
  PROVE  /\ RowsOK' /\ ImportedOnce' /\ CoversUpTo(t)' /\ Settled(t)'
         /\ SourceOf(t.doc, t.chunk) \in Existing'
         /\ source'[id] = SourceOf(t.doc, t.chunk)
         /\ source'[id].name = t.doc.name /\ source'[id].chunk = t.chunk
<1>1. RowsOK /\ TypeOK /\ ImportedOnce
  BY DEF IngestionInv, RowsOK
<1>2. /\ t \in Task /\ Settled(t) /\ Storing(t) /\ Covers(t)
      /\ t.doc \in Documents /\ t.doc # NoDocument /\ t.chunk \in DOMAIN t.doc.chunks
      /\ SourceOf(t.doc, t.chunk) \in SourceRef
  BY ChunkSubmitted
<1>3. /\ source'[id] = SourceOf(t.doc, t.chunk) /\ \A m \in Stored : source'[m] = source[m]
      /\ source' \in [Ids -> SourceRef \cup {NoSource}]
  BY <1>1, <1>2 DEF Brings, RowsOK, GoesOn
<1>4. source'[id].name = t.doc.name /\ source'[id].chunk = t.chunk /\ t.chunk \in Nat
  BY <1>2, <1>3 DEF SourceOf, Task
<1>5. TypeOK' /\ Documents' = Documents
  BY <1>1, RowsGoOn DEF GoesOn, Documents
<1>6. RowsOK'
  <2>1. ASSUME NEW m \in Stored'
        PROVE  \E doc \in Documents : \E i \in DOMAIN doc.chunks : source'[m] = SourceOf(doc, i)
    BY <1>1, <1>2, <1>3, <2>1 DEF Brings, RowsOK
  <2>2. /\ Stored' \subseteq {uuids[k] : k \in DOMAIN uuids} /\ points' \subseteq Stored'
        /\ offered' \in DOMAIN Offers
    BY <1>1 DEF Brings, RowsOK
  <2> QED
    BY <1>3, <1>5, <2>1, <2>2 DEF RowsOK
<1>7. SourceOf(t.doc, t.chunk) \in Existing'
  BY <1>3 DEF Existing, Brings
<1>8. Settled(t)'
  BY <1>1, <1>2, StaysSettled
<1>9. CoversUpTo(t)'
  <2>1. CoversUpTo(t)
    BY <1>1, <1>2, CoversAtChunk
  <2>2. t.chunk <= t.chunk
    BY <1>4
  <2> QED
    BY <1>3, <1>4, <2>1, <2>2 DEF CoversUpTo, Brings
<1>10. ASSUME NEW b \in Stored, source[b] = SourceOf(t.doc, t.chunk),
              NEW doc \in Documents, Looks(doc), doc.name = t.doc.name
       PROVE  t.doc.name \in shared
  <2>1. Looks(t.doc)
    BY <1>1, <1>2, <1>10, SameName DEF RowsOK
  <2>2. source[b].name = t.doc.name /\ source[b].chunk = t.chunk
    BY <1>10 DEF SourceOf
  <2>3. SourceOf(t.doc, t.chunk) \notin t.existing
    BY <1>10, <2>1, <2>2 DEF Brings, IsKnown, Looks
  <2>4. ~(source[b].chunk < t.chunk) /\ t.pc \notin Indexing
    BY <1>4, <2>2 DEF Indexing
  <2> QED
    BY <1>2, <1>10, <2>1, <2>2, <2>3, <2>4 DEF Covers
<1>11. ImportedOnce'
  <2> SUFFICES ASSUME NEW a \in Stored', NEW b \in Stored', a # b, source'[a] = source'[b],
                      source'[a] # NoSource,
                      NEW doc \in Documents, Looks(doc), doc.name = source'[a].name
               PROVE  source'[a].name \in shared
    BY <1>5 DEF ImportedOnce, Brings
  <2>1. CASE a \in Stored /\ b \in Stored
    BY <1>1, <1>3, <2>1 DEF ImportedOnce
  <2>2. CASE a = id /\ b \in Stored
    BY <1>3, <1>4, <1>10, <2>2
  <2>3. CASE b = id /\ a \in Stored
    BY <1>3, <1>4, <1>10, <2>3
  <2> QED
    BY <2>1, <2>2, <2>3 DEF Brings
<1> QED
  BY <1>3, <1>4, <1>6, <1>7, <1>8, <1>9, <1>11

\* A step that stores the row of a chunk.
LEMMA StoringStep ==
  ASSUME IngestionInv, GoesOn, RowsOK', ImportedOnce', NEW w \in Importers, NEW n, Turned(w, n),
         Settled(n)', Covers(n)', \A doc \in imported' \ imported : Complete(doc)'
  PROVE  IngestionInv'
<1>1. RowsOK /\ TasksOK /\ TypeOK
  BY DEF IngestionInv, RowsOK
<1>2. TasksOK'
  BY <1>1, TasksGoOn
<1>3. (imported \subseteq Documents)' /\ ImportsAreComplete'
  BY <1>1, ImportsGoOn DEF IngestionInv
<1> QED
  BY <1>2, <1>3 DEF IngestionInv

LEMMA StoreChunkStep ==
  ASSUME IngestionInv, NEW w \in Importers, StoreChunk(w)
  PROVE  IngestionInv'
<1>1. PICK t : t = task[w]
  OBVIOUS
<1>2. PICK k \in DOMAIN uuids :
        /\ Ingest(uuids[k], RecordOf(t.doc, t.chunk))
        /\ source' = [source EXCEPT ![uuids[k]] = SourceOf(t.doc, t.chunk)]
        /\ IF t.indexes
           THEN /\ Turns(w, [t EXCEPT !.pc = "ensure", !.batch = {uuids[k]}])
                /\ UNCHANGED imported
           ELSE /\ Turns(w, AfterChunk(t))
                /\ Ends(t, AfterChunk(t))
        /\ t.pc = "chunk" /\ ~IsKnown(t)
        /\ UNCHANGED <<offered, agent, collection, points, shared>>
  BY <1>1 DEF StoreChunk
<1>3. PICK id : id = uuids[k]
  OBVIOUS
<1>4. /\ t \in Task /\ Settled(t) /\ Storing(t) /\ Covers(t) /\ t.batch = {}
      /\ t.doc \in Documents /\ t.doc # NoDocument /\ t.chunk \in DOMAIN t.doc.chunks
      /\ RecordOf(t.doc, t.chunk) \in Submissions /\ id \in Ids
  BY <1>1, <1>2, <1>3, ChunkSubmitted
<1>5. RowsOK /\ TypeOK
  BY DEF IngestionInv, RowsOK
<1>6. Stored' = Stored \cup {id} /\ id \notin Stored /\ Next
  BY <1>2, <1>3, <1>4, <1>5, IngestStores DEF Next
<1>7. Brings(t, id)
  BY <1>2, <1>3, <1>4, <1>6 DEF Brings
<1>8. GoesOn
  BY <1>6, <1>7 DEF GoesOn, Brings
<1>9. /\ RowsOK' /\ ImportedOnce' /\ CoversUpTo(t)' /\ Settled(t)'
      /\ SourceOf(t.doc, t.chunk) \in Existing'
      /\ source'[id].name = t.doc.name /\ source'[id].chunk = t.chunk
  BY <1>1, <1>2, <1>7, <1>8, NewRow
<1>10. CASE t.indexes
  <2>1. PICK n : n = [t EXCEPT !.pc = "ensure", !.batch = {id}]
    OBVIOUS
  <2>2. Turns(w, n) /\ UNCHANGED imported
    BY <1>2, <1>3, <1>10, <2>1
  <2>3. /\ n \in Task /\ n.pc = "ensure" /\ n.doc = t.doc /\ n.chunk = t.chunk
        /\ n.existing = t.existing /\ n.batch = {id} /\ n.found = t.found /\ n.before = t.before
    BY <1>4, <2>1 DEF Task, PC
  <2>4. Storing(n)'
    BY <1>4, <1>8, <2>3 DEF Storing, Indexing, GoesOn, Documents
  <2>5. TaskOK(n)'
    BY <1>6, <1>9, <2>3, <2>4 DEF Settled, TaskOK
  <2>6. Progress(n)'
    BY <1>2, <1>4, <1>9, <2>3 DEF Settled, Progress
  <2>7. FindsEnough(n)'
    BY <2>3 DEF FindsEnough
  <2>8. Covers(n)'
    BY <1>2, <1>4, <1>6, <1>7, <1>8, <1>9, <2>3 DEF Covers, Indexing, GoesOn, Brings
  <2>9. Turned(w, n)
    BY <1>1, <1>4, <1>6, <1>7, <1>9, <2>2, <2>3 DEF Turned, Turns, Brings
  <2>10. \A doc \in imported' \ imported : Complete(doc)'
    BY <2>2
  <2>11. Settled(n)'
    BY <2>5, <2>6, <2>7 DEF Settled
  <2> QED
    BY <1>8, <1>9, <2>8, <2>9, <2>10, <2>11, StoringStep
<1>11. CASE ~t.indexes
  <2>1. PICK n : n = AfterChunk(t)
    OBVIOUS
  <2>2. Turns(w, n) /\ Ends(t, n)
    BY <1>2, <1>3, <1>11, <2>1
  <2>3. Passes'
    BY PassedChunk, PTL
  <2>4. Storing(t)'
    BY <1>4, <1>8 DEF Storing, GoesOn, Documents
  <2>5. /\ Settled(n)' /\ Covers(n)' /\ n.doc \in {NoDocument, t.doc} /\ n.batch = {}
        /\ n = NoTask => Complete(t.doc)'
    BY <1>2, <1>4, <1>9, <2>1, <2>3, <2>4 DEF Passes
  <2>6. Turned(w, n)
    BY <1>1, <1>4, <1>6, <1>7, <1>9, <2>2, <2>5 DEF Turned, Turns, Brings
  <2>7. \A doc \in imported' \ imported : Complete(doc)'
    BY <2>2, <2>5 DEF Ends
  <2> QED
    BY <1>8, <1>9, <2>5, <2>6, <2>7, StoringStep
<1> QED
  BY <1>10, <1>11

LEMMA DecideStep ==
  ASSUME IngestionInv, NEW id \in Ids, Decide(id)
  PROVE  IngestionInv'
<1>1. /\ RowsOK /\ TypeOK /\ TasksOK /\ (Approve(id) \/ Reject(id)) /\ UNCHANGED agentVars
      /\ offered' = offered /\ source' = source /\ agent' = agent /\ points' = points
      /\ task' = task /\ shared' = shared /\ imported' = imported
  BY DEF IngestionInv, RowsOK, Decide, agentVars
<1>2. Stored' = Stored /\ GoesOn
  BY <1>1, DecideStores DEF GoesOn, Next
<1>3. TypeOK' /\ Documents' = Documents /\ Existing' = Existing
  BY <1>1, <1>2, RowsGoOn DEF Documents, Existing
<1>4. RowsOK'
  BY <1>1, <1>2, <1>3 DEF RowsOK
<1>5. TasksOK'
  <2>1. ASSUME NEW w \in Importers PROVE (Settled(task[w]) /\ Covers(task[w]))'
    <3>1. PICK t : t = task[w]
      OBVIOUS
    <3>2. Settled(t) /\ Covers(t)
      BY <1>1, <3>1 DEF TasksOK
    <3>3. Settled(t)' /\ Covers(t)'
      BY <1>1, <1>2, <3>2, StaysSettled DEF Covers
    <3>4. t = task'[w]
      BY <1>1, <3>1
    <3> QED
      BY <3>3, <3>4 DEF Settled, Covers, TaskOK, Storing, Asking, Progress, FindsEnough
  <2> QED
    BY <1>1, <2>1 DEF TasksOK, Sharing
<1>6. ImportedOnce' /\ (imported \subseteq Documents)' /\ ImportsAreComplete'
  BY <1>1, <1>2, <1>3 DEF IngestionInv, ImportedOnce, ImportsAreComplete
<1> QED
  BY <1>4, <1>5, <1>6 DEF IngestionInv

-----------------------------------------------------------------------------
(* The theorems *)

LEMMA IngestionStarts == IngestionInit => IngestionInv
<1> SUFFICES ASSUME IngestionInit PROVE IngestionInv
  OBVIOUS
<1>1. Stored = {} /\ TypeOK
  BY DEF IngestionInit, Init, Stored, IsStored, TypeOK
<1>2. RowsOK
  BY <1>1 DEF IngestionInit, RowsOK
<1>3. TasksOK
  <2>1. \A w \in Importers : task[w] = NoTask
    BY DEF IngestionInit
  <2>2. task \in [Importers -> Task]
    BY NoTaskSettled DEF IngestionInit
  <2> QED
    BY <2>1, <2>2, NoTaskSettled DEF TasksOK, Sharing
<1>4. imported \subseteq Documents /\ ImportedOnce /\ ImportsAreComplete
  BY <1>1 DEF IngestionInit, ImportedOnce, ImportsAreComplete
<1> QED
  BY <1>2, <1>3, <1>4 DEF IngestionInv

LEMMA IngestionSteps == IngestionInv /\ [IngestionNext]_ingestionVars => IngestionInv'
<1> SUFFICES ASSUME IngestionInv, [IngestionNext]_ingestionVars PROVE IngestionInv'
  OBVIOUS
<1>1. CASE UNCHANGED ingestionVars
  BY <1>1 DEF ingestionVars, agentVars, vars, IngestionInv, RowsOK, TypeOK, TasksOK,
     ImportedOnce, ImportsAreComplete, Settled, TaskOK, Storing, Asking, Progress, FindsEnough,
     Covers, Sharing, Stored, IsStored, Existing, Documents, Usable, CanUse, UsedOnce
<1>2. CASE \E w \in Importers, doc \in Documents : Import(w, doc)
  BY <1>2, ImportStep
<1>3. ASSUME NEW w \in Importers,
             \/ ListExisting(w) \/ SkipKnown(w) \/ StoreChunk(w) \/ ChunkRefused(w) \/ Reindex(w)
             \/ EnsureCollection(w) \/ CreateCollection(w) \/ Upsert(w)
             \/ Ask(w) \/ BuildAgent(w) \/ Search(w) \/ GetHits(w) \/ Fallback(w) \/ Answer(w)
             \/ Interrupted(w)
      PROVE  IngestionInv'
  BY <1>3, ListExistingStep, SkipKnownStep, StoreChunkStep, ChunkRefusedStep, ReindexStep,
     EnsureStep, CreateStep, UpsertStep, AskStep, BuildStep, SearchStep, GetHitsStep,
     FallbackStep, AnswerStep, InterruptedStep
<1>4. CASE \E id \in Ids : Decide(id)
  BY <1>4, DecideStep
<1> QED
  BY <1>1, <1>2, <1>3, <1>4 DEF IngestionNext

LEMMA IngestionHolds == IngestionSpec => []IngestionInv
BY IngestionStarts, IngestionSteps, PTL DEF IngestionSpec

\* However often a document is imported, by however many importers and after
\* whatever failures, one text of one chunk is stored once, unless two
\* imports under its name overlapped.
THEOREM ChunksAreImportedOnce == IngestionSpec => []ImportedOnce
<1>1. IngestionInv => ImportedOnce
  BY DEF IngestionInv
<1> QED
  BY <1>1, IngestionHolds, PTL

\* An import that ended without an error has left no chunk out.
THEOREM ImportsLeaveNothingOut == IngestionSpec => []ImportsAreComplete
<1>1. IngestionInv => ImportsAreComplete
  BY DEF IngestionInv
<1> QED
  BY <1>1, IngestionHolds, PTL

\* A row that may be used from the question to its candidates is among them,
\* unless as many as are wanted are, whatever the index holds.
THEOREM EligibleRowsAreFound == IngestionSpec => []EligibleAreFound
<1>1. IngestionInv => EligibleAreFound
  BY DEF IngestionInv, TasksOK, Settled, FindsEnough, EligibleAreFound
<1> QED
  BY <1>1, IngestionHolds, PTL
=============================================================================
