---------------------------- MODULE AgentIngestion ----------------------------
(***************************************************************************)
(* How documents, public data, API calls and MCP proposals reach the       *)
(* governed memory, and which of their rows the chat agent's vector index  *)
(* (Qdrant, external) holds.  A row is stored and indexed by two calls,    *)
(* and an import is a loop of such pairs over a listing read once: it may  *)
(* stop anywhere, be repeated, and overlap with others.  The API builds    *)
(* its agent on the first chat; until then it stores and does not index.   *)
(*                                                                         *)
(* ingest, review and the loading of rows are those of MemoryService.  An  *)
(* embedding, and the order of the index, are a free choice of points; the *)
(* asker may read all rows of its tenant.                                  *)
(***************************************************************************)
EXTENDS MemoryService, FiniteSetsExt

CONSTANTS Importers,        \* threads of the UI, the API and the MCP server
          Offers,           \* named sets of what they may be given: documents to store,
          Question,         \* and Question, if questions may be asked
          uuids,            \* the record ids uuid4 will return, in order
          NoSource, NoDocument,
          asker,            \* the tenant whose documents these are, and who asks
          as_of,            \* the business date asked about
          retrieval_limit,
          candidate_pool_multiplier

\* A file has the text of its chunks, as their hash; files of one name are
\* editions of it, or the same imported for another tenant.  Public data and
\* posted records are read the same way.
Document ==
  [kind: {"file", "fiqa", "sec", "seed", "post", "mcp"}, tenant_id: Tenants,
   name: STRING, stem: STRING, chunks: Seq(STRING),
   source_type: SourceType, authority: 0..100, valid_from: OptionalDate]

ASSUME IngestionAssumption ==
  /\ \A o \in DOMAIN Offers : Offers[o] \ {Question} \subseteq Document
  /\ NoDocument \notin Document
  /\ NoSource \notin [name: STRING, chunk: Nat, content_hash: STRING]
  /\ uuids \in Seq(Ids)
  /\ asker \in Tenants
  /\ as_of \in MinDate..MaxDate
  /\ retrieval_limit \in Nat \ {0}
  /\ candidate_pool_multiplier \in Nat \ {0}

\* source_ref, and metadata.content_hash.
SourceOf(doc, i) == [name |-> doc.name, chunk |-> i, content_hash |-> doc.chunks[i]]

VARIABLES offered,     \* which of the Offers it is
          source,      \* where each stored row comes from
          agent,       \* app.state.tarcsmem_chat_agent is set
          collection,  \* the index has the collection
          points,      \* the ids it holds points of
          task,        \* what each importer is doing
          shared,      \* history: the names imported by two at the same time
          imported     \* history: the documents that were imported to the end

agentVars == <<offered, source, agent, collection, points, task, shared, imported>>

ingestionVars == <<vars, agentVars>>

Documents == Offers[offered] \ {Question}

\* `before' is history: the rows that could be used when the question was asked.
NoTask == [pc |-> "idle", doc |-> NoDocument, chunk |-> 0, indexes |-> FALSE,
           existing |-> {}, batch |-> {}, found |-> {}, before |-> {}]

Turns(w, t) == task' = [task EXCEPT ![w] = t]

Loads == \A id \in Stored : WellFormedWindow(memories[id])

\* The task ends early; what it had stored and not yet indexed stays so.
GivesUp(w) ==
  /\ Turns(w, NoTask)
  /\ UNCHANGED <<offered, source, agent, collection, points, shared, imported>>

-----------------------------------------------------------------------------
(* ingest_file, ingest_fiqa_sample, ingest_sec_company, seed_demo, the POST *)
(* of a memory and propose_memory                                           *)

\* An import that looks for what is there already.
Looks(doc) == doc.kind \in {"file", "fiqa"}

\* The API looks for its agent before it stores, the MCP server has none, and
\* the demo is seeded into an empty store only.
Import(w, doc) ==
  /\ task[w] = NoTask
  /\ Turns(w, [NoTask EXCEPT
       !.pc = IF Looks(doc) THEN "list"
              ELSE IF doc.kind = "seed" /\ Stored # {} THEN "reindex" ELSE "chunk",
       !.doc = doc, !.chunk = 1,
       !.indexes = doc.kind \in {"file", "fiqa", "sec"} \/ (doc.kind = "post" /\ agent)])
  /\ shared' = shared \cup
       {doc.name : v \in {u \in Importers \ {w} : Looks(doc) /\ task[u].doc # NoDocument
                                                  /\ task[u].doc.name = doc.name}}
  /\ UNCHANGED <<vars, offered, source, agent, collection, points, imported>>

\* Wrong on purpose: only rows in force count as imported.
ExistingActive == {source[id] : id \in {m \in Stored : HasStatus(m, "verified_active")}}

\* list_all, once: rows of whatever status, and of whatever tenant, so that a
\* document which one tenant has imported is not stored for another.
Existing == {source[id] : id \in Stored}

ListExisting(w) ==
  /\ task[w].pc = "list"
  /\ Loads
  /\ Turns(w, [task[w] EXCEPT !.pc = "chunk", !.existing = Existing])
  /\ UNCHANGED <<vars, offered, source, agent, collection, points, shared, imported>>

\* Wrong on purpose: an edited chunk is taken for the one it replaces.
IsKnownByName(t) ==
  /\ t.doc.kind \in {"file", "fiqa"}
  /\ \E s \in t.existing : s.name = t.doc.name /\ s.chunk = t.chunk

\* A chunk of a file is known by its reference and hash, public data by reference.
IsKnown(t) ==
  \/ t.doc.kind = "file" /\ SourceOf(t.doc, t.chunk) \in t.existing
  \/ /\ t.doc.kind = "fiqa"
     /\ \E s \in t.existing : s.name = t.doc.name /\ s.chunk = t.chunk

\* What follows a chunk.
AfterChunk(t) ==
  IF t.chunk < Len(t.doc.chunks)
  THEN [t EXCEPT !.pc = "chunk", !.chunk = @ + 1, !.batch = {}]
  ELSE IF t.doc.kind = "seed" THEN [t EXCEPT !.pc = "reindex"]
  ELSE NoTask

\* The documents imported to the end once task `t' goes on as `next'.
Ends(t, next) == imported' = imported \cup (IF next = NoTask THEN {t.doc} ELSE {})

SkipKnown(w) ==
  LET next == AfterChunk(task[w]) IN
  /\ task[w].pc = "chunk"
  /\ IsKnown(task[w])
  /\ Turns(w, next)
  /\ Ends(task[w], next)
  /\ UNCHANGED <<vars, offered, source, agent, collection, points, shared>>

RecordOf(doc, i) ==
  [tenant_id |-> doc.tenant_id, conflict_key |-> <<doc.stem, i>>,
   source_type |-> doc.source_type, authority |-> doc.authority,
   valid_from |-> doc.valid_from, valid_to |-> NoDate,
   evidence |-> TRUE, extraction_confidence |-> 95, durable_value |-> 80,
   status |-> "candidate", supersedes |-> NoId, page_id |-> NoPage, page_version |-> 0]

\* A source_ref begins with the file's name or with FiQA/ and a number: only
\* imports and editions of one file share it, or imports of one public document, which has
\* no editions; nobody posts a record under such a reference.  A document
\* without text stores nothing and is left out.
ASSUME DocumentsAssumption ==
  \A o \in DOMAIN Offers : \A doc, other \in Offers[o] \ {Question} :
    /\ doc.chunks # <<>>
    /\ \A i \in DOMAIN doc.chunks : RecordOf(doc, i) \in Submissions
    /\ Looks(doc) /\ other.name = doc.name =>
         /\ other.kind = doc.kind
         /\ doc.kind = "fiqa" => other.chunks = doc.chunks

IsFresh(id) == ~IsStored(id) /\ audit_events[id] = <<>>

\* uuid4: an id that was never used; which one makes no difference.
IsNext(k) == IsFresh(uuids[k]) /\ \A j \in 1..(k - 1) : ~IsFresh(uuids[j])

\* Demo and posted records bring their ids with them.
IdTaken(t) ==
  t.doc.kind \in {"seed", "post"} /\ \E id \in Stored : source[id] = SourceOf(t.doc, t.chunk)

\* ingest; the agent then indexes what it returns.
StoreChunk(w) ==
  LET t    == task[w]
      next == AfterChunk(t)
  IN
  /\ t.pc = "chunk"
  /\ ~IsKnown(t) /\ ~IdTaken(t)
  /\ \E k \in DOMAIN uuids :
       /\ IsNext(k)
       /\ Ingest(uuids[k], RecordOf(t.doc, t.chunk))
       /\ source' = [source EXCEPT ![uuids[k]] = SourceOf(t.doc, t.chunk)]
       /\ IF t.indexes
          THEN /\ Turns(w, [t EXCEPT !.pc = "ensure", !.batch = {uuids[k]}])
               /\ UNCHANGED imported
          ELSE /\ Turns(w, next)
               /\ Ends(t, next)
  /\ UNCHANGED <<offered, agent, collection, points, shared>>

\* The gate blocks the chunk, a row cannot be read, or the id is taken: the
\* import raises.
ChunkRefused(w) ==
  /\ task[w].pc = "chunk"
  /\ ~IsKnown(task[w])
  /\ \/ IdTaken(task[w]) /\ UNCHANGED vars
     \/ \E k \in DOMAIN uuids :
          /\ IsNext(k)
          /\ \/ IngestBlocked(uuids[k])
             \/ IngestFails(uuids[k], RecordOf(task[w].doc, task[w].chunk))
  /\ GivesUp(w)

\* seed_demo puts every row there is into the index.
Reindex(w) ==
  /\ task[w].pc = "reindex"
  /\ Loads
  /\ Turns(w, [task[w] EXCEPT !.pc = "ensure", !.batch = Stored])
  /\ UNCHANGED <<vars, offered, source, agent, collection, points, shared, imported>>

-----------------------------------------------------------------------------
(* QdrantVectorStore *)

IsAsking(t) == t.doc = NoDocument

\* What follows once the collection exists.
Reaches(t) == [t EXCEPT !.pc = IF IsAsking(t) THEN "search" ELSE "upsert"]

EnsureCollection(w) ==
  /\ task[w].pc = "ensure"
  /\ Turns(w, IF collection THEN Reaches(task[w]) ELSE [task[w] EXCEPT !.pc = "create"])
  /\ UNCHANGED <<vars, offered, source, agent, collection, points, shared, imported>>

\* Creating a collection that another thread has created meanwhile raises.
CreateCollection(w) ==
  /\ task[w].pc = "create"
  /\ UNCHANGED vars
  /\ IF collection THEN GivesUp(w)
     ELSE /\ collection' = TRUE
          /\ Turns(w, Reaches(task[w]))
          /\ UNCHANGED <<offered, source, agent, points, shared, imported>>

Upsert(w) ==
  LET t    == task[w]
      next == IF t.doc.kind = "seed" THEN NoTask ELSE AfterChunk(t)
  IN
  /\ t.pc = "upsert"
  /\ points' = points \cup t.batch
  /\ Turns(w, next)
  /\ Ends(t, next)
  /\ UNCHANGED <<vars, offered, source, agent, collection, shared>>

\* Embedding, the index or the store raises, or the process stops.
Interrupted(w) ==
  /\ task[w] # NoTask
  /\ GivesUp(w)
  /\ UNCHANGED vars

-----------------------------------------------------------------------------
(* get_chat_agent and _candidate_records *)

CanUse(id) ==
  /\ IsStored(id)
  /\ memories[id].tenant_id = asker
  /\ EligibleAt(memories[id], as_of)

Usable == {id \in Ids : CanUse(id)}

Ask(w) ==
  /\ task[w] = NoTask
  /\ Question \in Offers[offered]
  /\ Turns(w, [NoTask EXCEPT !.pc = IF agent THEN "ensure" ELSE "build",
                           !.before = Usable])
  /\ UNCHANGED <<vars, offered, source, agent, collection, points, shared, imported>>

\* Whoever builds an agent puts it in the place of the last; building one may
\* raise (Interrupted), as it does while another holds a local index.
BuildAgent(w) ==
  /\ task[w].pc = "build"
  /\ agent' = TRUE
  /\ Turns(w, [task[w] EXCEPT !.pc = "ensure"])
  /\ UNCHANGED <<vars, offered, source, collection, points, shared, imported>>

SmallerOf(m, n) == IF m < n THEN m ELSE n

Search(w) ==
  LET mine == {id \in points : memories[id].tenant_id = asker} IN
  /\ task[w].pc = "search"
  /\ \E hits \in kSubset(SmallerOf(Cardinality(mine),
                                   retrieval_limit * candidate_pool_multiplier), mine) :
       Turns(w, [task[w] EXCEPT !.pc = "get", !.found = hits])
  /\ UNCHANGED <<vars, offered, source, agent, collection, points, shared, imported>>

\* Wrong on purpose: all rows are read only if the index led to none.
TooFewIfNone(ids) == ids = {}

TooFew(ids) == Cardinality(ids) < retrieval_limit

\* The rows of the hits are read and filtered.
GetHits(w) ==
  LET usable == task[w].found \cap Usable IN
  /\ task[w].pc = "get"
  /\ \A id \in task[w].found : WellFormedWindow(memories[id])
  /\ Turns(w, [task[w] EXCEPT !.pc = IF TooFew(usable) THEN "fallback" ELSE "candidates",
                              !.found = usable])
  /\ UNCHANGED <<vars, offered, source, agent, collection, points, shared, imported>>

\* list_all.
Fallback(w) ==
  /\ task[w].pc = "fallback"
  /\ Loads
  /\ Turns(w, [task[w] EXCEPT !.pc = "candidates", !.found = @ \cup Usable])
  /\ UNCHANGED <<vars, offered, source, agent, collection, points, shared, imported>>

\* The first of them, in whatever order, go into the answer.
Answer(w) ==
  /\ task[w].pc = "candidates"
  /\ Turns(w, NoTask)
  /\ UNCHANGED <<vars, offered, source, agent, collection, points, shared, imported>>

-----------------------------------------------------------------------------

Decide(id) ==
  /\ Approve(id) \/ Reject(id)
  /\ UNCHANGED agentVars

IngestionInit ==
  /\ Init
  /\ source = [id \in Ids |-> NoSource]
  /\ agent = FALSE
  /\ offered \in DOMAIN Offers
  /\ collection = FALSE
  /\ points = {}
  /\ task = [w \in Importers |-> NoTask]
  /\ shared = {}
  /\ imported = {}

IngestionNext ==
  \/ \E w \in Importers, doc \in Documents : Import(w, doc)
  \/ \E w \in Importers :
       \/ ListExisting(w) \/ SkipKnown(w) \/ StoreChunk(w) \/ ChunkRefused(w) \/ Reindex(w)
       \/ EnsureCollection(w) \/ CreateCollection(w) \/ Upsert(w)
       \/ Ask(w) \/ BuildAgent(w) \/ Search(w) \/ GetHits(w) \/ Fallback(w) \/ Answer(w)
       \/ Interrupted(w)
  \/ \E id \in Ids : Decide(id)

IngestionSpec == IngestionInit /\ [][IngestionNext]_ingestionVars

-----------------------------------------------------------------------------
(* Properties *)

\* However often a document is imported, after failures and decisions of
\* reviewers on what it brought, the same text of the same chunk is stored
\* once, unless two imports of the document overlapped.
ImportedOnce ==
  \A a, b \in Stored :
    a # b /\ source[a] = source[b] /\ source[a] # NoSource
    /\ (\E doc \in Documents : Looks(doc) /\ doc.name = source[a].name)
      => source[a].name \in shared

\* An import that ended without an error has left nothing out: every chunk of
\* this edition of the document is a row, whoever stored it and for whichever
\* tenant.
ImportsAreComplete ==
  \A doc \in imported : doc.kind # "seed" =>
    \A i \in DOMAIN doc.chunks : \E id \in Stored : source[id] = SourceOf(doc, i)

\* The index may lag, name rows that may no longer be used, and be asked
\* while reviewers decide: a row that may be used from the question to its
\* candidates is among them, unless as many as are wanted are.  (A row that
\* could be used and no longer can never can again.)
EligibleAreFound ==
  \A w \in Importers : task[w].pc = "candidates" =>
    Cardinality(task[w].found) >= retrieval_limit \/ task[w].before \cap Usable \subseteq task[w].found

=============================================================================
