---------------------------- MODULE ConfluenceSync ----------------------------
(***************************************************************************)
(* The incremental Confluence synchronisation: a run lists the pages of a  *)
(* space, ingests the chunks of those that differ from its checkpoint,     *)
(* expires the pending chunks they replace, on request expires the pages   *)
(* that are gone, and replaces the checkpoint.  Around it the space        *)
(* changes and reviewers decide; a run that fails leaves what it wrote.    *)
(*                                                                         *)
(* Connectors are processes that run it, of one tenant, space and          *)
(* checkpoint file; nothing keeps two of their runs apart.  A revision is  *)
(* a version number with its content hash; an id is that of a chunk of a   *)
(* revision, as uuid5 computes it, and its conflict key that of the        *)
(* chunk's place in the page.  Ingest and expiry are the operations of     *)
(* MemoryService.                                                          *)
(***************************************************************************)
EXTENDS MemoryService

CONSTANTS Connectors,
          RevisionsOf,   \* the revisions each page goes through upstream
          Settings,      \* the source type and authority runs are given
          tenant,
          max_retries,
          MaxRuns,       \* bound on runs
          MaxChanges     \* bound on what happens around them

\* A revision is cut into chunks, and was last updated on a day.
Revision == [chunks: Nat \ {0}, updated_at: OptionalDate]

ChunkId == [page: Pages, revision: Nat \ {0}, chunk: Nat \ {0}]

RevisionOf(id) == RevisionsOf[id.page][id.revision]

ASSUME SyncAssumption ==
  /\ RevisionsOf \in [Pages -> Seq(Revision) \ {<<>>}]
  /\ Ids \subseteq ChunkId
  /\ \A p \in Pages : \A v \in DOMAIN RevisionsOf[p] : \A k \in 1..RevisionsOf[p][v].chunks :
       [page |-> p, revision |-> v, chunk |-> k] \in Ids /\ <<p, k>> \in Keys
  /\ tenant \in Tenants
  /\ max_retries \in Nat
  /\ MaxRuns \in Nat
  /\ MaxChanges \in Nat

VARIABLES space,        \* how many revisions each page has had; the last is current
          visible,      \* the pages the account can list with a body
          changes,      \* how much has happened around the runs
          checkpoint,   \* per page: revision, and whether it was missing
          part,         \* the file beside it that is to replace it, if there is one
          sync,         \* what each connector is doing
          runs,         \* how many runs have begun
          cut,          \* history: the pages listed by runs that stopped early
          confirmed,    \* history: the pages a run has expired as missing
          contested     \* history: the pages listed by a run beside another run

world == <<space, visible, changes>>

files == <<checkpoint, part>>

syncVars == <<vars, world, files, sync, runs, cut, confirmed, contested>>

NoPages == [p \in {} |-> 0]

NoRun == [pc |-> "idle", setting |-> NoId, expire_missing |-> FALSE, old_pages |-> NoPages,
          attempt |-> 0, listed |-> NoPages, todo |-> {}, page |-> NoPage, chunk |-> 0]

Extended(f, p, value) == [q \in DOMAIN f \cup {p} |-> IF q = p THEN value ELSE f[q]]

RunsOn(c) == sync[c].pc # "idle"

Others(c) == {d \in Connectors \ {c} : RunsOn(d)}

GoesTo(c, run) == sync' = [sync EXCEPT ![c] = run]

StopsEarly(c) ==
  /\ GoesTo(c, NoRun)
  /\ cut' = cut \cup DOMAIN sync[c].listed
  /\ UNCHANGED <<world, files, runs, confirmed, contested>>

\* What the steps in the middle of a run leave alone.
Kept == UNCHANGED <<world, files, runs, cut, confirmed, contested>>

-----------------------------------------------------------------------------
(* Listing *)

\* The checkpoint is read now and not again.
StartRun(c, setting, expire_missing) ==
  /\ ~RunsOn(c)
  /\ GoesTo(c, [NoRun EXCEPT !.pc = "list", !.setting = setting, !.old_pages = checkpoint,
                            !.expire_missing = expire_missing])
  /\ runs < MaxRuns
  /\ runs' = runs + 1
  /\ contested' = contested \cup UNION {DOMAIN sync[d].listed : d \in Others(c)}
  /\ UNCHANGED <<vars, world, files, cut, confirmed>>

\* A response of the paginated listing brings page p, the first time.
ListPage(c, p) ==
  /\ sync[c].pc = "list"
  /\ p \in visible \ DOMAIN sync[c].listed
  /\ GoesTo(c, [sync[c] EXCEPT !.listed = Extended(@, p, space[p]), !.attempt = 0])
  /\ contested' = IF Others(c) = {} THEN contested ELSE contested \cup {p}
  /\ UNCHANGED <<vars, world, files, runs, cut, confirmed>>

\* It brings page p again, which has changed meanwhile.
ListedTwice(c, p) ==
  /\ sync[c].pc = "list"
  /\ p \in visible \cap DOMAIN sync[c].listed
  /\ sync[c].listed[p] # space[p]
  /\ StopsEarly(c)
  /\ UNCHANGED vars

\* Wrong on purpose: the last attempt is retried too.
RetriesLastToo(attempt) == attempt <= max_retries

Retries(attempt) == attempt < max_retries

\* A request fails, to be retried after a while or for good.
RequestFails(c) ==
  /\ sync[c].pc = "list"
  /\ IF Retries(sync[c].attempt)
     THEN GoesTo(c, [sync[c] EXCEPT !.attempt = @ + 1]) /\ Kept
     ELSE StopsEarly(c)
  /\ UNCHANGED vars

\* Wrong on purpose: a page that was seen before is never read again.
IsNew(run, p) == p \notin DOMAIN run.old_pages

IsChanged(run, p) ==
  p \notin DOMAIN run.old_pages \/ run.old_pages[p].revision # run.listed[p]

\* A run turns to one of the pages left, or to the missing ones.
TurnToPage(run) ==
  IF run.todo = {} THEN {[run EXCEPT !.pc = "missing", !.page = NoPage, !.chunk = 0]}
  ELSE {[run EXCEPT !.pc = "chunk", !.page = p, !.chunk = 1] : p \in run.todo}

\* There is no further cursor.  While others edit the space, a page may have
\* moved to where the listing had been already: what stays visible is missed.
EndListing(c) ==
  LET changed == {p \in DOMAIN sync[c].listed : IsChanged(sync[c], p)} IN
  /\ sync[c].pc = "list"
  /\ \E run \in TurnToPage([sync[c] EXCEPT !.todo = changed]) : GoesTo(c, run)
  /\ Kept
  /\ UNCHANGED vars

-----------------------------------------------------------------------------
(* Pages *)

ChunkRecord(id, setting) ==
  [tenant_id |-> tenant, conflict_key |-> <<id.page, id.chunk>>,
   source_type |-> setting.source_type, authority |-> setting.authority,
   valid_from |-> RevisionOf(id).updated_at, valid_to |-> NoDate,
   evidence |-> TRUE, extraction_confidence |-> 100, durable_value |-> 100,
   status |-> "candidate", supersedes |-> NoId,
   page_id |-> id.page, page_version |-> id.revision]

ASSUME SettingsAssumption ==
  \A id \in Ids, setting \in Settings : ChunkRecord(id, setting) \in Submissions

CurrentId(run) == [page |-> run.page, revision |-> run.listed[run.page], chunk |-> run.chunk]

NextChunk(c) ==
  GoesTo(c, IF sync[c].chunk < RevisionOf(CurrentId(sync[c])).chunks
           THEN [sync[c] EXCEPT !.chunk = @ + 1]
           ELSE [sync[c] EXCEPT !.pc = "expire"])

\* The row is there since an earlier run, or another run has stored it.
SkipChunk(c) ==
  LET id == CurrentId(sync[c]) IN
  /\ sync[c].pc = "chunk"
  /\ IsStored(id)
  /\ WellFormedWindow(memories[id])
  /\ NextChunk(c)
  /\ Kept
  /\ UNCHANGED vars

IngestChunk(c) ==
  LET id == CurrentId(sync[c]) IN
  /\ sync[c].pc = "chunk"
  /\ Ingest(id, ChunkRecord(id, sync[c].setting))
  /\ NextChunk(c)
  /\ Kept

\* The gate blocks the chunk, or a row cannot be read: the run raises.
ChunkFails(c) ==
  LET id == CurrentId(sync[c]) IN
  /\ sync[c].pc = "chunk"
  /\ \/ IngestBlocked(id)
     \/ IngestFails(id, ChunkRecord(id, sync[c].setting))
     \/ IsStored(id) /\ ~WellFormedWindow(memories[id]) /\ UNCHANGED vars
  /\ StopsEarly(c)

\* Wrong on purpose: the revision just ingested is not spared.
PendingOfPage(page, revision) == RowsOfPage(tenant, page, {"pending"})

ReplacedRows(page, revision) ==
  {id \in RowsOfPage(tenant, page, {"pending"}) : memories[id].page_version # revision}

\* _expire_records, whether or not there is a row to expire.
ExpireAny(ids) ==
  /\ \A id \in Stored : WellFormedWindow(memories[id])
  /\ IF ids = {} THEN UNCHANGED vars ELSE ExpireRows(ids)

ExpirePage(c) ==
  LET page == sync[c].page IN
  /\ sync[c].pc = "expire"
  /\ ExpireAny(ReplacedRows(page, sync[c].listed[page]))
  /\ \E run \in TurnToPage([sync[c] EXCEPT !.todo = @ \ {page}]) : GoesTo(c, run)
  /\ Kept

-----------------------------------------------------------------------------
(* Missing pages and the checkpoint *)

MissingPages(run) == DOMAIN run.old_pages \ DOMAIN run.listed

MissingRows(run) ==
  UNION {RowsOfPage(tenant, p, {"pending", "verified_active"}) : p \in MissingPages(run)}

IsConfirmed(run) == run.expire_missing /\ MissingPages(run) # {}

ConfirmMissing(c) ==
  /\ sync[c].pc = "missing"
  /\ IF IsConfirmed(sync[c])
     THEN ExpireAny(MissingRows(sync[c])) /\ confirmed' = confirmed \cup MissingPages(sync[c])
     ELSE UNCHANGED <<vars, confirmed>>
  /\ GoesTo(c, [sync[c] EXCEPT !.pc = "write"])
  /\ UNCHANGED <<world, files, runs, cut, contested>>

\* list_all meets a row it cannot rebuild.
ExpiryFails(c) ==
  /\ \/ sync[c].pc = "expire"
     \/ sync[c].pc = "missing" /\ IsConfirmed(sync[c])
  /\ \E id \in Stored : ~WellFormedWindow(memories[id])
  /\ StopsEarly(c)
  /\ UNCHANGED vars

Entry(revision, missing) == [revision |-> revision, missing |-> missing]

\* Wrong on purpose: missing pages are forgotten.
ListedOnly(run) == [p \in DOMAIN run.listed |-> Entry(run.listed[p], FALSE)]

NextPages(run) ==
  [p \in DOMAIN run.listed \cup (IF run.expire_missing THEN {} ELSE MissingPages(run)) |->
     IF p \in DOMAIN run.listed THEN Entry(run.listed[p], FALSE)
     ELSE Entry(run.old_pages[p].revision, TRUE)]

\* Every run writes to a file of one name.
WritePart(c) ==
  /\ sync[c].pc = "write"
  /\ part' = {NextPages(sync[c])}
  /\ GoesTo(c, [sync[c] EXCEPT !.pc = "replace"])
  /\ UNCHANGED <<vars, world, checkpoint, runs, cut, confirmed, contested>>

\* That file takes the checkpoint's place in one step, whoever wrote it; the
\* run raises if another has moved it already.
ReplaceCheckpoint(c) ==
  /\ sync[c].pc = "replace"
  /\ \/ /\ \E pages \in part : checkpoint' = pages
        /\ part' = {}
        /\ GoesTo(c, NoRun)
        /\ UNCHANGED <<world, runs, cut, confirmed, contested>>
     \/ part = {} /\ StopsEarly(c)
  /\ UNCHANGED vars

\* The process stops, or a call fails for another reason: that the id was
\* taken between the two checks of it, by another run, is one.
Abort(c) ==
  /\ RunsOn(c)
  /\ StopsEarly(c)
  /\ UNCHANGED vars

-----------------------------------------------------------------------------
(* Around the run *)

Happens == changes < MaxChanges /\ changes' = changes + 1

Edit(p) ==
  /\ Happens
  /\ space[p] < Len(RevisionsOf[p])
  /\ space' = [space EXCEPT ![p] = @ + 1]
  /\ UNCHANGED <<vars, visible, files, sync, runs, cut, confirmed, contested>>

\* A page is deleted, hidden from the account or emptied; or it comes back.
Toggle(p) ==
  /\ Happens
  /\ visible' = IF p \in visible THEN visible \ {p} ELSE visible \cup {p}
  /\ UNCHANGED <<vars, space, files, sync, runs, cut, confirmed, contested>>

Review ==
  /\ Happens
  /\ \E id \in Ids : Approve(id) \/ Reject(id)
  /\ UNCHANGED <<space, visible, files, sync, runs, cut, confirmed, contested>>

SyncInit ==
  /\ Init
  /\ space = [p \in Pages |-> 1]
  /\ visible = Pages
  /\ changes = 0
  /\ checkpoint = NoPages
  /\ part = {}
  /\ sync = [c \in Connectors |-> NoRun]
  /\ runs = 0
  /\ cut = {} /\ confirmed = {} /\ contested = {}

GoOn(c) ==
  \/ \E p \in Pages : ListPage(c, p) \/ ListedTwice(c, p)
  \/ RequestFails(c)
  \/ EndListing(c)
  \/ SkipChunk(c) \/ IngestChunk(c) \/ ChunkFails(c)
  \/ ExpirePage(c) \/ ExpiryFails(c)
  \/ ConfirmMissing(c)
  \/ WritePart(c) \/ ReplaceCheckpoint(c)

SyncNext ==
  \/ \E c \in Connectors :
       \/ \E setting \in Settings, e \in BOOLEAN : StartRun(c, setting, e)
       \/ GoOn(c)
       \/ Abort(c)
  \/ \E p \in Pages : Edit(p) \/ Toggle(p)
  \/ Review

SyncSpec == SyncInit /\ [][SyncNext]_syncVars

-----------------------------------------------------------------------------
(* Properties *)

\* The shape of the connector's state.
SyncTypeOK ==
  /\ space \in [Pages -> Nat \ {0}]
  /\ \A p \in DOMAIN checkpoint : p \in Pages /\ checkpoint[p].revision \in 1..space[p]
  /\ \A f, g \in part : f = g
  /\ runs \in 0..MaxRuns
  /\ \A c \in Connectors : LET run == sync[c] IN
       /\ \A p \in DOMAIN run.listed : run.listed[p] \in 1..space[p]
       /\ run.pc \in {"idle", "list", "chunk", "expire", "missing", "write", "replace"}
       /\ run.pc \in {"chunk", "expire"} => run.page \in run.todo
       /\ run.attempt \in 0..max_retries

\* What the checkpoint says was synchronised is in the store, whichever runs
\* overlapped or stopped halfway: every chunk of the revision it holds for a
\* page.  And no chunk of an older one still waits for a reviewer, unless
\* two runs on the page overlapped.  A page the next run takes for unchanged
\* needs nothing.
CheckpointIsBacked ==
  \A p \in DOMAIN checkpoint :
    LET v == checkpoint[p].revision IN
    /\ \A k \in 1..RevisionsOf[p][v].chunks :
         IsStored([page |-> p, revision |-> v, chunk |-> k])
    /\ p \notin contested =>
         \A id \in Ids : HasStatus(id, "pending") /\ id.page = p => id.revision >= v

\* A chunk expires for a reason: a newer revision of its page is stored, or
\* a run confirmed that the page was missing.  A run that resumes after one
\* that failed spares what that one ingested; only a run beside another may
\* take the other's revision for the older one.
NothingExpiresInVain ==
  \A id \in Ids : HasStatus(id, "expired") =>
    \/ id.page \in confirmed \cup contested
    \/ \E newer \in Stored : newer.page = id.page /\ newer.revision > id.revision

\* A page whose chunks may be used, or await a decision to that end, has an
\* entry in the checkpoint, without which no run could ever confirm it
\* missing: unless the run that ingested it goes on, or stopped early, or
\* another beside it wrote a checkpoint that knows nothing of it.
LivePagesStayTracked ==
  \A id \in {m \in Stored : memories[m].page_id = m.page} :
    HasStatus(id, "pending") \/ HasStatus(id, "verified_active") =>
      \/ id.page \in DOMAIN checkpoint \cup cut \cup contested
      \/ \E c \in Connectors : id.page \in DOMAIN sync[c].listed

=============================================================================
