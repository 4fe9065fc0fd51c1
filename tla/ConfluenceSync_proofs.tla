------------------------- MODULE ConfluenceSync_proofs -------------------------
(***************************************************************************)
(* Proofs about the synchronisation of a space, for any number of          *)
(* connectors, runs, pages and revisions: what the checkpoint says is      *)
(* stored is stored, nothing expires without cause, and no page with live  *)
(* chunks is forgotten, although runs overlap, stop anywhere and leave     *)
(* files behind, and the space changes under them.                         *)
(*                                                                         *)
(* Three kinds of books tell what was synchronised: the checkpoint, the    *)
(* file that is to replace it, and the copies that runs have read.  The    *)
(* invariant says the same of all of them (BookOK), what a run has done by *)
(* its stage (RunOK), that a run which has a page for itself is ahead of   *)
(* every book (Ahead), and that no book about to become the checkpoint     *)
(* misses a live page (Tracks).                                            *)
(***************************************************************************)
EXTENDS ConfluenceSync, MemoryService_proofs

-----------------------------------------------------------------------------
(* What an operation does to rows it does not store *)

Quiet(m) ==
  /\ IsStored(m) <=> IsStored(m)'
  /\ IsStored(m) =>
       /\ memories'[m].page_id = memories[m].page_id
       /\ memories'[m].page_version = memories[m].page_version
       /\ memories'[m].tenant_id = memories[m].tenant_id
       /\ memories'[m].status = "pending" => memories[m].status = "pending"
       /\ memories'[m].status = "verified_active" =>
            memories[m].status \in {"pending", "verified_active"}

Expires(m) == HasStatus(m, "expired")' /\ ~HasStatus(m, "expired")

LEMMA SameQuiet ==
  ASSUME memories' = memories, NEW m
  PROVE  Quiet(m) /\ ~Expires(m)
BY DEF Quiet, Expires, HasStatus, IsStored

LEMMA UntouchedQuiet ==
  ASSUME NEW m, Untouched(m)
  PROVE  Quiet(m) /\ ~Expires(m)
BY DEF Untouched, Quiet, Expires, HasStatus, IsStored

LEMMA ReplacesQuiet ==
  ASSUME TypeOK, NEW id \in Ids, NEW base, NEW record, NEW olds,
         Replaces(id, base, record, olds),
         NEW m \in Ids \ {id}
  PROVE  Quiet(m) /\ ~Expires(m)
<1>1. CASE Untouched(m)
  BY <1>1, UntouchedQuiet
<1>2. CASE ClosedBy(m, id)
  <2>1. memories[m] \in MemoryRecord /\ IsStored(m)
    BY <1>2 DEF ClosedBy, IsStored, TypeOK
  <2>2. /\ memories'[m] = Closed(memories[m], memories'[id])
        /\ memories'[m] \in MemoryRecord
    BY <1>2 DEF ClosedBy
  <2>3. /\ memories'[m].page_id = memories[m].page_id
        /\ memories'[m].page_version = memories[m].page_version
        /\ memories'[m].tenant_id = memories[m].tenant_id
        /\ memories'[m].status = "superseded"
    BY <2>1, <2>2 DEF Closed, MemoryRecord
  <2>4. IsStored(m)'
    BY <2>2, NamesAssumption DEF IsStored
  <2> QED
    BY <2>1, <2>3, <2>4 DEF Quiet, Expires, HasStatus
<1> QED
  BY <1>1, <1>2, ReplacesOthers

\* What happens to a row whose status and supersedes alone are set.
LEMMA DecidedKeeps ==
  ASSUME NEW base \in MemoryRecord, NEW record \in MemoryRecord,
         record = [base EXCEPT !.status = record.status, !.supersedes = record.supersedes]
  PROVE  /\ record.page_id = base.page_id
         /\ record.page_version = base.page_version
         /\ record.tenant_id = base.tenant_id
BY DEF MemoryRecord

LEMMA ReviewQuiet ==
  ASSUME TypeOK, NEW id \in Ids, Approve(id) \/ Reject(id), NEW m \in Ids
  PROVE  Quiet(m) /\ ~Expires(m)
<1>0. /\ IsStored(id)
      /\ memories[id] \in MemoryRecord
      /\ memories[id].status = "pending"
  BY DEF Approve, Reject, CanReview, IsStored, TypeOK
<1>1. CASE Approve(id)
  <2>1. PICK record, olds :
          /\ Replaces(id, memories[id], record, olds)
          /\ record.status = "verified_active"
          /\ audit_events'[id] = ReviewTrail(audit_events[id], "verified_active", olds)
    BY <1>1, ApproveReplaces
  <2>2. CASE m # id
    BY <2>1, <2>2, ReplacesQuiet
  <2>3. CASE m = id
    <3>1. /\ record \in MemoryRecord
          /\ record = [memories[id] EXCEPT !.status = record.status,
                                           !.supersedes = record.supersedes]
          /\ memories'[m] = record
      BY <2>1, <2>3 DEF Replaces, SaveReplacing
    <3>2. IsStored(m)'
      BY <3>1, NamesAssumption DEF IsStored
    <3> QED
      BY <1>0, <2>1, <2>3, <3>1, <3>2, DecidedKeeps, ZenonT(60) DEF Quiet, Expires, HasStatus
  <2> QED
    BY <2>2, <2>3
<1>2. CASE Reject(id)
  <2>1. CASE m # id
    <3>1. memories'[m] = memories[m]
      BY <1>2, <2>1 DEF Reject, TypeOK
    <3> QED
      BY <3>1 DEF Quiet, Expires, HasStatus, IsStored
  <2>2. CASE m = id
    <3>1. memories'[m] = [memories[m] EXCEPT !.status = "rejected"]
      BY <1>2, <2>2 DEF Reject, TypeOK
    <3>2. /\ memories'[m] \in MemoryRecord
          /\ memories'[m].page_id = memories[m].page_id
          /\ memories'[m].page_version = memories[m].page_version
          /\ memories'[m].tenant_id = memories[m].tenant_id
          /\ memories'[m].status = "rejected"
      BY <1>0, <2>2, <3>1 DEF MemoryRecord, MemoryStatus
    <3>3. IsStored(m)'
      BY <3>2, NamesAssumption DEF IsStored
    <3> QED
      BY <1>0, <2>2, <3>2, <3>3 DEF Quiet, Expires, HasStatus
  <2> QED
    BY <2>1, <2>2
<1> QED
  BY <1>1, <1>2

LEMMA ExpiryQuiet ==
  ASSUME TypeOK, NEW ids \in SUBSET Stored, ExpireRows(ids), NEW m \in Ids
  PROVE  /\ Quiet(m)
         /\ m \in ids => HasStatus(m, "expired")'
         /\ m \notin ids => ~Expires(m)
<1>1. CASE m \notin ids
  <2>1. memories'[m] = memories[m]
    BY <1>1 DEF ExpireRows
  <2> QED
    BY <1>1, <2>1 DEF Quiet, Expires, HasStatus, IsStored
<1>2. CASE m \in ids
  <2>1. IsStored(m) /\ memories[m] \in MemoryRecord
    BY <1>2 DEF Stored, IsStored, TypeOK
  <2>2. memories'[m] = [memories[m] EXCEPT !.status = "expired"]
    BY <1>2 DEF ExpireRows
  <2>3. /\ memories'[m] \in MemoryRecord
        /\ memories'[m].page_id = memories[m].page_id
        /\ memories'[m].page_version = memories[m].page_version
        /\ memories'[m].tenant_id = memories[m].tenant_id
        /\ memories'[m].status = "expired"
    BY <2>1, <2>2 DEF MemoryRecord, MemoryStatus
  <2>4. IsStored(m)'
    BY <2>3, NamesAssumption DEF IsStored
  <2> QED
    BY <1>2, <2>1, <2>3, <2>4 DEF Quiet, HasStatus
<1> QED
  BY <1>1, <1>2

\* Ingest stores one row and expires none.
LEMMA IngestAdds ==
  ASSUME TypeOK, NEW id \in Ids, NEW s \in Submissions, Ingest(id, s)
  PROVE  /\ ~IsStored(id)
         /\ IsStored(id)'
         /\ memories'[id].page_id = s.page_id
         /\ memories'[id].page_version = s.page_version
         /\ memories'[id].tenant_id = s.tenant_id
         /\ memories'[id].status \in {"pending", "verified_active", "rejected"}
         /\ \A m \in Ids : ~Expires(m)
         /\ \A m \in Ids \ {id} : Quiet(m)
<1>1. PICK record, olds :
        /\ Replaces(id, s, record, olds)
        /\ record.status \in {"pending", "verified_active", "rejected"}
        /\ audit_events'[id] = Append(AdmissionTrail(audit_events[id], s),
                                      Event("status_changed", record.status, {}))
  BY IngestReplaces
<1>2. /\ record \in MemoryRecord
      /\ record = [s EXCEPT !.status = record.status, !.supersedes = record.supersedes]
      /\ memories'[id] = record
  BY <1>1 DEF Replaces, SaveReplacing
<1>3. s \in MemoryRecord
  BY SubmissionsAssumption
<1>4. /\ record.page_id = s.page_id
      /\ record.page_version = s.page_version
      /\ record.tenant_id = s.tenant_id
  BY <1>2, <1>3, DecidedKeeps
<1>5. ~IsStored(id) /\ IsStored(id)'
  BY <1>2, NamesAssumption DEF Ingest, IsStored
<1>6. ~Expires(id)
  BY <1>1, <1>2 DEF Expires, HasStatus
<1>7. \A m \in Ids \ {id} : Quiet(m) /\ ~Expires(m)
  BY <1>1, ReplacesQuiet
<1> QED
  BY <1>1, <1>2, <1>4, <1>5, <1>6, <1>7

-----------------------------------------------------------------------------
(* The invariant *)

IsRun(run) ==
  \E pc, setting, expire_missing, old_pages, attempt, listed, todo, page, chunk :
    run = [pc |-> pc, setting |-> setting, expire_missing |-> expire_missing,
           old_pages |-> old_pages, attempt |-> attempt, listed |-> listed, todo |-> todo,
           page |-> page, chunk |-> chunk]

RunPc == {"idle", "list", "chunk", "expire", "missing", "write", "replace"}

ChunkOf(p, v, k) == [page |-> p, revision |-> v, chunk |-> k]

\* Every chunk of the revision is a row.
StoresChunks(p, v) == \A k \in 1..RevisionsOf[p][v].chunks : IsStored(ChunkOf(p, v, k))

\* No chunk of an older revision awaits a reviewer.
NoOlder(p, v) ==
  \A id \in Ids : HasStatus(id, "pending") /\ id.page = p => id.revision >= v

Live(p) ==
  \E id \in Stored : id.page = p /\ memories[id].status \in {"pending", "verified_active"}

\* A live page that should be in the books.
Counts(p) == Live(p) /\ p \notin contested \cup cut

Books == {checkpoint} \cup part \cup {sync[c].old_pages : c \in Connectors}

BookOK(pages) ==
  \A p \in DOMAIN pages :
    /\ p \in Pages
    /\ pages[p].revision \in 1..space[p]
    /\ StoresChunks(p, pages[p].revision)
    /\ p \notin contested => NoOlder(p, pages[p].revision)

SyncShape ==
  /\ TypeOK
  /\ space \in [Pages -> Nat \ {0}]
  /\ \A p \in Pages : space[p] <= Len(RevisionsOf[p])
  /\ visible \subseteq Pages
  /\ \A f, g \in part : f = g
  /\ runs \in 0..MaxRuns
  /\ sync = [c \in Connectors |-> sync[c]]
  /\ \A c \in Connectors : IsRun(sync[c])

RowsOK ==
  \A id \in Stored :
    /\ memories[id].page_id = id.page
    /\ memories[id].page_version = id.revision
    /\ memories[id].tenant_id = tenant
    /\ id.revision <= space[id.page]

RunOK(run) ==
  /\ run.pc \in RunPc
  /\ run.pc = "idle" => run = NoRun
  /\ run.pc # "idle" => run.setting \in Settings
  /\ run.attempt \in 0..max_retries
  /\ \A p \in DOMAIN run.listed : p \in Pages /\ run.listed[p] \in 1..space[p]
  /\ run.todo \subseteq DOMAIN run.listed
  /\ run.pc \in {"missing", "write", "replace"} => run.todo = {}
  /\ run.pc \in {"chunk", "expire"} => run.page \in run.todo

\* How far the run has come with the page it is at, and the pages before.
DoneOK(run) ==
  /\ run.pc = "chunk" =>
       /\ run.chunk \in 1..RevisionsOf[run.page][run.listed[run.page]].chunks
       /\ \A k \in 1..(run.chunk - 1) : IsStored(ChunkOf(run.page, run.listed[run.page], k))
  /\ run.pc = "expire" => StoresChunks(run.page, run.listed[run.page])
  /\ run.pc \notin {"idle", "list"} =>
       \A p \in DOMAIN run.listed \ run.todo :
         /\ StoresChunks(p, run.listed[p])
         /\ p \notin contested => NoOlder(p, run.listed[p])

\* A page nobody contested is this run's alone, which knows its latest revision.
Ahead(c) ==
  \A p \in DOMAIN sync[c].listed \ contested :
    /\ Others(c) = {}
    /\ \A pages \in Books : p \in DOMAIN pages => pages[p].revision <= sync[c].listed[p]
    /\ \A id \in Stored : id.page = p => id.revision <= sync[c].listed[p]

Tracks(c) ==
  /\ RunsOn(c) =>
       \A p \in Pages : Counts(p) => p \in DOMAIN sync[c].old_pages \cup DOMAIN sync[c].listed
  /\ sync[c].pc \in {"write", "replace"} /\ sync[c].expire_missing =>
       \A p \in MissingPages(sync[c]) : p \notin contested => ~Live(p)
  /\ sync[c].pc = "replace" =>
       \A pages \in part : \A p \in Pages : Counts(p) => p \in DOMAIN pages

SyncInv ==
  /\ SyncShape
  /\ RowsOK
  /\ \A pages \in Books : BookOK(pages)
  /\ \A c \in Connectors : RunOK(sync[c]) /\ DoneOK(sync[c]) /\ Ahead(c) /\ Tracks(c)
  /\ NothingExpiresInVain
  /\ \A p \in Pages :
       Counts(p) => p \in DOMAIN checkpoint \/ \E c \in Connectors : p \in DOMAIN sync[c].listed

-----------------------------------------------------------------------------
(* Steps *)

\* Run c stores the chunk it is at.
Adds(c) ==
  LET id == CurrentId(sync[c]) IN
  /\ sync[c].pc = "chunk"
  /\ id \in Ids
  /\ memories[id] = NoRecord /\ memories'[id] # NoRecord
  /\ memories'[id].page_id = id.page
  /\ memories'[id].page_version = id.revision
  /\ memories'[id].tenant_id = tenant
  /\ memories'[id].status \in {"pending", "verified_active", "rejected"}
  /\ \A m \in Ids : ~Expires(m)
  /\ \A m \in Ids \ {id} : Quiet(m)

AllQuiet == \A m \in Ids : Quiet(m)

\* Why a chunk may have expired.
HasCause(id) ==
  \/ id.page \in confirmed \cup contested
  \/ \E newer \in Stored : newer.page = id.page /\ newer.revision > id.revision

\* A step of the connectors in `movers', of which there is at most one, or of
\* the world around them: what it can do to the others.
Mild(movers) ==
  /\ SyncShape'
  /\ movers \subseteq Connectors
  /\ \A c, d \in movers : c = d
  /\ \A d \in Connectors \ movers : sync'[d] = sync[d]
  /\ \A p \in Pages : space'[p] >= space[p]
  /\ contested \subseteq contested'
  /\ cut \subseteq cut'
  /\ AllQuiet \/ \E c \in movers : Adds(c)
  /\ \A c \in movers : ~RunsOn(c) =>
       \A d \in Others(c) : DOMAIN sync[d].listed \subseteq contested'
  /\ \A c \in movers : \A p \in DOMAIN sync'[c].listed \ DOMAIN sync[c].listed :
       Others(c) = {} \/ p \in contested'
  /\ \A pages \in Books' : \/ pages \in Books
                           \/ pages = NoPages
                           \/ \E c \in movers : sync[c].pc = "write" /\ pages = NextPages(sync[c])
  /\ \A pages \in part' : \/ pages \in part
                          \/ \E c \in movers : sync[c].pc = "write" /\ pages = NextPages(sync[c])
  /\ \/ /\ checkpoint' = checkpoint
        /\ \A c \in movers : DOMAIN sync[c].listed \subseteq DOMAIN sync'[c].listed \cup cut'
     \/ \E c \in movers : sync[c].pc = "replace" /\ checkpoint' \in part
  /\ confirmed \subseteq confirmed'
  /\ \A id \in Ids : Expires(id) => HasCause(id)'

LEMMA ChunkIsId ==
  ASSUME NEW p \in Pages, NEW v \in 1..Len(RevisionsOf[p])
  PROVE  /\ RevisionsOf[p][v].chunks \in Nat \ {0}
         /\ \A k \in 1..RevisionsOf[p][v].chunks : ChunkOf(p, v, k) \in Ids
<1>1. RevisionsOf[p] \in Seq(Revision) /\ v \in DOMAIN RevisionsOf[p]
  BY SyncAssumption
<1>2. RevisionsOf[p][v] \in Revision
  BY <1>1
<1> QED
  BY <1>1, <1>2, SyncAssumption DEF Revision, ChunkOf

LEMMA RowsStay ==
  ASSUME NEW movers, Mild(movers), NEW id \in Ids, IsStored(id)
  PROVE  IsStored(id)'
<1>1. Quiet(id)
  BY DEF Mild, AllQuiet, Adds, IsStored
<1> QED
  BY <1>1 DEF Quiet

LEMMA ChunksStay ==
  ASSUME NEW movers, Mild(movers), NEW p \in Pages, NEW v \in 1..Len(RevisionsOf[p]),
         StoresChunks(p, v)
  PROVE  StoresChunks(p, v)'
BY ChunkIsId, RowsStay DEF StoresChunks

\* A page that was not listed by the run that moves has only its old rows.
LEMMA OldRows ==
  ASSUME NEW movers, Mild(movers), NEW p, NEW id \in Ids, id.page = p,
         \A c \in movers : Adds(c) => p # sync[c].page
  PROVE  Quiet(id)
<1>1. CASE AllQuiet
  BY <1>1 DEF AllQuiet
<1>2. ASSUME NEW c \in movers, Adds(c) PROVE Quiet(id)
  <2>1. CurrentId(sync[c]).page = sync[c].page
    BY DEF CurrentId
  <2>2. id # CurrentId(sync[c])
    BY <1>2, <2>1
  <2> QED
    BY <1>2, <2>2 DEF Adds
<1> QED
  BY <1>1, <1>2 DEF Mild

LEMMA OldPage ==
  ASSUME NEW movers, Mild(movers), NEW p, \A c \in movers : Adds(c) => p # sync[c].page
  PROVE  /\ \A v : NoOlder(p, v) => NoOlder(p, v)'
         /\ Live(p)' => Live(p)
         /\ \A id \in Stored' : id.page = p => id \in Stored
<1>1. \A id \in Ids : id.page = p => Quiet(id)
  BY OldRows
<1>2. ASSUME NEW v, NoOlder(p, v) PROVE NoOlder(p, v)'
  BY <1>1, <1>2 DEF NoOlder, Quiet, HasStatus
<1>3. ASSUME Live(p)' PROVE Live(p)
  <2>1. PICK id \in Ids : /\ IsStored(id)' /\ id.page = p
                          /\ memories'[id].status \in {"pending", "verified_active"}
    BY <1>3 DEF Live, Stored
  <2> QED
    BY <1>1, <2>1 DEF Quiet, Live, Stored
<1>4. \A id \in Stored' : id.page = p => id \in Stored
  BY <1>1 DEF Stored, Quiet
<1> QED
  BY <1>2, <1>3, <1>4

-----------------------------------------------------------------------------
(* What a step leaves of the invariant for the others *)

LEMMA Idle ==
  ASSUME SyncInv, NEW c \in Connectors, ~RunsOn(c)
  PROVE  sync[c] = NoRun /\ DOMAIN sync[c].listed = {} /\ sync[c].pc = "idle"
<1>1. sync[c] = NoRun
  BY DEF SyncInv, RunsOn, RunOK
<1> QED
  BY <1>1 DEF NoRun, NoPages, RunsOn

\* Where a run stores a row.
LEMMA Added ==
  ASSUME SyncInv, NEW c \in Connectors, Adds(c)
  PROVE  /\ RunsOn(c)
         /\ CurrentId(sync[c]).page = sync[c].page
         /\ CurrentId(sync[c]).revision = sync[c].listed[sync[c].page]
         /\ sync[c].page \in DOMAIN sync[c].listed
         /\ sync[c].page \in Pages
         /\ sync[c].listed[sync[c].page] \in 1..space[sync[c].page]
<1>1. sync[c].pc = "chunk" /\ RunOK(sync[c])
  BY DEF Adds, SyncInv
<1> QED
  BY <1>1 DEF RunOK, RunsOn, CurrentId

LEMMA Space ==
  ASSUME SyncInv, NEW p \in Pages, NEW v \in 1..space[p]
  PROVE  /\ space[p] \in Nat
         /\ v \in 1..Len(RevisionsOf[p])
         /\ \A movers : Mild(movers) => v \in 1..space'[p] /\ space'[p] \in Nat
<1>1. space[p] \in Nat /\ space[p] <= Len(RevisionsOf[p])
  BY DEF SyncInv, SyncShape
<1>2. Len(RevisionsOf[p]) \in Nat
  BY SyncAssumption
<1>3. ASSUME NEW movers, Mild(movers) PROVE space'[p] >= space[p] /\ space'[p] \in Nat
  BY <1>3 DEF Mild, SyncShape
<1> QED
  BY <1>1, <1>2, <1>3

LEMMA NoOlderStays ==
  ASSUME SyncInv, NEW movers, Mild(movers), NEW p, NEW v, NoOlder(p, v),
         \A c \in movers : Adds(c) /\ p = sync[c].page => v <= sync[c].listed[p]
  PROVE  NoOlder(p, v)'
<1>1. CASE \A c \in movers : Adds(c) => p # sync[c].page
  BY <1>1, OldPage
<1>2. ASSUME NEW c \in movers, Adds(c), p = sync[c].page PROVE NoOlder(p, v)'
  <2>1. c \in Connectors
    BY DEF Mild
  <2>2. \A m \in Ids \ {CurrentId(sync[c])} : Quiet(m)
    BY <1>2 DEF Adds
  <2>3. CurrentId(sync[c]).revision >= v
    <3>1. CurrentId(sync[c]).revision = sync[c].listed[p]
      BY <1>2, <2>1, Added
    <3>2. v <= sync[c].listed[p]
      BY <1>2
    <3> QED
      BY <3>1, <3>2
  <2>4. ASSUME NEW id \in Ids, HasStatus(id, "pending")', id.page = p PROVE id.revision >= v
    <3>1. CASE id = CurrentId(sync[c])
      BY <2>3, <3>1
    <3>2. CASE id # CurrentId(sync[c])
      BY <2>2, <2>4, <3>2 DEF Quiet, HasStatus, NoOlder
    <3> QED
      BY <3>1, <3>2
  <2> QED
    BY <2>4 DEF NoOlder
<1> QED
  BY <1>1, <1>2

\* A page becomes live only where a run has listed it.
LEMMA LiveBefore ==
  ASSUME SyncInv, NEW movers, Mild(movers), NEW p, Live(p)'
  PROVE  \/ Live(p)
         \/ \E c \in movers : Adds(c) /\ p = sync[c].page
BY OldPage

LEMMA CountsBefore ==
  ASSUME SyncInv, NEW movers, Mild(movers), NEW p, Counts(p)'
  PROVE  /\ p \notin contested \cup cut
         /\ \/ Counts(p)
            \/ \E c \in movers : Adds(c) /\ p = sync[c].page
<1>1. contested \subseteq contested' /\ cut \subseteq cut'
  BY DEF Mild
<1>2. Live(p)' /\ p \notin contested \cup cut
  BY <1>1 DEF Counts
<1>3. Live(p) \/ \E c \in movers : Adds(c) /\ p = sync[c].page
  BY <1>2, LiveBefore
<1> QED
  BY <1>2, <1>3 DEF Counts

\* Who has a page for itself need not fear the others.
LEMMA Alone ==
  ASSUME SyncInv, NEW c \in Connectors, NEW p \in DOMAIN sync[c].listed \ contested,
         NEW d \in Connectors \ {c}
  PROVE  ~RunsOn(d) /\ RunsOn(c)
<1>1. Others(c) = {}
  BY DEF SyncInv, Ahead
<1>2. RunsOn(c)
  BY Idle
<1> QED
  BY <1>1, <1>2 DEF Others

\* While a run has an uncontested page, nobody else moves.
LEMMA Unmoved ==
  ASSUME SyncInv, NEW movers, Mild(movers), NEW d \in Connectors \ movers,
         NEW p \in DOMAIN sync[d].listed \ contested'
  PROVE  movers = {}
<1>1. p \notin contested
  BY DEF Mild
<1>2. ASSUME NEW c \in movers PROVE FALSE
  <2>1. c \in Connectors \ {d}
    BY DEF Mild
  <2>2. ~RunsOn(c) /\ RunsOn(d)
    BY <1>1, <2>1, Alone
  <2>3. d \in Others(c)
    BY <2>1, <2>2 DEF Others
  <2> QED
    BY <2>2, <2>3 DEF Mild
<1> QED
  BY <1>2

\* The rows stay those of the space.
LEMMA RowsStep ==
  ASSUME SyncInv, NEW movers, Mild(movers)
  PROVE  RowsOK'
<1> SUFFICES ASSUME NEW id \in Ids, IsStored(id)'
    PROVE  /\ memories'[id].page_id = id.page
           /\ memories'[id].page_version = id.revision
           /\ memories'[id].tenant_id = tenant
           /\ id.revision <= space'[id.page]
  BY DEF RowsOK, Stored
<1>0. id.page \in Pages /\ id.revision \in Nat
  BY SyncAssumption DEF ChunkId
<1>1. /\ space[id.page] \in Nat /\ space'[id.page] \in Nat
      /\ space'[id.page] >= space[id.page]
  BY <1>0 DEF SyncInv, SyncShape, Mild
<1>2. CASE Quiet(id)
  <2>1. /\ IsStored(id)
        /\ memories'[id].page_id = memories[id].page_id
        /\ memories'[id].page_version = memories[id].page_version
        /\ memories'[id].tenant_id = memories[id].tenant_id
    BY <1>2 DEF Quiet
  <2>2. /\ memories[id].page_id = id.page
        /\ memories[id].page_version = id.revision
        /\ memories[id].tenant_id = tenant
        /\ id.revision <= space[id.page]
    BY <2>1 DEF SyncInv, RowsOK, Stored
  <2> QED
    BY <1>0, <1>1, <2>1, <2>2
<1>3. ASSUME NEW c \in movers, Adds(c), id = CurrentId(sync[c])
      PROVE  /\ memories'[id].page_id = id.page
             /\ memories'[id].page_version = id.revision
             /\ memories'[id].tenant_id = tenant
             /\ id.revision <= space'[id.page]
  <2>1. /\ memories'[id].page_id = id.page
        /\ memories'[id].page_version = id.revision
        /\ memories'[id].tenant_id = tenant
    BY <1>3 DEF Adds
  <2>2. c \in Connectors
    BY DEF Mild
  <2>3. id.revision \in 1..space[id.page]
    BY <1>3, <2>2, Added
  <2> QED
    BY <1>0, <1>1, <2>1, <2>3
<1>4. Quiet(id) \/ \E c \in movers : Adds(c) /\ id = CurrentId(sync[c])
  BY DEF Mild, AllQuiet, Adds
<1> QED
  BY <1>2, <1>3, <1>4

\* A book that nobody adds pages to stays right.
LEMMA BookStays ==
  ASSUME SyncInv, NEW movers, Mild(movers), NEW pages, BookOK(pages),
         pages \in Books \/ \A c \in movers : ~Adds(c)
  PROVE  BookOK(pages)'
<1> SUFFICES ASSUME NEW p \in DOMAIN pages
    PROVE  /\ p \in Pages
           /\ pages[p].revision \in 1..space'[p]
           /\ StoresChunks(p, pages[p].revision)'
           /\ p \notin contested' => NoOlder(p, pages[p].revision)'
  BY DEF BookOK
<1>1. /\ p \in Pages
      /\ pages[p].revision \in 1..space[p]
      /\ StoresChunks(p, pages[p].revision)
      /\ p \notin contested => NoOlder(p, pages[p].revision)
  BY DEF BookOK
<1>2. pages[p].revision \in 1..space'[p] /\ pages[p].revision \in 1..Len(RevisionsOf[p])
  BY <1>1, Space
<1>3. StoresChunks(p, pages[p].revision)'
  BY <1>1, <1>2, ChunksStay
<1>4. ASSUME p \notin contested' PROVE NoOlder(p, pages[p].revision)'
  <2>1. p \notin contested
    BY <1>4 DEF Mild
  <2>2. ASSUME NEW c \in movers, Adds(c), p = sync[c].page
        PROVE  pages[p].revision <= sync[c].listed[p]
    <3>1. c \in Connectors
      BY DEF Mild
    <3>2. p \in DOMAIN sync[c].listed
      BY <2>2, <3>1, Added
    <3>3. pages \in Books
      BY <2>2
    <3>4. Ahead(c)
      BY <3>1 DEF SyncInv
    <3> QED
      BY <2>1, <3>2, <3>3, <3>4 DEF Ahead
  <2> QED
    BY <1>1, <2>1, <2>2, NoOlderStays
<1> QED
  BY <1>1, <1>2, <1>3, <1>4

\* What a run writes is right.
LEMMA NextPagesOK ==
  ASSUME SyncInv, NEW c \in Connectors, sync[c].pc = "write"
  PROVE  BookOK(NextPages(sync[c]))
<1> DEFINE run == sync[c]
           pages == NextPages(run)
<1>1. RunOK(run) /\ DoneOK(run) /\ BookOK(run.old_pages)
  BY DEF SyncInv, Books
<1>2. /\ \A p \in DOMAIN pages : p \in DOMAIN run.listed \/ p \in MissingPages(run)
      /\ \A p \in DOMAIN run.listed : pages[p].revision = run.listed[p]
      /\ \A p \in DOMAIN pages \ DOMAIN run.listed :
           pages[p].revision = run.old_pages[p].revision
  BY DEF NextPages, Entry
<1>3. ASSUME NEW p \in DOMAIN run.listed
      PROVE  /\ p \in Pages
             /\ pages[p].revision \in 1..space[p]
             /\ StoresChunks(p, pages[p].revision)
             /\ p \notin contested => NoOlder(p, pages[p].revision)
  <2>1. p \in DOMAIN run.listed \ run.todo
    BY <1>1, <1>3 DEF RunOK
  <2>2. p \in Pages /\ run.listed[p] \in 1..space[p]
    BY <1>1, <1>3 DEF RunOK
  <2>3. /\ StoresChunks(p, run.listed[p])
        /\ p \notin contested => NoOlder(p, run.listed[p])
    BY <1>1, <2>1 DEF DoneOK
  <2>4. pages[p].revision = run.listed[p]
    BY <1>2
  <2> QED
    BY <2>2, <2>3, <2>4
<1>4. ASSUME NEW p \in DOMAIN pages \ DOMAIN run.listed
      PROVE  /\ p \in Pages
             /\ pages[p].revision \in 1..space[p]
             /\ StoresChunks(p, pages[p].revision)
             /\ p \notin contested => NoOlder(p, pages[p].revision)
  <2>1. p \in DOMAIN run.old_pages /\ pages[p].revision = run.old_pages[p].revision
    BY <1>2 DEF MissingPages
  <2> QED
    BY <1>1, <2>1 DEF BookOK
<1> HIDE DEF pages, run
<1>5. BookOK(pages)
  BY <1>3, <1>4 DEF BookOK
<1> QED
  BY <1>5 DEF pages, run

\* It misses no page that counts.
LEMMA NextPagesTrack ==
  ASSUME SyncInv, NEW c \in Connectors, sync[c].pc = "write", NEW p \in Pages, Counts(p)
  PROVE  p \in DOMAIN NextPages(sync[c])
<1>1. Tracks(c) /\ RunsOn(c)
  BY DEF SyncInv, RunsOn
<1>2. p \in DOMAIN sync[c].old_pages \cup DOMAIN sync[c].listed
  BY <1>1 DEF Tracks
<1>3. p \in DOMAIN sync[c].listed \/ p \in MissingPages(sync[c])
  BY <1>2 DEF MissingPages
<1>4. sync[c].expire_missing => p \notin MissingPages(sync[c])
  BY <1>1 DEF Tracks, Counts
<1> QED
  BY <1>3, <1>4 DEF NextPages

LEMMA BooksStep ==
  ASSUME SyncInv, NEW movers, Mild(movers), NEW pages \in Books'
  PROVE  BookOK(pages)'
<1>1. CASE pages \in Books
  <2>1. BookOK(pages)
    BY <1>1 DEF SyncInv
  <2> QED
    BY <1>1, <2>1, BookStays
<1>2. CASE pages = NoPages
  BY <1>2 DEF NoPages, BookOK
<1>3. ASSUME NEW c \in movers, sync[c].pc = "write", pages = NextPages(sync[c])
      PROVE  BookOK(pages)'
  <2>1. c \in Connectors /\ \A d \in movers : d = c
    BY DEF Mild
  <2>2. BookOK(pages)
    BY <1>3, <2>1, NextPagesOK
  <2>3. \A d \in movers : ~Adds(d)
    BY <1>3, <2>1 DEF Adds
  <2> QED
    BY <2>2, <2>3, BookStays
<1> QED
  BY <1>1, <1>2, <1>3 DEF Mild

\* What a run knew of the pages it is done with stays right.
LEMMA DoneStays ==
  ASSUME SyncInv, NEW movers, Mild(movers), NEW d \in Connectors,
         sync[d].pc \notin {"idle", "list"},
         NEW p \in DOMAIN sync[d].listed \ sync[d].todo, NEW v, v = sync[d].listed[p]
  PROVE  /\ StoresChunks(p, v)'
         /\ p \notin contested' => NoOlder(p, v)'
<1>1. RunOK(sync[d]) /\ DoneOK(sync[d])
  BY DEF SyncInv
<1>2. p \in Pages /\ v \in 1..space[p]
  BY <1>1 DEF RunOK
<1>3. StoresChunks(p, v) /\ (p \notin contested => NoOlder(p, v))
  BY <1>1 DEF DoneOK
<1>4. StoresChunks(p, v)'
  BY <1>2, <1>3, Space, ChunksStay
<1>5. ASSUME p \notin contested' PROVE NoOlder(p, v)'
  <2>1. p \notin contested
    BY <1>5 DEF Mild
  <2>2. ASSUME NEW c \in movers, Adds(c) PROVE p # sync[c].page
    <3>1. c \in Connectors
      BY DEF Mild
    <3>2. RunsOn(c)
      BY <2>2, <3>1, Added
    <3>3. c = d
      BY <2>1, <3>1, <3>2, Alone
    <3>4. sync[d].page \in sync[d].todo
      BY <1>1, <2>2, <3>3 DEF Adds, RunOK
    <3> QED
      BY <3>3, <3>4
  <2>3. NoOlder(p, v)
    BY <1>3, <2>1
  <2> QED
    BY <2>2, <2>3, OldPage
<1> QED
  BY <1>4, <1>5

LEMMA RunStays ==
  ASSUME SyncInv, NEW movers, Mild(movers), NEW run, RunOK(run)
  PROVE  RunOK(run)'
BY Space DEF RunOK

\* A page that is a run's alone stays behind what that run listed.
LEMMA AheadAt ==
  ASSUME SyncInv, NEW movers, Mild(movers), NEW d \in Connectors, movers \subseteq {d},
         NEW p \in DOMAIN sync[d].listed \ contested', NEW v, v = sync[d].listed[p]
  PROVE  /\ Others(d)' = {}
         /\ \A pages \in Books' : p \in DOMAIN pages => pages[p].revision <= v
         /\ \A id \in Stored' : id.page = p => id.revision <= v
<1>1. p \notin contested /\ Ahead(d) /\ RunOK(sync[d])
  BY DEF Mild, SyncInv
<1>2. p \in Pages /\ v \in Nat
  BY <1>1 DEF RunOK
<1>3. Others(d)' = {}
  <2>1. \A e \in Connectors \ {d} : sync'[e] = sync[e] /\ ~RunsOn(e)
    BY <1>1, Alone DEF Mild
  <2> QED
    BY <2>1 DEF Others, RunsOn
<1>4. ASSUME NEW pages \in Books', p \in DOMAIN pages PROVE pages[p].revision <= v
  <2>1. CASE pages \in Books
    BY <1>1, <1>4, <2>1 DEF Ahead
  <2>2. CASE pages = NoPages
    BY <1>4, <2>2 DEF NoPages
  <2>3. CASE pages = NextPages(sync[d])
    BY <1>2, <2>3 DEF NextPages, Entry
  <2> QED
    BY <2>1, <2>2, <2>3 DEF Mild
<1>5. ASSUME NEW id \in Stored', id.page = p PROVE id.revision <= v
  <2>1. CASE id \in Stored
    BY <1>1, <1>5, <2>1 DEF Ahead
  <2>2. ASSUME NEW c \in movers, Adds(c), id = CurrentId(sync[c]) PROVE id.revision <= v
    <3>1. c = d
      OBVIOUS
    <3>2. id.revision = v
      BY <1>5, <2>2, <3>1, Added
    <3> QED
      BY <1>2, <3>2
  <2>3. id \in Stored \/ \E c \in movers : Adds(c) /\ id = CurrentId(sync[c])
    BY DEF Mild, AllQuiet, Adds, Quiet, Stored
  <2> QED
    BY <2>1, <2>2, <2>3
<1> QED
  BY <1>3, <1>4, <1>5

\* The connectors that do not move.
LEMMA BystanderRun ==
  ASSUME SyncInv, NEW movers, Mild(movers), NEW d \in Connectors \ movers
  PROVE  RunOK(sync[d])' /\ DoneOK(sync[d])'
<1>1. PICK run : run = sync[d]
  OBVIOUS
<1>2. sync'[d] = run
  BY <1>1 DEF Mild
<1>3. RunOK(run) /\ DoneOK(run)
  BY <1>1 DEF SyncInv
<1>4. RunOK(run)'
  BY <1>3, RunStays
<1>5. DoneOK(run)'
  <2>1. ASSUME run.pc \in {"chunk", "expire"}
        PROVE  /\ run.page \in Pages
               /\ run.listed[run.page] \in 1..Len(RevisionsOf[run.page])
    <3>1. run.page \in Pages /\ run.listed[run.page] \in 1..space[run.page]
      BY <1>3, <2>1 DEF RunOK
    <3> QED
      BY <3>1, Space
  <2>2. ASSUME run.pc = "chunk", NEW k \in 1..(run.chunk - 1)
        PROVE  IsStored(ChunkOf(run.page, run.listed[run.page], k))'
    <3>1. IsStored(ChunkOf(run.page, run.listed[run.page], k))
      BY <1>3, <2>2 DEF DoneOK
    <3>2. run.chunk \in 1..RevisionsOf[run.page][run.listed[run.page]].chunks
      BY <1>3, <2>2 DEF DoneOK
    <3>3. ChunkOf(run.page, run.listed[run.page], k) \in Ids
      BY <2>1, <2>2, <3>2, ChunkIsId, SMTT(30)
    <3> QED
      BY <3>1, <3>3, RowsStay
  <2>3. ASSUME run.pc = "expire" PROVE StoresChunks(run.page, run.listed[run.page])'
    <3>1. StoresChunks(run.page, run.listed[run.page])
      BY <1>3, <2>3 DEF DoneOK
    <3> QED
      BY <2>1, <2>3, <3>1, ChunksStay
  <2>4. ASSUME run.pc \notin {"idle", "list"}, NEW p \in DOMAIN run.listed \ run.todo
        PROVE  /\ StoresChunks(p, run.listed[p])'
               /\ p \notin contested' => NoOlder(p, run.listed[p])'
    BY <1>1, <2>4, DoneStays
  <2>5. run.pc = "chunk" => run.chunk \in 1..RevisionsOf[run.page][run.listed[run.page]].chunks
    BY <1>3 DEF DoneOK
  <2> QED
    BY <2>2, <2>3, <2>4, <2>5 DEF DoneOK
<1> QED
  BY <1>2, <1>4, <1>5

LEMMA BystanderAhead ==
  ASSUME SyncInv, NEW movers, Mild(movers), NEW d \in Connectors \ movers
  PROVE  Ahead(d)'
<1>1. sync'[d] = sync[d]
  BY DEF Mild
<1>2. ASSUME NEW p \in DOMAIN sync[d].listed \ contested'
      PROVE  /\ Others(d)' = {}
             /\ \A pages \in Books' : p \in DOMAIN pages => pages[p].revision <= sync[d].listed[p]
             /\ \A id \in Stored' : id.page = p => id.revision <= sync[d].listed[p]
  <2>1. movers = {}
    BY Unmoved
  <2> QED
    BY <2>1, AheadAt
<1> QED
  BY <1>1, <1>2 DEF Ahead

\* A run has read a book, or listed for itself, every page that counts.
LEMMA TrackedStays ==
  ASSUME SyncInv, NEW movers, Mild(movers), NEW d \in Connectors, RunsOn(d),
         NEW p \in Pages, Counts(p)'
  PROVE  /\ p \in DOMAIN sync[d].old_pages \cup DOMAIN sync[d].listed
         /\ d \notin movers => Counts(p)
<1>1. /\ p \notin contested
      /\ Counts(p) \/ \E c \in movers : Adds(c) /\ p = sync[c].page
  BY CountsBefore
<1>2. CASE Counts(p)
  BY <1>2 DEF SyncInv, Tracks
<1>3. ASSUME NEW c \in movers, Adds(c), p = sync[c].page
      PROVE  c = d /\ p \in DOMAIN sync[d].listed
  <2>1. c \in Connectors
    BY DEF Mild
  <2>2. p \in DOMAIN sync[c].listed
    BY <1>3, <2>1, Added
  <2> QED
    BY <1>1, <2>1, <2>2, Alone
<1> QED
  BY <1>1, <1>2, <1>3

LEMMA BystanderTracks ==
  ASSUME SyncInv, NEW movers, Mild(movers), NEW d \in Connectors \ movers
  PROVE  Tracks(d)'
<1>1. sync'[d] = sync[d]
  BY DEF Mild
<1>2. Tracks(d) /\ RunOK(sync[d])
  BY DEF SyncInv
<1>3. ASSUME RunsOn(d), NEW p \in Pages, Counts(p)'
      PROVE  /\ p \in DOMAIN sync[d].old_pages \cup DOMAIN sync[d].listed
             /\ Counts(p)
  BY <1>3, TrackedStays
<1>4. ASSUME sync[d].pc \in {"write", "replace"}, sync[d].expire_missing,
             NEW p \in MissingPages(sync[d]), p \notin contested'
      PROVE  ~Live(p)'
  <2>1. p \notin contested
    BY <1>4 DEF Mild
  <2>2. ~Live(p)
    BY <1>2, <1>4, <2>1 DEF Tracks
  <2>3. ASSUME NEW c \in movers, Adds(c), p = sync[c].page PROVE FALSE
    <3>1. c \in Connectors \ {d}
      BY DEF Mild
    <3>2. p \in DOMAIN sync[c].listed
      BY <2>3, <3>1, Added
    <3>3. ~RunsOn(d)
      BY <2>1, <3>1, <3>2, Alone
    <3> QED
      BY <1>4, <3>3 DEF RunsOn
  <2> QED
    BY <2>2, <2>3, LiveBefore
<1>5. ASSUME sync[d].pc = "replace", NEW pages \in part', NEW p \in Pages, Counts(p)'
      PROVE  p \in DOMAIN pages
  <2>1. Counts(p)
    BY <1>3, <1>5 DEF RunsOn
  <2>2. CASE pages \in part
    BY <1>2, <1>5, <2>1, <2>2 DEF Tracks
  <2>3. ASSUME NEW c \in movers, sync[c].pc = "write", pages = NextPages(sync[c])
        PROVE  p \in DOMAIN pages
    <3>1. c \in Connectors
      BY DEF Mild
    <3> QED
      BY <2>1, <2>3, <3>1, NextPagesTrack
  <2> QED
    BY <2>2, <2>3 DEF Mild
<1> QED
  BY <1>1, <1>3, <1>4, <1>5 DEF Tracks, RunsOn, MissingPages

\* Causes stay, and what expires has one.
LEMMA CausesStep ==
  ASSUME SyncInv, NEW movers, Mild(movers)
  PROVE  NothingExpiresInVain'
<1> SUFFICES ASSUME NEW id \in Ids, HasStatus(id, "expired")' PROVE HasCause(id)'
  BY DEF NothingExpiresInVain, HasCause
<1>1. CASE Expires(id)
  BY <1>1 DEF Mild
<1>2. CASE HasStatus(id, "expired")
  <2>1. HasCause(id)
    BY <1>2 DEF SyncInv, NothingExpiresInVain, HasCause
  <2>2. confirmed \subseteq confirmed' /\ contested \subseteq contested'
    BY DEF Mild
  <2>3. \A m \in Stored : m \in Stored'
    BY RowsStay DEF Stored
  <2> QED
    BY <2>1, <2>2, <2>3 DEF HasCause
<1> QED
  BY <1>1, <1>2 DEF Expires

\* No page that counts is forgotten.
LEMMA TrackedStep ==
  ASSUME SyncInv, NEW movers, Mild(movers), NEW p \in Pages, Counts(p)'
  PROVE  p \in DOMAIN checkpoint' \/ \E c \in Connectors : p \in DOMAIN sync'[c].listed
<1>1. /\ movers \subseteq Connectors
      /\ \A c, d \in movers : c = d
      /\ \A d \in Connectors \ movers : sync'[d] = sync[d]
      /\ p \notin cut'
  BY DEF Mild, Counts
<1>2. Counts(p) \/ \E c \in movers : Adds(c) /\ p = sync[c].page
  BY CountsBefore
<1>3. p \in DOMAIN checkpoint \/ \E c \in Connectors : p \in DOMAIN sync[c].listed
  <2>1. CASE Counts(p)
    BY <2>1 DEF SyncInv
  <2>2. ASSUME NEW c \in movers, Adds(c), p = sync[c].page PROVE p \in DOMAIN sync[c].listed
    BY <1>1, <2>2, Added
  <2> QED
    BY <1>1, <1>2, <2>1, <2>2
<1>4. CASE /\ checkpoint' = checkpoint
           /\ \A c \in movers : DOMAIN sync[c].listed \subseteq DOMAIN sync'[c].listed \cup cut'
  BY <1>1, <1>3, <1>4
<1>5. ASSUME NEW c \in movers, sync[c].pc = "replace", checkpoint' \in part
      PROVE  p \in DOMAIN checkpoint'
  <2>1. \A d \in movers : ~Adds(d)
    BY <1>1, <1>5 DEF Adds
  <2>2. Counts(p) /\ Tracks(c)
    BY <1>1, <1>2, <2>1 DEF SyncInv
  <2> QED
    BY <1>5, <2>2 DEF Tracks
<1> QED
  BY <1>4, <1>5 DEF Mild

LEMMA MildStep ==
  ASSUME SyncInv, NEW movers, Mild(movers),
         \A c \in movers : RunOK(sync[c])' /\ DoneOK(sync[c])' /\ Ahead(c)' /\ Tracks(c)'
  PROVE  SyncInv'
<1>1. \A c \in Connectors : RunOK(sync[c])' /\ DoneOK(sync[c])' /\ Ahead(c)' /\ Tracks(c)'
  BY BystanderRun, BystanderAhead, BystanderTracks
<1>2. SyncShape'
  BY DEF Mild
<1>3. RowsOK'
  BY RowsStep
<1>4. \A pages \in Books' : BookOK(pages)'
  BY BooksStep
<1>5. NothingExpiresInVain'
  BY CausesStep
<1>6. \A p \in Pages : Counts(p)' =>
        p \in DOMAIN checkpoint' \/ \E c \in Connectors : p \in DOMAIN sync'[c].listed
  BY TrackedStep
<1> QED
  BY <1>1, <1>2, <1>3, <1>4, <1>5, <1>6 DEF SyncInv

-----------------------------------------------------------------------------
(* The steps of a run *)

\* Run c goes on as `run', or stops.
Proceeds(c, run) ==
  /\ RunsOn(c)
  /\ IsRun(run)
  /\ GoesTo(c, run)
  /\ UNCHANGED <<world, files, runs, contested>>
  /\ confirmed \subseteq confirmed'
  /\ \/ /\ run.listed = sync[c].listed
        /\ run.old_pages = sync[c].old_pages
        /\ cut' = cut
     \/ /\ run = NoRun
        /\ cut' = cut \cup DOMAIN sync[c].listed
  /\ TypeOK'
  /\ AllQuiet \/ Adds(c)
  /\ \A id \in Ids : Expires(id) => HasCause(id)'

LEMMA NoRunShape == /\ IsRun(NoRun)
                    /\ NoRun.pc = "idle"
                    /\ NoRun.listed = NoPages
                    /\ NoRun.old_pages = NoPages
                    /\ NoRun.todo = {}
                    /\ NoRun.attempt = 0
                    /\ DOMAIN NoPages = {}
BY DEF IsRun, NoRun, NoPages

LEMMA SyncGoesTo ==
  ASSUME SyncInv, NEW c \in Connectors, NEW run, IsRun(run), GoesTo(c, run)
  PROVE  /\ sync'[c] = run
         /\ \A d \in Connectors \ {c} : sync'[d] = sync[d]
         /\ sync' = [d \in Connectors |-> sync'[d]]
         /\ \A d \in Connectors : IsRun(sync'[d])
<1>1. sync = [d \in Connectors |-> sync[d]] /\ \A d \in Connectors : IsRun(sync[d])
  BY DEF SyncInv, SyncShape
<1>2. sync' = [d \in Connectors |-> IF d = c THEN run ELSE sync[d]]
  BY <1>1 DEF GoesTo
<1>3. /\ sync'[c] = run
      /\ \A d \in Connectors \ {c} : sync'[d] = sync[d]
      /\ sync' = [d \in Connectors |-> sync'[d]]
  BY <1>2
<1> QED
  BY <1>1, <1>3

LEMMA ProceedsMild ==
  ASSUME SyncInv, NEW c \in Connectors, NEW run, Proceeds(c, run)
  PROVE  Mild({c}) /\ sync'[c] = run
<1>1. /\ sync'[c] = run
      /\ \A d \in Connectors \ {c} : sync'[d] = sync[d]
      /\ sync' = [d \in Connectors |-> sync'[d]]
      /\ \A d \in Connectors : IsRun(sync'[d])
  BY SyncGoesTo DEF Proceeds
<1>2. /\ space' = space /\ visible' = visible
      /\ checkpoint' = checkpoint /\ part' = part
      /\ runs' = runs /\ contested' = contested
  BY DEF Proceeds, world, files
<1>3. SyncShape'
  BY <1>1, <1>2 DEF SyncInv, SyncShape, Proceeds
<1>4. \A p \in Pages : space'[p] >= space[p]
  BY <1>2 DEF SyncInv, SyncShape
<1>5. /\ cut \subseteq cut'
      /\ DOMAIN run.listed \subseteq DOMAIN sync[c].listed
      /\ DOMAIN sync[c].listed \subseteq DOMAIN run.listed \cup cut'
      /\ run.old_pages \in {sync[c].old_pages, NoPages}
  BY NoRunShape DEF Proceeds
<1>6. \A pages \in Books' : pages \in Books \/ pages = NoPages
  BY <1>1, <1>2, <1>5 DEF Books
<1> QED
  BY <1>1, <1>2, <1>3, <1>4, <1>5, <1>6 DEF Mild, Proceeds

\* What a run has listed and read goes with it to its next stage.
LEMMA OwnStays ==
  ASSUME SyncInv, NEW c \in Connectors, RunsOn(c), Mild({c}), NEW run, sync'[c] = run,
         run.listed = sync[c].listed, run.old_pages = sync[c].old_pages
  PROVE  /\ Ahead(c)'
         /\ \A p \in Pages : Counts(p)' => p \in DOMAIN run.old_pages \cup DOMAIN run.listed
<1>1. Ahead(c)'
  <2>1. ASSUME NEW p \in DOMAIN sync[c].listed \ contested'
        PROVE  /\ Others(c)' = {}
               /\ \A pages \in Books' :
                    p \in DOMAIN pages => pages[p].revision <= sync[c].listed[p]
               /\ \A id \in Stored' : id.page = p => id.revision <= sync[c].listed[p]
    BY AheadAt
  <2> QED
    BY <2>1 DEF Ahead
<1>2. ASSUME NEW p \in Pages, Counts(p)'
      PROVE  p \in DOMAIN run.old_pages \cup DOMAIN run.listed
  BY <1>2, TrackedStays
<1> QED
  BY <1>1, <1>2

\* An idle connector has nothing to keep.
LEMMA NothingToKeep ==
  ASSUME NEW c \in Connectors, sync'[c] = NoRun
  PROVE  RunOK(sync[c])' /\ DoneOK(sync[c])' /\ Ahead(c)' /\ Tracks(c)'
BY SyncAssumption, NoRunShape DEF RunOK, RunPc, DoneOK, Ahead, Tracks, RunsOn

\* A run that stops leaves nothing to be said of it.
LEMMA StopStep ==
  ASSUME SyncInv, NEW c \in Connectors, RunsOn(c), StopsEarly(c), TypeOK', memories' = memories
  PROVE  SyncInv'
<1>1. AllQuiet /\ \A id \in Ids : ~Expires(id)
  BY SameQuiet DEF AllQuiet
<1>2. Proceeds(c, NoRun)
  BY <1>1, NoRunShape DEF Proceeds, StopsEarly
<1>3. Mild({c}) /\ sync'[c] = NoRun
  BY <1>2, ProceedsMild
<1> QED
  BY <1>3, NothingToKeep, MildStep

\* A run that goes on needs only show how far it has come.
LEMMA StageStep ==
  ASSUME SyncInv, NEW c \in Connectors, NEW run, Proceeds(c, run),
         run.pc \in RunPc \ {"idle", "replace"},
         RunOK(run)', DoneOK(run)',
         run.pc = "write" /\ run.expire_missing =>
           \A p \in MissingPages(run) : p \notin contested' => ~Live(p)'
  PROVE  SyncInv'
<1>1. Mild({c}) /\ sync'[c] = run
  BY ProceedsMild
<1>2. /\ RunsOn(c)
      /\ run.listed = sync[c].listed
      /\ run.old_pages = sync[c].old_pages
  BY NoRunShape DEF Proceeds
<1>3. Ahead(c)' /\ \A p \in Pages : Counts(p)' => p \in DOMAIN run.old_pages \cup DOMAIN run.listed
  BY <1>1, <1>2, OwnStays
<1>4. Tracks(c)'
  BY <1>1, <1>3 DEF Tracks, MissingPages
<1>5. RunOK(sync[c])' /\ DoneOK(sync[c])'
  BY <1>1
<1> QED
  BY <1>1, <1>3, <1>4, <1>5, MildStep

LEMMA ListedTwiceStep ==
  ASSUME SyncInv, NEW c \in Connectors, NEW p \in Pages, ListedTwice(c, p)
  PROVE  SyncInv'
<1>1. RunsOn(c) /\ memories' = memories /\ TypeOK'
  BY DEF ListedTwice, RunsOn, vars, SyncInv, SyncShape, TypeOK
<1>2. StopsEarly(c)
  BY DEF ListedTwice
<1> QED
  BY <1>1, <1>2, StopStep

LEMMA RequestFailsStep ==
  ASSUME SyncInv, NEW c \in Connectors, RequestFails(c)
  PROVE  SyncInv'
<1>1. RunsOn(c) /\ memories' = memories /\ TypeOK'
  BY DEF RequestFails, RunsOn, vars, SyncInv, SyncShape, TypeOK
<1>2. CASE StopsEarly(c)
  BY <1>1, <1>2, StopStep
<1>3. ASSUME /\ sync[c].pc = "list"
             /\ Retries(sync[c].attempt)
             /\ GoesTo(c, [sync[c] EXCEPT !.attempt = @ + 1])
             /\ Kept
      PROVE  SyncInv'
  <2>1. PICK run : run = [sync[c] EXCEPT !.attempt = @ + 1]
    OBVIOUS
  <2>2. IsRun(sync[c]) /\ RunOK(sync[c])
    BY DEF SyncInv, SyncShape
  <2>3. /\ IsRun(run)
        /\ run.pc = sync[c].pc /\ run.setting = sync[c].setting
        /\ run.attempt = sync[c].attempt + 1
        /\ run.listed = sync[c].listed /\ run.old_pages = sync[c].old_pages
        /\ run.todo = sync[c].todo
    BY <2>1, <2>2, ZenonT(60) DEF IsRun
  <2>4. run.attempt \in 0..max_retries
    BY <1>3, <2>2, <2>3, SyncAssumption DEF RunOK, Retries
  <2>5. AllQuiet /\ \A id \in Ids : ~Expires(id)
    BY <1>1, SameQuiet DEF AllQuiet
  <2>6. Proceeds(c, run)
    BY <1>1, <1>3, <2>1, <2>3, <2>5 DEF Proceeds, Kept
  <2>7. RunOK(run)
    BY <1>3, <2>2, <2>3, <2>4 DEF RunOK
  <2>8. RunOK(run)'
    BY <2>6, <2>7, ProceedsMild, RunStays
  <2>9. DoneOK(run)'
    BY <1>3, <2>3 DEF DoneOK
  <2> QED
    BY <1>3, <2>3, <2>6, <2>8, <2>9, StageStep DEF RunPc
<1> QED
  BY <1>2, <1>3 DEF RequestFails

At(r, pc, page, chunk) == [r EXCEPT !.pc = pc, !.page = page, !.chunk = chunk]

\* A run whose stage, page and chunk alone are set.
LEMMA RunAt ==
  ASSUME NEW r, IsRun(r), NEW pc, NEW page, NEW chunk
  PROVE  LET run == At(r, pc, page, chunk) IN
         /\ IsRun(run)
         /\ run.pc = pc /\ run.page = page /\ run.chunk = chunk
         /\ run.listed = r.listed /\ run.old_pages = r.old_pages /\ run.todo = r.todo
         /\ run.setting = r.setting /\ run.attempt = r.attempt
         /\ run.expire_missing = r.expire_missing
<1>1. PICK pc0, setting, expire_missing, old_pages, attempt, listed, todo, page0, chunk0 :
        r = [pc |-> pc0, setting |-> setting, expire_missing |-> expire_missing,
             old_pages |-> old_pages, attempt |-> attempt, listed |-> listed,
             todo |-> todo, page |-> page0, chunk |-> chunk0]
  BY DEF IsRun
<1>2. At(r, pc, page, chunk) =
        [pc |-> pc, setting |-> setting, expire_missing |-> expire_missing,
         old_pages |-> old_pages, attempt |-> attempt, listed |-> listed,
         todo |-> todo, page |-> page, chunk |-> chunk]
  <2>1. PICK r1 : r1 = [r EXCEPT !.pc = pc]
    OBVIOUS
  <2>2. PICK r2 : r2 = [r1 EXCEPT !.page = page]
    OBVIOUS
  <2>3. PICK r3 : r3 = [r2 EXCEPT !.chunk = chunk]
    OBVIOUS
  <2>4. r1 = [pc |-> pc, setting |-> setting, expire_missing |-> expire_missing,
              old_pages |-> old_pages, attempt |-> attempt, listed |-> listed,
              todo |-> todo, page |-> page0, chunk |-> chunk0]
    BY <1>1, <2>1
  <2>5. r2 = [pc |-> pc, setting |-> setting, expire_missing |-> expire_missing,
              old_pages |-> old_pages, attempt |-> attempt, listed |-> listed,
              todo |-> todo, page |-> page, chunk |-> chunk0]
    BY <2>2, <2>4
  <2>6. r3 = [pc |-> pc, setting |-> setting, expire_missing |-> expire_missing,
              old_pages |-> old_pages, attempt |-> attempt, listed |-> listed,
              todo |-> todo, page |-> page, chunk |-> chunk]
    BY <2>3, <2>5
  <2>7. At(r, pc, page, chunk) = r3
    BY <2>1, <2>2, <2>3 DEF At
  <2> QED
    BY <2>6, <2>7
<1>3. IsRun(At(r, pc, page, chunk))
  BY <1>2 DEF IsRun
<1>4. /\ At(r, pc, page, chunk).pc = pc
      /\ At(r, pc, page, chunk).page = page
      /\ At(r, pc, page, chunk).chunk = chunk
      /\ At(r, pc, page, chunk).expire_missing = expire_missing
      /\ At(r, pc, page, chunk).listed = listed
      /\ At(r, pc, page, chunk).old_pages = old_pages
      /\ At(r, pc, page, chunk).todo = todo
      /\ At(r, pc, page, chunk).setting = setting
      /\ At(r, pc, page, chunk).attempt = attempt
  BY <1>2
<1>5. /\ r.expire_missing = expire_missing
      /\ r.listed = listed
      /\ r.old_pages = old_pages
      /\ r.todo = todo
      /\ r.setting = setting
      /\ r.attempt = attempt
  BY <1>1
<1> QED
  BY <1>3, <1>4, <1>5

\* A run that turns to one of the pages left, or to the missing ones.
LEMMA TurnStep ==
  ASSUME SyncInv, NEW c \in Connectors, RunsOn(c), NEW listed, listed = sync[c].listed,
         NEW todo \in SUBSET DOMAIN listed,
         NEW run \in TurnToPage([sync[c] EXCEPT !.todo = todo]),
         space' = space,
         \A p \in DOMAIN listed \ todo :
           StoresChunks(p, listed[p])' /\ (p \notin contested' => NoOlder(p, listed[p])')
  PROVE  /\ IsRun(run)
         /\ run.pc \in {"chunk", "missing"}
         /\ run.listed = listed /\ run.old_pages = sync[c].old_pages
         /\ RunOK(run)'
         /\ DoneOK(run)'
<1>1. PICK r : r = [sync[c] EXCEPT !.todo = todo]
  OBVIOUS
<1>2. IsRun(sync[c]) /\ RunOK(sync[c])
  BY DEF SyncInv, SyncShape
<1>3. /\ IsRun(r)
      /\ r.todo = todo
      /\ r.listed = listed /\ r.old_pages = sync[c].old_pages
      /\ r.setting = sync[c].setting /\ r.attempt = sync[c].attempt
  BY <1>1, <1>2, ZenonT(60) DEF IsRun
<1>4. /\ IsRun(run)
      /\ run.todo = todo
      /\ run.listed = listed /\ run.old_pages = sync[c].old_pages
      /\ run.setting = sync[c].setting /\ run.attempt = sync[c].attempt
      /\ \/ run.pc = "missing" /\ todo = {}
         \/ run.pc = "chunk" /\ run.chunk = 1 /\ run.page \in todo
  <2>1. CASE todo = {} /\ run = [r EXCEPT !.pc = "missing", !.page = NoPage, !.chunk = 0]
    <3>1. run = At(r, "missing", NoPage, 0)
      BY <2>1 DEF At
    <3> QED
      BY <1>3, <2>1, <3>1, RunAt
  <2>2. ASSUME NEW p \in todo, run = [r EXCEPT !.pc = "chunk", !.page = p, !.chunk = 1]
        PROVE  /\ IsRun(run)
               /\ run.todo = todo
               /\ run.listed = listed /\ run.old_pages = sync[c].old_pages
               /\ run.setting = sync[c].setting /\ run.attempt = sync[c].attempt
               /\ run.pc = "chunk" /\ run.chunk = 1 /\ run.page \in todo
    <3>1. run = At(r, "chunk", p, 1)
      BY <2>2 DEF At
    <3> QED
      BY <1>3, <2>2, <3>1, RunAt
  <2> QED
    BY <1>1, <1>3, <2>1, <2>2 DEF TurnToPage
<1>5. \A p \in DOMAIN listed : p \in Pages /\ listed[p] \in 1..space[p]
  BY <1>2 DEF RunOK
<1>6. RunOK(run)'
  <2>1. sync[c].setting \in Settings /\ sync[c].attempt \in 0..max_retries
    BY <1>2 DEF RunOK, RunsOn
  <2> QED
    BY <1>4, <1>5, <2>1 DEF RunOK, RunPc
<1>7. ASSUME run.pc = "chunk"
      PROVE  1 \in 1..RevisionsOf[run.page][listed[run.page]].chunks
  <2>1. run.page \in Pages /\ listed[run.page] \in 1..Len(RevisionsOf[run.page])
    BY <1>4, <1>5, <1>7, Space
  <2> QED
    BY <2>1, ChunkIsId
<1>8. DoneOK(run)'
  BY <1>4, <1>7 DEF DoneOK
<1> QED
  BY <1>4, <1>6, <1>8

LEMMA EndListingStep ==
  ASSUME SyncInv, NEW c \in Connectors, EndListing(c)
  PROVE  SyncInv'
<1>1. PICK listed, todo, run :
        /\ listed = sync[c].listed
        /\ todo = {p \in DOMAIN listed : IsChanged(sync[c], p)}
        /\ run \in TurnToPage([sync[c] EXCEPT !.todo = todo])
        /\ GoesTo(c, run)
  BY DEF EndListing
<1>2. RunsOn(c) /\ memories' = memories /\ TypeOK' /\ Kept
  BY DEF EndListing, RunsOn, vars, SyncInv, SyncShape, TypeOK
<1>3. AllQuiet /\ \A id \in Ids : ~Expires(id)
  BY <1>2, SameQuiet DEF AllQuiet
<1>4. ASSUME NEW p \in DOMAIN listed \ todo
      PROVE  StoresChunks(p, listed[p])' /\ (p \notin contested' => NoOlder(p, listed[p])')
  <2>1. p \in DOMAIN sync[c].old_pages /\ sync[c].old_pages[p].revision = listed[p]
    BY <1>1 DEF IsChanged
  <2>2. BookOK(sync[c].old_pages)
    BY DEF SyncInv, Books
  <2>3. StoresChunks(p, listed[p]) /\ (p \notin contested => NoOlder(p, listed[p]))
    BY <2>1, <2>2 DEF BookOK
  <2>4. contested' = contested
    BY <1>2 DEF Kept
  <2> QED
    BY <1>2, <2>3, <2>4 DEF StoresChunks, NoOlder, IsStored, HasStatus
<1>5. space' = space /\ todo \in SUBSET DOMAIN listed
  BY <1>1, <1>2 DEF Kept, world
<1>6. /\ IsRun(run)
      /\ run.pc \in {"chunk", "missing"}
      /\ run.listed = listed /\ run.old_pages = sync[c].old_pages
      /\ RunOK(run)'
      /\ DoneOK(run)'
  BY <1>1, <1>2, <1>4, <1>5, TurnStep
<1>7. Proceeds(c, run)
  BY <1>1, <1>2, <1>3, <1>6 DEF Proceeds, Kept
<1> QED
  BY <1>6, <1>7, StageStep DEF RunPc

\* The chunk a run is at is stored, and it turns to the next one.
LEMMA ChunkStep ==
  ASSUME SyncInv, NEW c \in Connectors, sync[c].pc = "chunk", NextChunk(c), Kept, TypeOK',
         AllQuiet \/ Adds(c), \A m \in Ids : ~Expires(m),
         NEW id, id = CurrentId(sync[c]), id \in Ids => IsStored(id)'
  PROVE  SyncInv'
<1>1. PICK old : old = sync[c]
  OBVIOUS
<1>2. IsRun(old) /\ RunOK(old) /\ DoneOK(old) /\ RunsOn(c) /\ old.pc = "chunk"
  BY <1>1 DEF SyncInv, SyncShape, RunsOn
<1>3. PICK p, v, n : /\ p = old.page
                     /\ v = old.listed[p]
                     /\ n = RevisionsOf[p][v].chunks
  OBVIOUS
<1>4. /\ p \in Pages /\ p \in old.todo
      /\ v \in 1..space[p]
      /\ old.chunk \in 1..n
      /\ \A k \in 1..(old.chunk - 1) : IsStored(ChunkOf(p, v, k))
  BY <1>2, <1>3 DEF RunOK, DoneOK
<1>5. /\ v \in 1..Len(RevisionsOf[p])
      /\ n \in Nat \ {0}
      /\ \A k \in 1..n : ChunkOf(p, v, k) \in Ids
  BY <1>3, <1>4, Space, ChunkIsId
<1>6. id = ChunkOf(p, v, old.chunk) /\ RevisionOf(id).chunks = n
  BY <1>1, <1>3 DEF CurrentId, ChunkOf, RevisionOf
<1>7. IsStored(id)'
  BY <1>4, <1>5, <1>6
<1>8. PICK run : /\ run = IF old.chunk < n THEN [old EXCEPT !.chunk = @ + 1]
                          ELSE [old EXCEPT !.pc = "expire"]
                 /\ GoesTo(c, run)
  BY <1>1, <1>6 DEF NextChunk
<1>9. /\ IsRun(run)
      /\ run.page = p
      /\ run.listed = old.listed /\ run.old_pages = old.old_pages /\ run.todo = old.todo
      /\ run.setting = old.setting /\ run.attempt = old.attempt
      /\ \/ run.pc = "chunk" /\ run.chunk = old.chunk + 1 /\ old.chunk < n
         \/ run.pc = "expire" /\ ~(old.chunk < n)
  <2>1. CASE run = [old EXCEPT !.chunk = @ + 1] /\ old.chunk < n
    BY <1>2, <1>3, <2>1, ZenonT(60) DEF IsRun
  <2>2. CASE run = [old EXCEPT !.pc = "expire"] /\ ~(old.chunk < n)
    BY <1>2, <1>3, <2>2, ZenonT(60) DEF IsRun
  <2> QED
    BY <1>8, <2>1, <2>2
<1>10. Proceeds(c, run)
  BY <1>1, <1>2, <1>8, <1>9 DEF Proceeds, Kept
<1>11. Mild({c})
  BY <1>10, ProceedsMild
<1>12. RunOK(run)
  BY <1>2, <1>3, <1>4, <1>9 DEF RunOK, RunPc
<1>13. RunOK(run)'
  BY <1>11, <1>12, RunStays
<1>14. \A k \in 1..old.chunk : IsStored(ChunkOf(p, v, k))'
  <2>1. ASSUME NEW k \in 1..(old.chunk - 1) PROVE IsStored(ChunkOf(p, v, k))'
    <3>1. IsStored(ChunkOf(p, v, k)) /\ k \in 1..n
      BY <1>4, <1>5
    <3> QED
      BY <1>5, <1>11, <3>1, RowsStay
  <2>2. old.chunk \in Nat
    BY <1>4
  <2>3. IsStored(ChunkOf(p, v, old.chunk))'
    BY <1>6, <1>7
  <2> QED
    BY <2>1, <2>2, <2>3
<1>15. DoneOK(run)'
  <2>1. ASSUME NEW q \in DOMAIN run.listed \ run.todo
        PROVE  /\ StoresChunks(q, run.listed[q])'
               /\ q \notin contested' => NoOlder(q, run.listed[q])'
    BY <1>1, <1>2, <1>9, <1>11, <2>1, DoneStays
  <2>2. ASSUME run.pc = "chunk"
        PROVE  /\ run.chunk \in 1..RevisionsOf[run.page][run.listed[run.page]].chunks
               /\ \A k \in 1..(run.chunk - 1) :
                    IsStored(ChunkOf(run.page, run.listed[run.page], k))'
    <3>1. run.chunk = old.chunk + 1 /\ old.chunk < n
      BY <1>9, <2>2
    <3>2. run.chunk \in 1..n /\ run.chunk - 1 = old.chunk
      BY <1>4, <1>5, <3>1
    <3> QED
      BY <1>3, <1>9, <1>14, <3>2
  <2>3. ASSUME run.pc = "expire" PROVE StoresChunks(run.page, run.listed[run.page])'
    <3>1. ~(old.chunk < n)
      BY <1>9, <2>3
    <3>2. old.chunk = n
      BY <1>4, <1>5, <3>1
    <3> QED
      BY <1>3, <1>9, <1>14, <3>2 DEF StoresChunks
  <2> QED
    BY <2>1, <2>2, <2>3 DEF DoneOK
<1>16. run.pc \in RunPc \ {"idle", "replace"} /\ run.pc # "write"
  BY <1>9 DEF RunPc
<1> QED
  BY <1>10, <1>13, <1>15, <1>16, StageStep

LEMMA CurrentIsId ==
  ASSUME SyncInv, NEW c \in Connectors, sync[c].pc = "chunk"
  PROVE  /\ CurrentId(sync[c]) \in Ids
         /\ ChunkRecord(CurrentId(sync[c]), sync[c].setting) \in Submissions
<1>1. RunOK(sync[c]) /\ DoneOK(sync[c])
  BY DEF SyncInv
<1>2. PICK p, v : p = sync[c].page /\ v = sync[c].listed[p]
  OBVIOUS
<1>3. /\ p \in Pages /\ v \in 1..space[p]
      /\ sync[c].setting \in Settings
      /\ sync[c].chunk \in 1..RevisionsOf[p][v].chunks
  BY <1>1, <1>2 DEF RunOK, DoneOK
<1>4. ChunkOf(p, v, sync[c].chunk) \in Ids
  BY <1>3, Space, ChunkIsId
<1>5. CurrentId(sync[c]) \in Ids
  BY <1>2, <1>4 DEF CurrentId, ChunkOf
<1> QED
  BY <1>3, <1>5, SettingsAssumption

LEMMA SkipStep ==
  ASSUME SyncInv, NEW c \in Connectors, SkipChunk(c)
  PROVE  SyncInv'
<1>1. PICK id : id = CurrentId(sync[c])
  OBVIOUS
<1>2. /\ sync[c].pc = "chunk" /\ NextChunk(c) /\ Kept
      /\ IsStored(id)
      /\ UNCHANGED vars
  BY <1>1 DEF SkipChunk
<1>3. memories' = memories /\ TypeOK'
  BY <1>2 DEF vars, SyncInv, SyncShape, TypeOK
<1>4. AllQuiet /\ \A m \in Ids : ~Expires(m)
  BY <1>3, SameQuiet DEF AllQuiet
<1>5. IsStored(id)'
  BY <1>2, <1>3 DEF IsStored
<1> QED
  BY <1>1, <1>2, <1>3, <1>4, <1>5, ChunkStep

LEMMA IngestStep ==
  ASSUME SyncInv, NEW c \in Connectors, IngestChunk(c)
  PROVE  SyncInv'
<1>1. PICK id, s : /\ id = CurrentId(sync[c])
                   /\ s = ChunkRecord(id, sync[c].setting)
  OBVIOUS
<1>2. sync[c].pc = "chunk" /\ NextChunk(c) /\ Kept /\ Ingest(id, s)
  BY <1>1 DEF IngestChunk
<1>3. id \in Ids /\ s \in Submissions /\ TypeOK
  BY <1>1, <1>2, CurrentIsId DEF SyncInv, SyncShape
<1>4. TypeOK'
  BY <1>2, <1>3, TypeStep DEF Next
<1>5. s.page_id = id.page /\ s.page_version = id.revision /\ s.tenant_id = tenant
  BY <1>1 DEF ChunkRecord
<1>6. /\ ~IsStored(id)
      /\ IsStored(id)'
      /\ memories'[id].page_id = s.page_id
      /\ memories'[id].page_version = s.page_version
      /\ memories'[id].tenant_id = s.tenant_id
      /\ memories'[id].status \in {"pending", "verified_active", "rejected"}
      /\ \A m \in Ids : ~Expires(m)
      /\ \A m \in Ids \ {id} : Quiet(m)
  BY <1>2, <1>3, IngestAdds
<1>7. Adds(c)
  BY <1>1, <1>2, <1>3, <1>5, <1>6 DEF Adds, IsStored
<1> QED
  BY <1>1, <1>2, <1>4, <1>6, <1>7, ChunkStep

LEMMA ChunkFailsStep ==
  ASSUME SyncInv, NEW c \in Connectors, ChunkFails(c)
  PROVE  SyncInv'
<1>1. PICK id, s : /\ id = CurrentId(sync[c])
                   /\ s = ChunkRecord(id, sync[c].setting)
  OBVIOUS
<1>2. /\ sync[c].pc = "chunk" /\ StopsEarly(c)
      /\ IngestBlocked(id) \/ IngestFails(id, s) \/ UNCHANGED vars
  BY <1>1 DEF ChunkFails
<1>3. id \in Ids /\ s \in Submissions /\ TypeOK /\ RunsOn(c)
  BY <1>1, <1>2, CurrentIsId DEF SyncInv, SyncShape, RunsOn
<1>4. TypeOK'
  BY <1>2, <1>3, TypeStep DEF Next
<1>5. memories' = memories
  BY <1>2 DEF IngestBlocked, IngestFails, vars
<1> QED
  BY <1>2, <1>3, <1>4, <1>5, StopStep

\* The two actions that only stop a run.
LEMMA StopsStep ==
  ASSUME SyncInv, NEW c \in Connectors, ExpiryFails(c) \/ Abort(c)
  PROVE  SyncInv'
<1>1. RunsOn(c) /\ StopsEarly(c) /\ UNCHANGED vars
  BY DEF ExpiryFails, Abort, RunsOn
<1>2. memories' = memories /\ TypeOK'
  BY <1>1 DEF vars, SyncInv, SyncShape, TypeOK
<1> QED
  BY <1>1, <1>2, StopStep

LEMMA ExpireAnyQuiet ==
  ASSUME TypeOK, NEW ids \in SUBSET Stored, ExpireAny(ids)
  PROVE  /\ TypeOK'
         /\ AllQuiet
         /\ \A m \in ids : ~HasStatus(m, "pending")' /\ ~HasStatus(m, "verified_active")'
         /\ \A m \in Ids : Expires(m) => m \in ids
<1>1. CASE ids = {}
  <2>1. UNCHANGED vars
    BY <1>1 DEF ExpireAny
  <2>2. memories' = memories /\ TypeOK'
    BY <2>1 DEF vars, TypeOK
  <2> QED
    BY <1>1, <2>2, SameQuiet DEF AllQuiet
<1>2. CASE ids # {}
  <2>1. ExpireRows(ids)
    BY <1>2 DEF ExpireAny
  <2>2. ids \subseteq Ids
    BY DEF Stored
  <2>3. TypeOK'
    BY <2>1, ExpiryType
  <2>4. \A m \in Ids : /\ Quiet(m)
                       /\ m \in ids => HasStatus(m, "expired")'
                       /\ m \notin ids => ~Expires(m)
    BY <2>1, ExpiryQuiet
  <2>5. \A m \in ids : ~HasStatus(m, "pending")' /\ ~HasStatus(m, "verified_active")'
    BY <2>2, <2>4 DEF HasStatus
  <2> QED
    BY <2>3, <2>4, <2>5 DEF AllQuiet
<1> QED
  BY <1>1, <1>2

LEMMA QuietStays ==
  ASSUME AllQuiet, NEW p \in Pages, NEW v \in 1..Len(RevisionsOf[p])
  PROVE  /\ StoresChunks(p, v) => StoresChunks(p, v)'
         /\ NoOlder(p, v) => NoOlder(p, v)'
<1>1. StoresChunks(p, v) => StoresChunks(p, v)'
  BY ChunkIsId DEF AllQuiet, Quiet, StoresChunks
<1>2. NoOlder(p, v) => NoOlder(p, v)'
  BY DEF AllQuiet, Quiet, NoOlder, HasStatus
<1> QED
  BY <1>1, <1>2

LEMMA ExpirePageStep ==
  ASSUME SyncInv, NEW c \in Connectors, ExpirePage(c)
  PROVE  SyncInv'
<1>1. PICK listed, page, v, ids, todo, run :
        /\ listed = sync[c].listed /\ page = sync[c].page /\ v = listed[page]
        /\ ids = ReplacedRows(page, v)
        /\ ExpireAny(ids)
        /\ todo = sync[c].todo \ {page}
        /\ run \in TurnToPage([sync[c] EXCEPT !.todo = todo])
        /\ GoesTo(c, run)
  BY DEF ExpirePage
<1>2. /\ sync[c].pc = "expire" /\ Kept /\ RunsOn(c)
      /\ space' = space /\ contested' = contested
  BY DEF ExpirePage, RunsOn, Kept, world
<1>3. RunOK(sync[c]) /\ DoneOK(sync[c]) /\ Ahead(c) /\ RowsOK /\ TypeOK
  BY DEF SyncInv, SyncShape
<1>4. /\ page \in DOMAIN listed /\ page \in sync[c].todo
      /\ sync[c].todo \subseteq DOMAIN listed
      /\ \A p \in DOMAIN listed : p \in Pages /\ listed[p] \in 1..space[p]
      /\ StoresChunks(page, v)
  BY <1>1, <1>2, <1>3 DEF RunOK, DoneOK
<1>5. \A p \in DOMAIN listed : listed[p] \in 1..Len(RevisionsOf[p])
  BY <1>4, Space
<1>6. /\ ids \in SUBSET Stored
      /\ \A m \in Ids : m \in ids <=> /\ HasStatus(m, "pending")
                                      /\ memories[m].page_id = page
                                      /\ memories[m].tenant_id = tenant
                                      /\ memories[m].page_version # v
  BY <1>1 DEF ReplacedRows, RowsOfPage, HasStatus, Stored
<1>7. /\ TypeOK'
      /\ AllQuiet
      /\ \A m \in ids : ~HasStatus(m, "pending")'
      /\ \A m \in Ids : Expires(m) => m \in ids
  BY <1>1, <1>3, <1>6, ExpireAnyQuiet
<1>8. NoOlder(page, v)'
  <2>1. ASSUME NEW m \in Ids, HasStatus(m, "pending")', m.page = page PROVE m.revision >= v
    <3>1. HasStatus(m, "pending") /\ m \in Stored
      BY <1>7, <2>1 DEF AllQuiet, Quiet, HasStatus, Stored
    <3>2. /\ memories[m].page_id = page /\ memories[m].tenant_id = tenant
          /\ memories[m].page_version = m.revision
      BY <1>3, <2>1, <3>1 DEF RowsOK
    <3>3. m.revision = v
      BY <1>6, <1>7, <2>1, <3>1, <3>2
    <3> QED
      BY <1>1, <1>4, <1>5, <3>3
  <2> QED
    BY <2>1 DEF NoOlder
<1>9. ASSUME NEW m \in Ids, Expires(m) PROVE HasCause(m)'
  <2>1. m \in ids /\ HasStatus(m, "pending") /\ m \in Stored
    BY <1>6, <1>7, <1>9 DEF Stored, HasStatus
  <2>2. m.page = page /\ m.revision # v
    BY <1>3, <1>6, <2>1 DEF RowsOK
  <2>3. CASE page \in contested
    BY <1>2, <2>2, <2>3 DEF HasCause
  <2>4. CASE page \notin contested
    <3>1. m.revision <= v
      BY <1>1, <1>3, <1>4, <2>1, <2>2, <2>4 DEF Ahead
    <3>2. m.revision \in Nat /\ v \in Nat
      BY <1>1, <1>5, <1>4, SyncAssumption DEF ChunkId
    <3>3. v > m.revision
      BY <2>2, <3>1, <3>2
    <3>4. ChunkOf(page, v, 1) \in Ids /\ IsStored(ChunkOf(page, v, 1))'
      <4>1. RevisionsOf[page][v].chunks \in Nat \ {0} /\ page \in Pages
        BY <1>1, <1>4, <1>5, ChunkIsId
      <4>2. 1 \in 1..RevisionsOf[page][v].chunks
        BY <4>1
      <4>3. ChunkOf(page, v, 1) \in Ids /\ IsStored(ChunkOf(page, v, 1))
        BY <1>1, <1>4, <1>5, <4>1, <4>2, ChunkIsId DEF StoresChunks
      <4> QED
        BY <1>7, <4>3 DEF AllQuiet, Quiet
    <3>5. ChunkOf(page, v, 1).page = page /\ ChunkOf(page, v, 1).revision = v
      BY DEF ChunkOf
    <3> QED
      BY <2>2, <3>3, <3>4, <3>5 DEF HasCause, Stored
  <2> QED
    BY <2>3, <2>4
<1>10. ASSUME NEW p \in DOMAIN listed \ todo
       PROVE  StoresChunks(p, listed[p])' /\ (p \notin contested' => NoOlder(p, listed[p])')
  <2>1. StoresChunks(p, listed[p])
    BY <1>1, <1>2, <1>3, <1>4 DEF DoneOK
  <2>2. p # page => (p \notin contested => NoOlder(p, listed[p]))
    BY <1>1, <1>2, <1>3 DEF DoneOK
  <2> QED
    BY <1>1, <1>2, <1>4, <1>5, <1>7, <1>8, <2>1, <2>2, QuietStays
<1>11. /\ IsRun(run)
       /\ run.pc \in {"chunk", "missing"}
       /\ run.listed = listed /\ run.old_pages = sync[c].old_pages
       /\ RunOK(run)'
       /\ DoneOK(run)'
  <2>1. todo \in SUBSET DOMAIN listed
    BY <1>1, <1>4
  <2> QED
    BY <1>1, <1>2, <1>10, <2>1, TurnStep
<1>12. Proceeds(c, run)
  BY <1>1, <1>2, <1>7, <1>9, <1>11 DEF Proceeds, Kept
<1> QED
  BY <1>11, <1>12, StageStep DEF RunPc

LEMMA ConfirmMissingStep ==
  ASSUME SyncInv, NEW c \in Connectors, ConfirmMissing(c)
  PROVE  SyncInv'
<1>1. PICK run : run = [sync[c] EXCEPT !.pc = "write"]
  OBVIOUS
<1>2. /\ sync[c].pc = "missing" /\ RunsOn(c)
      /\ GoesTo(c, run)
      /\ UNCHANGED <<world, files, runs, cut, contested>>
  BY <1>1 DEF ConfirmMissing, RunsOn
<1>3. IsRun(sync[c]) /\ RunOK(sync[c]) /\ DoneOK(sync[c]) /\ RowsOK /\ TypeOK
  BY DEF SyncInv, SyncShape
<1>4. /\ IsRun(run) /\ run.pc = "write"
      /\ run.listed = sync[c].listed /\ run.old_pages = sync[c].old_pages
      /\ run.todo = sync[c].todo /\ run.attempt = sync[c].attempt
      /\ run.setting = sync[c].setting /\ run.expire_missing = sync[c].expire_missing
  BY <1>1, <1>3, ZenonT(60) DEF IsRun
<1>5. MissingPages(run) = MissingPages(sync[c])
  BY <1>4 DEF MissingPages
<1> DEFINE Effect ==
             /\ TypeOK' /\ AllQuiet
             /\ confirmed \subseteq confirmed'
             /\ \A m \in Ids : Expires(m) => HasCause(m)'
             /\ run.expire_missing => \A p \in MissingPages(run) : ~Live(p)'
<1>6. ASSUME IsConfirmed(sync[c]) PROVE Effect
  <2>1. PICK ids : /\ ids = MissingRows(sync[c])
                   /\ ExpireAny(ids)
                   /\ confirmed' = confirmed \cup MissingPages(sync[c])
    BY <1>6 DEF ConfirmMissing
  <2>2. /\ ids \in SUBSET Stored
        /\ \A m \in Ids : m \in ids <=>
             /\ HasStatus(m, "pending") \/ HasStatus(m, "verified_active")
             /\ memories[m].page_id \in MissingPages(sync[c])
             /\ memories[m].tenant_id = tenant
    BY <2>1 DEF MissingRows, RowsOfPage, HasStatus, Stored
  <2>3. /\ TypeOK'
        /\ AllQuiet
        /\ \A m \in ids : ~HasStatus(m, "pending")' /\ ~HasStatus(m, "verified_active")'
        /\ \A m \in Ids : Expires(m) => m \in ids
    BY <1>3, <2>1, <2>2, ExpireAnyQuiet
  <2>4. ASSUME NEW m \in Ids, Expires(m) PROVE HasCause(m)'
    <3>1. m \in ids /\ m \in Stored
      BY <2>2, <2>3, <2>4
    <3>2. memories[m].page_id = m.page
      BY <1>3, <3>1 DEF RowsOK
    <3>3. m.page \in MissingPages(sync[c])
      BY <2>2, <3>1, <3>2
    <3> QED
      BY <2>1, <3>3 DEF HasCause
  <2>5. ASSUME NEW p \in MissingPages(run), Live(p)' PROVE FALSE
    <3>1. PICK m \in Ids : /\ IsStored(m)' /\ m.page = p
                           /\ memories'[m].status \in {"pending", "verified_active"}
      BY <2>5 DEF Live, Stored
    <3>2. /\ m \in Stored
          /\ memories[m].status \in {"pending", "verified_active"}
      BY <2>3, <3>1 DEF AllQuiet, Quiet, Stored
    <3>3. memories[m].page_id = p /\ memories[m].tenant_id = tenant
      BY <1>3, <3>1, <3>2 DEF RowsOK
    <3>4. m \in ids
      BY <1>5, <2>2, <2>5, <3>2, <3>3 DEF HasStatus, Stored
    <3> QED
      BY <2>3, <3>1, <3>4 DEF HasStatus
  <2> QED
    BY <2>1, <2>3, <2>4, <2>5
<1>7. ASSUME ~IsConfirmed(sync[c]) PROVE Effect
  <2>1. UNCHANGED <<vars, confirmed>>
    BY <1>7 DEF ConfirmMissing
  <2>2. memories' = memories /\ TypeOK' /\ confirmed' = confirmed
    BY <1>3, <2>1 DEF vars, TypeOK
  <2>3. AllQuiet /\ \A m \in Ids : ~Expires(m)
    BY <2>2, SameQuiet DEF AllQuiet
  <2>4. run.expire_missing => MissingPages(run) = {}
    BY <1>4, <1>5, <1>7 DEF IsConfirmed
  <2> QED
    BY <2>2, <2>3, <2>4
<1>8. Effect
  BY <1>6, <1>7
<1>9. Proceeds(c, run)
  BY <1>2, <1>4, <1>8 DEF Proceeds
<1>10. Mild({c})
  BY <1>9, ProceedsMild
<1>11. RunOK(run)
  BY <1>2, <1>3, <1>4 DEF RunOK, RunPc
<1>12. RunOK(run)'
  BY <1>10, <1>11, RunStays
<1>13. DoneOK(run)'
  <2>1. ASSUME NEW p \in DOMAIN run.listed \ run.todo
        PROVE  /\ StoresChunks(p, run.listed[p])'
               /\ p \notin contested' => NoOlder(p, run.listed[p])'
    BY <1>2, <1>4, <1>10, <2>1, DoneStays
  <2> QED
    BY <1>4, <2>1 DEF DoneOK
<1> QED
  BY <1>4, <1>8, <1>9, <1>12, <1>13, StageStep DEF RunPc

LEMMA WritePartStep ==
  ASSUME SyncInv, NEW c \in Connectors, WritePart(c)
  PROVE  SyncInv'
<1>1. PICK run : run = [sync[c] EXCEPT !.pc = "replace"]
  OBVIOUS
<1>2. /\ sync[c].pc = "write" /\ RunsOn(c)
      /\ GoesTo(c, run)
      /\ part' = {NextPages(sync[c])}
      /\ memories' = memories /\ audit_events' = audit_events
      /\ space' = space /\ visible' = visible /\ checkpoint' = checkpoint /\ runs' = runs
      /\ cut' = cut /\ confirmed' = confirmed /\ contested' = contested
  BY <1>1 DEF WritePart, RunsOn, vars, world
<1>3. IsRun(sync[c]) /\ RunOK(sync[c]) /\ DoneOK(sync[c]) /\ Tracks(c)
  BY DEF SyncInv, SyncShape
<1>4. /\ IsRun(run) /\ run.pc = "replace"
      /\ run.listed = sync[c].listed /\ run.old_pages = sync[c].old_pages
      /\ run.todo = sync[c].todo /\ run.attempt = sync[c].attempt
      /\ run.setting = sync[c].setting /\ run.expire_missing = sync[c].expire_missing
  BY <1>1, <1>3, ZenonT(60) DEF IsRun
<1>5. /\ sync'[c] = run
      /\ \A d \in Connectors \ {c} : sync'[d] = sync[d]
      /\ sync' = [d \in Connectors |-> sync'[d]]
      /\ \A d \in Connectors : IsRun(sync'[d])
  BY <1>2, <1>4, SyncGoesTo
<1>6. AllQuiet /\ \A m \in Ids : ~Expires(m)
  BY <1>2, SameQuiet DEF AllQuiet
<1>7. Mild({c})
  <2>1. SyncShape'
    BY <1>2, <1>5 DEF SyncInv, SyncShape, TypeOK
  <2>2. \A p \in Pages : space'[p] >= space[p]
    BY <1>2 DEF SyncInv, SyncShape
  <2>3. \A pages \in Books' : pages \in Books \/ pages = NextPages(sync[c])
    BY <1>2, <1>4, <1>5 DEF Books
  <2> QED
    BY <1>2, <1>4, <1>5, <1>6, <2>1, <2>2, <2>3 DEF Mild
<1>8. RunOK(run)
  BY <1>2, <1>3, <1>4 DEF RunOK, RunPc
<1>9. RunOK(run)'
  BY <1>7, <1>8, RunStays
<1>10. DoneOK(run)'
  <2>1. ASSUME NEW p \in DOMAIN run.listed \ run.todo
        PROVE  /\ StoresChunks(p, run.listed[p])'
               /\ p \notin contested' => NoOlder(p, run.listed[p])'
    BY <1>2, <1>4, <1>7, <2>1, DoneStays
  <2> QED
    BY <1>4, <2>1 DEF DoneOK
<1>11. Ahead(c)' /\ \A p \in Pages : Counts(p)' => p \in DOMAIN run.old_pages \cup DOMAIN run.listed
  BY <1>2, <1>4, <1>5, <1>7, OwnStays
<1>12. Tracks(c)'
  <2>1. \A p : (Live(p)' <=> Live(p)) /\ (Counts(p)' <=> Counts(p))
    BY <1>2 DEF Live, Counts, Stored, IsStored
  <2>2. run.expire_missing => \A p \in MissingPages(run) : p \notin contested' => ~Live(p)'
    BY <1>2, <1>3, <1>4, <2>1 DEF Tracks, MissingPages
  <2>3. \A pages \in part' : \A p \in Pages : Counts(p)' => p \in DOMAIN pages
    BY <1>2, <2>1, NextPagesTrack
  <2> QED
    BY <1>4, <1>5, <1>11, <2>2, <2>3 DEF Tracks, MissingPages
<1>13. RunOK(sync[c])' /\ DoneOK(sync[c])'
  BY <1>5, <1>9, <1>10
<1> QED
  BY <1>7, <1>11, <1>12, <1>13, MildStep

LEMMA ReplaceStep ==
  ASSUME SyncInv, NEW c \in Connectors, ReplaceCheckpoint(c)
  PROVE  SyncInv'
<1>1. /\ sync[c].pc = "replace" /\ RunsOn(c)
      /\ UNCHANGED vars
  BY DEF ReplaceCheckpoint, RunsOn
<1>2. memories' = memories /\ audit_events' = audit_events /\ TypeOK'
  BY <1>1 DEF vars, SyncInv, SyncShape, TypeOK
<1>3. CASE StopsEarly(c)
  BY <1>1, <1>2, <1>3, StopStep
<1>4. ASSUME NEW pages \in part, checkpoint' = pages, part' = {}, GoesTo(c, NoRun),
             UNCHANGED <<world, runs, cut, confirmed, contested>>
      PROVE  SyncInv'
  <2>1. /\ sync'[c] = NoRun
        /\ \A d \in Connectors \ {c} : sync'[d] = sync[d]
        /\ sync' = [d \in Connectors |-> sync'[d]]
        /\ \A d \in Connectors : IsRun(sync'[d])
    BY <1>4, NoRunShape, SyncGoesTo
  <2>2. /\ space' = space /\ visible' = visible /\ runs' = runs
        /\ cut' = cut /\ confirmed' = confirmed /\ contested' = contested
    BY <1>4 DEF world
  <2>3. AllQuiet /\ \A m \in Ids : ~Expires(m)
    BY <1>2, SameQuiet DEF AllQuiet
  <2>4. Mild({c})
    <3>1. SyncShape'
      BY <1>2, <1>4, <2>1, <2>2 DEF SyncInv, SyncShape
    <3>2. \A p \in Pages : space'[p] >= space[p]
      BY <2>2 DEF SyncInv, SyncShape
    <3>3. \A b \in Books' : b \in Books \/ b = NoPages
      BY <1>4, <2>1, NoRunShape DEF Books
    <3>4. DOMAIN sync'[c].listed = {}
      BY <2>1, NoRunShape
    <3> QED
      BY <1>1, <1>4, <2>1, <2>2, <2>3, <3>1, <3>2, <3>3, <3>4 DEF Mild
  <2> QED
    BY <2>1, <2>4, NothingToKeep, MildStep
<1> QED
  BY <1>3, <1>4 DEF ReplaceCheckpoint

LEMMA StartRunStep ==
  ASSUME SyncInv, NEW c \in Connectors, NEW setting \in Settings, NEW expire_missing,
         StartRun(c, setting, expire_missing)
  PROVE  SyncInv'
<1>1. PICK run : run = [NoRun EXCEPT !.pc = "list", !.setting = setting,
                                     !.old_pages = checkpoint,
                                     !.expire_missing = expire_missing]
  OBVIOUS
<1>2. /\ IsRun(run) /\ run.pc = "list" /\ run.setting = setting
      /\ run.old_pages = checkpoint /\ run.listed = NoPages /\ run.todo = {} /\ run.attempt = 0
  BY <1>1 DEF NoRun, IsRun
<1>3. /\ ~RunsOn(c)
      /\ GoesTo(c, run)
      /\ runs < MaxRuns /\ runs' = runs + 1
      /\ contested' = contested \cup UNION {DOMAIN sync[d].listed : d \in Others(c)}
      /\ memories' = memories /\ audit_events' = audit_events
      /\ space' = space /\ visible' = visible
      /\ checkpoint' = checkpoint /\ part' = part
      /\ cut' = cut /\ confirmed' = confirmed
  BY <1>1 DEF StartRun, vars, world, files
<1>4. /\ sync'[c] = run
      /\ \A d \in Connectors \ {c} : sync'[d] = sync[d]
      /\ sync' = [d \in Connectors |-> sync'[d]]
      /\ \A d \in Connectors : IsRun(sync'[d])
  BY <1>2, <1>3, SyncGoesTo
<1>5. AllQuiet /\ \A m \in Ids : ~Expires(m)
  BY <1>3, SameQuiet DEF AllQuiet
<1>6. DOMAIN sync[c].listed = {} /\ DOMAIN sync'[c].listed = {}
  BY <1>2, <1>3, <1>4, Idle, NoRunShape
<1>7. \A d \in Others(c) : DOMAIN sync[d].listed \subseteq contested'
  BY <1>3
<1>8. Mild({c})
  <2>1. SyncShape'
    <3>1. runs' \in 0..MaxRuns
      BY <1>3, SyncAssumption DEF SyncInv, SyncShape
    <3> QED
      BY <1>3, <1>4, <3>1 DEF SyncInv, SyncShape, TypeOK
  <2>2. \A p \in Pages : space'[p] >= space[p]
    BY <1>3 DEF SyncInv, SyncShape
  <2>3. \A b \in Books' : b \in Books
    BY <1>2, <1>3, <1>4 DEF Books
  <2>4. contested \subseteq contested'
    BY <1>3
  <2> QED
    BY <1>3, <1>4, <1>5, <1>6, <1>7, <2>1, <2>2, <2>3, <2>4 DEF Mild
<1>9. RunOK(sync[c])' /\ DoneOK(sync[c])' /\ Ahead(c)'
  BY <1>2, <1>4, <1>6, SyncAssumption DEF RunOK, RunPc, DoneOK, Ahead
<1>10. Tracks(c)'
  <2>1. ASSUME NEW p \in Pages, Counts(p)' PROVE p \in DOMAIN checkpoint
    <3>1. p \in DOMAIN checkpoint' \/ \E d \in Connectors : p \in DOMAIN sync'[d].listed
      BY <1>8, <2>1, TrackedStep
    <3>2. ASSUME NEW d \in Connectors, p \in DOMAIN sync'[d].listed PROVE FALSE
      <4>1. d # c /\ p \in DOMAIN sync[d].listed
        BY <1>4, <1>6, <3>2
      <4>2. d \in Others(c)
        BY <4>1, Idle DEF Others
      <4> QED
        BY <1>7, <2>1, <4>1, <4>2 DEF Counts
    <3> QED
      BY <1>3, <3>1, <3>2
  <2> QED
    BY <1>2, <1>4, <2>1 DEF Tracks
<1> QED
  BY <1>8, <1>9, <1>10, MildStep

LEMMA ListPageStep ==
  ASSUME SyncInv, NEW c \in Connectors, NEW p \in Pages, ListPage(c, p)
  PROVE  SyncInv'
<1>1. PICK listed, now, run :
        /\ now = space[p]
        /\ listed = Extended(sync[c].listed, p, now)
        /\ run = [sync[c] EXCEPT !.listed = listed, !.attempt = 0]
  OBVIOUS
<1>2. /\ sync[c].pc = "list" /\ RunsOn(c)
      /\ p \notin DOMAIN sync[c].listed
      /\ GoesTo(c, run)
      /\ contested' = IF Others(c) = {} THEN contested ELSE contested \cup {p}
      /\ memories' = memories /\ audit_events' = audit_events
      /\ space' = space /\ visible' = visible
      /\ checkpoint' = checkpoint /\ part' = part
      /\ runs' = runs /\ cut' = cut /\ confirmed' = confirmed
  BY <1>1 DEF ListPage, RunsOn, vars, world, files
<1>3. /\ IsRun(sync[c]) /\ RunOK(sync[c])
      /\ now \in Nat \ {0}
  BY <1>1 DEF SyncInv, SyncShape
<1>4. /\ IsRun(run) /\ run.pc = "list"
      /\ run.listed = listed /\ run.old_pages = sync[c].old_pages
      /\ run.todo = sync[c].todo /\ run.attempt = 0 /\ run.setting = sync[c].setting
  BY <1>1, <1>2, <1>3, ZenonT(60) DEF IsRun
<1>5. /\ DOMAIN listed = DOMAIN sync[c].listed \cup {p}
      /\ listed[p] = now
      /\ \A q \in DOMAIN sync[c].listed : listed[q] = sync[c].listed[q]
  BY <1>1, <1>2 DEF Extended
<1>6. /\ sync'[c] = run
      /\ \A d \in Connectors \ {c} : sync'[d] = sync[d]
      /\ sync' = [d \in Connectors |-> sync'[d]]
      /\ \A d \in Connectors : IsRun(sync'[d])
  BY <1>2, <1>4, SyncGoesTo
<1>7. AllQuiet /\ \A m \in Ids : ~Expires(m)
  BY <1>2, SameQuiet DEF AllQuiet
<1>8. contested \subseteq contested' /\ (Others(c) = {} \/ p \in contested')
  BY <1>2
<1>9. Mild({c})
  <2>1. SyncShape'
    BY <1>2, <1>6 DEF SyncInv, SyncShape, TypeOK
  <2>2. \A q \in Pages : space'[q] >= space[q]
    BY <1>2 DEF SyncInv, SyncShape
  <2>3. \A b \in Books' : b \in Books
    BY <1>2, <1>4, <1>6 DEF Books
  <2>4. /\ DOMAIN sync'[c].listed \ DOMAIN sync[c].listed \subseteq {p}
        /\ DOMAIN sync[c].listed \subseteq DOMAIN sync'[c].listed
    BY <1>4, <1>5, <1>6
  <2> QED
    BY <1>2, <1>6, <1>7, <1>8, <2>1, <2>2, <2>3, <2>4 DEF Mild
<1>10. RunOK(run)' /\ DoneOK(run)'
  <2>1. \A q \in DOMAIN listed : q \in Pages /\ listed[q] \in 1..space'[q]
    BY <1>1, <1>2, <1>3, <1>5 DEF RunOK
  <2>2. run.todo \subseteq DOMAIN listed /\ run.setting \in Settings /\ 0 \in 0..max_retries
    BY <1>2, <1>3, <1>4, <1>5, SyncAssumption DEF RunOK
  <2> QED
    BY <1>4, <2>1, <2>2 DEF RunOK, RunPc, DoneOK
<1>11. Ahead(c)'
  <2>1. ASSUME NEW q \in DOMAIN sync[c].listed \ contested'
        PROVE  /\ Others(c)' = {}
               /\ \A pages \in Books' : q \in DOMAIN pages => pages[q].revision <= listed[q]
               /\ \A id \in Stored' : id.page = q => id.revision <= listed[q]
    BY <1>5, <1>9, AheadAt
  <2>2. ASSUME p \notin contested'
        PROVE  /\ Others(c)' = {}
               /\ \A pages \in Books' : p \in DOMAIN pages => pages[p].revision <= listed[p]
               /\ \A id \in Stored' : id.page = p => id.revision <= listed[p]
    <3>1. Others(c)' = {}
      BY <1>6, <1>8, <2>2 DEF Others, RunsOn
    <3>2. ASSUME NEW pages \in Books', p \in DOMAIN pages PROVE pages[p].revision <= listed[p]
      <4>1. BookOK(pages)'
        BY <1>9, BooksStep
      <4>2. pages[p].revision \in 1..now
        BY <1>1, <1>2, <3>2, <4>1 DEF BookOK
      <4> QED
        BY <1>3, <1>5, <4>2
    <3>3. ASSUME NEW id \in Stored', id.page = p PROVE id.revision <= listed[p]
      <4>1. RowsOK'
        BY <1>9, RowsStep
      <4> QED
        BY <1>1, <1>2, <1>5, <3>3, <4>1 DEF RowsOK
    <3> QED
      BY <3>1, <3>2, <3>3
  <2> QED
    BY <1>4, <1>5, <1>6, <2>1, <2>2 DEF Ahead
<1>12. Tracks(c)'
  <2>1. ASSUME NEW q \in Pages, Counts(q)'
        PROVE  q \in DOMAIN run.old_pages \cup DOMAIN run.listed
    BY <1>2, <1>4, <1>5, <1>9, <2>1, TrackedStays
  <2> QED
    BY <1>4, <1>6, <2>1 DEF Tracks
<1>13. RunOK(sync[c])' /\ DoneOK(sync[c])'
  BY <1>6, <1>10
<1> QED
  BY <1>9, <1>11, <1>12, <1>13, MildStep

-----------------------------------------------------------------------------
(* What happens around the runs *)

\* A step of no connector: the files and the runs stay.
LEMMA AroundStep ==
  ASSUME SyncInv, SyncShape', AllQuiet, \A m \in Ids : ~Expires(m),
         \A p \in Pages : space'[p] >= space[p],
         UNCHANGED <<files, sync, runs, cut, confirmed, contested>>
  PROVE  SyncInv'
<1>1. Books' = Books /\ part' = part /\ checkpoint' = checkpoint
  BY DEF Books, files
<1>2. Mild({})
  BY <1>1 DEF Mild
<1> QED
  BY <1>2, MildStep

LEMMA WorldStep ==
  ASSUME SyncInv, NEW p \in Pages, Edit(p) \/ Toggle(p)
  PROVE  SyncInv'
<1>1. /\ memories' = memories /\ audit_events' = audit_events
      /\ UNCHANGED <<files, sync, runs, cut, confirmed, contested>>
  BY DEF Edit, Toggle, vars
<1>2. AllQuiet /\ \A m \in Ids : ~Expires(m)
  BY <1>1, SameQuiet DEF AllQuiet
<1>3. part' = part /\ runs' = runs /\ sync' = sync
  BY <1>1 DEF files
<1>4. CASE Edit(p)
  <2>1. /\ space[p] < Len(RevisionsOf[p])
        /\ space' = [space EXCEPT ![p] = @ + 1]
        /\ visible' = visible
    BY <1>4 DEF Edit
  <2>2. /\ space \in [Pages -> Nat \ {0}]
        /\ \A q \in Pages : space[q] <= Len(RevisionsOf[q])
    BY DEF SyncInv, SyncShape
  <2>3. \A q \in Pages : Len(RevisionsOf[q]) \in Nat
    BY SyncAssumption
  <2>4. /\ space' \in [Pages -> Nat \ {0}]
        /\ \A q \in Pages : space'[q] <= Len(RevisionsOf[q]) /\ space'[q] >= space[q]
    BY <2>1, <2>2, <2>3
  <2>5. SyncShape'
    BY <1>1, <1>3, <2>1, <2>4 DEF SyncInv, SyncShape, TypeOK
  <2> QED
    BY <1>1, <1>2, <2>4, <2>5, AroundStep
<1>5. CASE Toggle(p)
  <2>1. space' = space /\ visible' \subseteq visible \cup {p}
    BY <1>5 DEF Toggle
  <2>2. SyncShape' /\ \A q \in Pages : space'[q] >= space[q]
    BY <1>1, <1>3, <2>1 DEF SyncInv, SyncShape, TypeOK
  <2> QED
    BY <1>1, <1>2, <2>2, AroundStep
<1> QED
  BY <1>4, <1>5

LEMMA ReviewStep ==
  ASSUME SyncInv, Review
  PROVE  SyncInv'
<1>1. PICK id \in Ids : Approve(id) \/ Reject(id)
  BY DEF Review
<1>2. /\ space' = space /\ visible' = visible
      /\ UNCHANGED <<files, sync, runs, cut, confirmed, contested>>
  BY DEF Review
<1>3. TypeOK
  BY DEF SyncInv, SyncShape
<1>4. TypeOK'
  BY <1>1, <1>3, TypeStep DEF Next
<1>5. AllQuiet /\ \A m \in Ids : ~Expires(m)
  BY <1>1, <1>3, ReviewQuiet DEF AllQuiet
<1>6. part' = part /\ runs' = runs /\ sync' = sync
  BY <1>2 DEF files
<1>7. SyncShape' /\ \A q \in Pages : space'[q] >= space[q]
  BY <1>2, <1>4, <1>6 DEF SyncInv, SyncShape
<1> QED
  BY <1>2, <1>5, <1>7, AroundStep

-----------------------------------------------------------------------------
(* The theorems *)

LEMMA SyncStep == SyncInv /\ [SyncNext]_syncVars => SyncInv'
<1> SUFFICES ASSUME SyncInv, [SyncNext]_syncVars PROVE SyncInv'
  OBVIOUS
<1>1. CASE UNCHANGED syncVars
  <2>1. /\ memories' = memories /\ audit_events' = audit_events
        /\ space' = space /\ visible' = visible
        /\ UNCHANGED <<files, sync, runs, cut, confirmed, contested>>
    BY <1>1 DEF syncVars, vars, world
  <2>2. part' = part /\ runs' = runs /\ sync' = sync
    BY <2>1 DEF files
  <2>3. AllQuiet /\ \A m \in Ids : ~Expires(m)
    BY <2>1, SameQuiet DEF AllQuiet
  <2>4. SyncShape' /\ \A q \in Pages : space'[q] >= space[q]
    BY <2>1, <2>2 DEF SyncInv, SyncShape, TypeOK
  <2> QED
    BY <2>1, <2>3, <2>4, AroundStep
<1>2. ASSUME NEW c \in Connectors, NEW setting \in Settings, NEW e \in BOOLEAN,
             StartRun(c, setting, e)
      PROVE  SyncInv'
  BY <1>2, StartRunStep
<1>3. ASSUME NEW c \in Connectors, GoOn(c) PROVE SyncInv'
  <2>1. ASSUME NEW p \in Pages, ListPage(c, p) PROVE SyncInv'
    BY <2>1, ListPageStep
  <2>2. ASSUME NEW p \in Pages, ListedTwice(c, p) PROVE SyncInv'
    BY <2>2, ListedTwiceStep
  <2>3. ASSUME RequestFails(c) PROVE SyncInv'
    BY <2>3, RequestFailsStep
  <2>4. ASSUME EndListing(c) PROVE SyncInv'
    BY <2>4, EndListingStep
  <2>5. ASSUME SkipChunk(c) PROVE SyncInv'
    BY <2>5, SkipStep
  <2>6. ASSUME IngestChunk(c) PROVE SyncInv'
    BY <2>6, IngestStep
  <2>7. ASSUME ChunkFails(c) PROVE SyncInv'
    BY <2>7, ChunkFailsStep
  <2>8. ASSUME ExpirePage(c) PROVE SyncInv'
    BY <2>8, ExpirePageStep
  <2>9. ASSUME ExpiryFails(c) PROVE SyncInv'
    BY <2>9, StopsStep
  <2>10. ASSUME ConfirmMissing(c) PROVE SyncInv'
    BY <2>10, ConfirmMissingStep
  <2>11. ASSUME WritePart(c) PROVE SyncInv'
    BY <2>11, WritePartStep
  <2>12. ASSUME ReplaceCheckpoint(c) PROVE SyncInv'
    BY <2>12, ReplaceStep
  <2> QED
    BY <1>3, <2>1, <2>2, <2>3, <2>4, <2>5, <2>6, <2>7, <2>8, <2>9, <2>10, <2>11, <2>12 DEF GoOn
<1>4. ASSUME NEW c \in Connectors, Abort(c) PROVE SyncInv'
  BY <1>4, StopsStep
<1>5. ASSUME NEW p \in Pages, Edit(p) \/ Toggle(p) PROVE SyncInv'
  BY <1>5, WorldStep
<1>6. CASE Review
  BY <1>6, ReviewStep
<1> QED
  BY <1>1, <1>2, <1>3, <1>4, <1>5, <1>6 DEF SyncNext

LEMMA SyncStart == SyncInit => SyncInv
<1> SUFFICES ASSUME SyncInit PROVE SyncInv
  OBVIOUS
<1>1. /\ TypeOK
      /\ Stored = {}
      /\ \A id \in Ids : ~IsStored(id)
  BY DEF SyncInit, Init, TypeOK, Stored, IsStored
<1>2. \A c \in Connectors : sync[c] = NoRun
  BY DEF SyncInit
<1>3. SyncShape
  <2>1. \A p \in Pages : Len(RevisionsOf[p]) \in Nat \ {0}
    BY SyncAssumption
  <2>2. /\ space = [p \in Pages |-> 1]
        /\ visible = Pages /\ part = {} /\ runs = 0
        /\ sync = [c \in Connectors |-> NoRun]
    BY DEF SyncInit
  <2>3. \A p \in Pages : space[p] <= Len(RevisionsOf[p])
    BY <2>1, <2>2
  <2>4. sync = [c \in Connectors |-> sync[c]]
    BY <2>2
  <2>5. space \in [Pages -> Nat \ {0}] /\ runs \in 0..MaxRuns
    BY <2>2, SyncAssumption
  <2> QED
    BY <1>1, <1>2, <2>2, <2>3, <2>4, <2>5, NoRunShape DEF SyncShape
<1>4. RowsOK
  BY <1>1 DEF RowsOK
<1>5. \A pages \in Books : BookOK(pages)
  <2>1. \A pages \in Books : pages = NoPages
    BY <1>2, NoRunShape DEF Books, SyncInit
  <2> QED
    BY <2>1, NoRunShape DEF BookOK
<1>6. \A c \in Connectors : RunOK(sync[c]) /\ DoneOK(sync[c]) /\ Ahead(c) /\ Tracks(c)
  BY <1>2, NoRunShape, SyncAssumption DEF RunOK, RunPc, DoneOK, Ahead, Tracks, RunsOn
<1>7. NothingExpiresInVain
  BY <1>1 DEF NothingExpiresInVain, HasStatus
<1>8. \A p : ~Counts(p)
  BY <1>1 DEF Counts, Live
<1> QED
  BY <1>3, <1>4, <1>5, <1>6, <1>7, <1>8 DEF SyncInv

LEMMA SyncInvariant == SyncSpec => []SyncInv
<1>1. SyncInit => SyncInv
  BY SyncStart
<1> QED
  BY <1>1, SyncStep, PTL DEF SyncSpec

\* The connector's state keeps its shape: one file waits to become the
\* checkpoint, revisions are those the space has had, retries stay in bounds.
THEOREM SyncIsWellTyped == SyncSpec => []SyncTypeOK
<1>1. SyncInv => SyncTypeOK
  <2> SUFFICES ASSUME SyncInv PROVE SyncTypeOK
    OBVIOUS
  <2>1. SyncShape /\ BookOK(checkpoint) /\ \A c \in Connectors : RunOK(sync[c])
    BY DEF SyncInv, Books
  <2>2. \A p \in DOMAIN checkpoint : p \in Pages /\ checkpoint[p].revision \in 1..space[p]
    BY <2>1 DEF BookOK
  <2> QED
    BY <2>1, <2>2 DEF SyncShape, SyncTypeOK, RunOK, RunPc
<1> QED
  BY <1>1, SyncInvariant, PTL

\* What the checkpoint says was synchronised is in the store (synchronize):
\* it holds however runs overlap, stop and replace each other's files.
THEOREM CheckpointsAreBacked == SyncSpec => []CheckpointIsBacked
<1>1. SyncInv => CheckpointIsBacked
  <2> SUFFICES ASSUME SyncInv PROVE CheckpointIsBacked
    OBVIOUS
  <2>1. BookOK(checkpoint)
    BY DEF SyncInv, Books
  <2> QED
    BY <2>1 DEF BookOK, StoresChunks, ChunkOf, NoOlder, CheckpointIsBacked
<1> QED
  BY <1>1, SyncInvariant, PTL

\* No chunk expires but for a newer revision that is stored, a page that a
\* run found missing, or a second run on the page (_expire_records).
THEOREM ExpiriesHaveCause == SyncSpec => []NothingExpiresInVain
<1>1. SyncInv => NothingExpiresInVain
  BY DEF SyncInv
<1> QED
  BY <1>1, SyncInvariant, PTL

\* The next checkpoint misses no page whose chunks are live, so that a later
\* run can find the page missing (synchronize).
THEOREM LivePagesAreTracked == SyncSpec => []LivePagesStayTracked
<1>1. SyncInv => LivePagesStayTracked
  <2> SUFFICES ASSUME SyncInv, NEW id \in Ids, IsStored(id),
                      HasStatus(id, "pending") \/ HasStatus(id, "verified_active"),
                      id.page \notin DOMAIN checkpoint \cup cut \cup contested
               PROVE  \E c \in Connectors : id.page \in DOMAIN sync[c].listed
    BY DEF LivePagesStayTracked, Stored
  <2>1. Counts(id.page)
    BY DEF Counts, Live, Stored, HasStatus
  <2>2. id.page \in Pages
    BY SyncAssumption DEF ChunkId
  <2> QED
    BY <2>1, <2>2 DEF SyncInv
<1> QED
  BY <1>1, SyncInvariant, PTL

=============================================================================
