----------------------------- MODULE MCImporters -----------------------------
(***************************************************************************)
(* The two ways into the memory that have state of their own, each on a    *)
(* memory that starts empty: the connector's synchronisation, or what the  *)
(* agent, the API and the MCP server store.  A behaviour is of one of them *)
(* (`importer' says which), so the run explores them side by side.         *)
(*                                                                         *)
(* Two pages: one that shrinks when it is edited, on the same day, and is  *)
(* edited again, and one that stays as it is.  Runs import them as meeting *)
(* notes or as official policies.                                          *)
(*                                                                         *)
(* Documents come in small sets: two editions of a file with a chunk in    *)
(* common; a file that two tenants import; the demo and a posted claim;    *)
(* public data and an MCP proposal; the demo, company facts or a claim,    *)
(* and questions.                                                          *)
(***************************************************************************)
EXTENDS ConfluenceSync, AgentIngestion, TLC

CONSTANTS t1, t2, p1, p2

VARIABLE importer

Of(chunks, day) == [chunks |-> chunks, updated_at |-> day]

Histories == (p1 :> <<Of(2, 1), Of(1, 1), Of(1, 2)>>) @@ (p2 :> <<Of(1, 1)>>)

ChunkIds ==
  UNION {UNION {{[page |-> p, revision |-> v, chunk |-> k] : k \in 1..Histories[p][v].chunks}
                : v \in DOMAIN Histories[p]} : p \in Pages}

MeetingNotes == [source_type |-> "meeting_note", authority |-> 70]

Policies == [source_type |-> "official_policy", authority |-> 100]

ImportSettings == {MeetingNotes, Policies}

ChunkRecords == {ChunkRecord(id, s) : id \in ChunkIds, s \in ImportSettings}

ThreeIds == [v \in 1..3 |-> [page |-> p1, revision |-> v, chunk |-> 1]]

A(kind, name, stem, chunks, source_type, authority, from) ==
  [kind |-> kind, tenant_id |-> t1, name |-> name, stem |-> stem, chunks |-> chunks,
   source_type |-> source_type, authority |-> authority, valid_from |-> from]

Handbook == A("file", "handbook.md", "handbook", <<"x", "y">>, "official_policy", 100, 1)
Edited   == A("file", "handbook.md", "handbook", <<"z", "y">>, "official_policy", 100, 2)
Theirs   == [Handbook EXCEPT !.tenant_id = t2]
Demo     == A("seed", "demo", "handbook", <<"s", "t">>, "official_policy", 90, MinDate)
Claim    == A("post", "claim", "handbook", <<"p">>, "user_claim", 80, NoDate)
PublicQA == A("fiqa", "FiQA/1", "FiQA/1", <<"q">>, "public_dataset", 55, NoDate)
Facts    == A("sec", "CIK1", "CIK1", <<"c">>, "system_record", 100, 2)
Proposal == A("mcp", "proposal", "CIK1", <<"m">>, "user_claim", 20, NoDate)

SmallOffers ==
  [editions  |-> {Handbook, Edited}, tenants |-> {Handbook, Theirs},
   demo |-> {Demo, Claim}, public |-> {PublicQA, Proposal},
   demo_asks |-> {Demo, Question}, facts_asks |-> {Facts, Question},
   claim_asks |-> {Claim, Question}]

AllDocuments == UNION {SmallOffers[o] : o \in DOMAIN SmallOffers} \ {Question}

AllRecords ==
  ChunkRecords \cup UNION {{RecordOf(doc, i) : i \in DOMAIN doc.chunks} : doc \in AllDocuments}

AllKeys == {<<id.page, id.chunk>> : id \in ChunkIds} \cup
  {<<doc.stem, k>> : doc \in {Handbook, Demo, Claim, PublicQA, Facts, Proposal}, k \in 1..2}

Sym == Permutations(Importers) \cup Permutations(Connectors)

connectorVars == <<world, files, sync, runs, cut, confirmed, contested>>

ImportersInit ==
  /\ SyncInit
  /\ IngestionInit
  /\ importer \in {"notes", "policies", "overlap", "agent"}
  /\ importer # "agent" => offered = "editions"

Connector == importer # "agent" /\ UNCHANGED <<agentVars, importer>>

\* Three runs one after the other, or two that may overlap.
MayStart(c, setting) ==
  /\ setting = IF importer = "policies" THEN Policies ELSE MeetingNotes
  /\ IF importer = "overlap" THEN runs < 2 ELSE Others(c) = {}

\* One change makes the listings of two runs differ.
MayChange == importer = "overlap" => changes = 0

\* A listing misses a page once something has changed; not so with notes, to
\* save states.
MayMiss(c) == changes = 0 \/ importer = "notes" => visible \subseteq DOMAIN sync[c].listed

Agent == importer = "agent" /\ UNCHANGED <<connectorVars, importer>>

\* SyncNext or IngestionNext, written out so that TLC counts their actions.
ImportersNext ==
  \/ \E c \in Connectors, s \in Settings, e \in BOOLEAN :
       Connector /\ MayStart(c, s) /\ StartRun(c, s, e)
  \/ \E c \in Connectors :
       \/ Connector /\ \E p \in Pages : ListPage(c, p)
       \/ Connector /\ \E p \in Pages : ListedTwice(c, p)
       \/ Connector /\ RequestFails(c)
       \/ Connector /\ MayMiss(c) /\ EndListing(c)
       \/ Connector /\ SkipChunk(c)
       \/ Connector /\ IngestChunk(c)
       \/ Connector /\ ChunkFails(c)
       \/ Connector /\ ExpirePage(c)
       \/ Connector /\ ExpiryFails(c)
       \/ Connector /\ ConfirmMissing(c)
       \/ Connector /\ WritePart(c)
       \/ Connector /\ ReplaceCheckpoint(c)
       \/ Connector /\ Abort(c)
  \/ \E p \in Pages :
       \/ Connector /\ MayChange /\ Edit(p)
       \/ Connector /\ MayChange /\ Toggle(p)
  \/ Connector /\ MayChange /\ Review
  \/ \E w \in Importers, doc \in Documents : Agent /\ Import(w, doc)
  \/ \E w \in Importers :
       \/ Agent /\ ListExisting(w)
       \/ Agent /\ SkipKnown(w)
       \/ Agent /\ StoreChunk(w)
       \/ Agent /\ ChunkRefused(w)
       \/ Agent /\ Reindex(w)
       \/ Agent /\ EnsureCollection(w)
       \/ Agent /\ CreateCollection(w)
       \/ Agent /\ Upsert(w)
       \/ Agent /\ Ask(w)
       \/ Agent /\ BuildAgent(w)
       \/ Agent /\ Search(w)
       \/ Agent /\ GetHits(w)
       \/ Agent /\ Fallback(w)
       \/ Agent /\ Answer(w)
       \/ Agent /\ Interrupted(w)
  \/ \E id \in Ids : Agent /\ Decide(id)

importersVars == <<syncVars, agentVars, importer>>

ImportersSpec == ImportersInit /\ [][ImportersNext]_importersVars

=============================================================================
