---------------------------- MODULE ShardedService ----------------------------
(***************************************************************************)
(* When the workers' operations touch disjoint records, keys and pages and *)
(* none is cut short, the store calls of ConcurrentService implement the   *)
(* indivisible operations of MemoryService: an operation takes effect when *)
(* it ends.  `settled' is what both tables hold of finished operations.    *)
(***************************************************************************)
EXTENDS ConcurrentService

CONSTANTS RequestsOf,   \* the ids and records each worker is sent
          PagesOf       \* the pages each worker synchronises

ASSUME ShardsAssumption ==
  /\ RequestsOf \in [Workers -> SUBSET (Ids \X Submissions)]
  /\ PagesOf \in [Workers -> SUBSET Pages]
  /\ \A v, w \in Workers : v # w =>
       \A r \in RequestsOf[v] :
         /\ r[2].page_id \notin PagesOf[w]
         /\ \A q \in RequestsOf[w] : r[1] # q[1] /\ r[2].conflict_key # q[2].conflict_key

\* A row whose window ends before it begins stops every list_all, that of
\* another worker's synchronisation too.  So where there is one, a version is
\* replaced only by a record that starts after it.
ASSUME StartsAssumption ==
  \A w \in Workers : (\E v \in Workers \ {w} : PagesOf[v] # {}) =>
    \A q, r \in RequestsOf[w] :
      /\ q[1] # r[1]
      /\ q[2].tenant_id = r[2].tenant_id /\ q[2].conflict_key = r[2].conflict_key
      /\ IntervalsOverlap(q[2], r[2])
      /\ YieldsTo(q[2], r[2])
      /\ r[2].valid_from \notin {MinDate, NoDate}
      => Start(q[2]) < r[2].valid_from

VARIABLES settled_memories, settled_events

shardedVars == <<vars, settled_memories, settled_events>>

\* The rows of a worker that has just finished are settled.
Settles(w) ==
  LET own == {r[1] : r \in RequestsOf[w]}
      settledBy(settled, table) ==
        [id \in Ids |-> IF id \in own THEN table[id] ELSE settled[id]]
  IN
  IF job'[w] = NoWork
  THEN /\ settled_memories' = settledBy(settled_memories, memories')
       /\ settled_events' = settledBy(settled_events, audit_events')
  ELSE UNCHANGED <<settled_memories, settled_events>>

ShardedInit ==
  /\ Init
  /\ settled_memories = memories
  /\ settled_events = audit_events

ShardedNext ==
  \E w \in Workers :
    /\ Begin(w, RequestsOf[w], PagesOf[w]) \/ GoOn(w)
    /\ Settles(w)

ShardedSpec ==
  /\ ShardedInit
  /\ [][ShardedNext]_shardedVars
  /\ \A w \in Workers : WF_shardedVars(GoOn(w) /\ Settles(w))

-----------------------------------------------------------------------------

Service == INSTANCE MemoryService
             WITH memories <- settled_memories, audit_events <- settled_events

\* Each operation's store calls together do what the indivisible operation
\* does, or leave the tables as they were, whatever other workers do meanwhile.
OperationsAreAtomic == Service!Spec

=============================================================================
