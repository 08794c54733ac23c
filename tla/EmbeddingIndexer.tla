-------------------------- MODULE EmbeddingIndexer --------------------------
(***************************************************************************)
(* CourseEmbeddingIndexerService (src/embedding/embedding-course-indexer.  *)
(* service.ts), the last job of the pipeline: it embeds the rows of the    *)
(* view v_courses_for_embedding whose text changed and upserts them into   *)
(* the Qdrant collection (src/embedding/qdrant-course-index.service.ts).   *)
(*                                                                         *)
(* Every call to the database, to Qdrant and to the embedding worker is a  *)
(* step, so that runs started by different triggers interleave (see        *)
(* JobsPipeline), the other jobs change the view under a run, and a call   *)
(* to Qdrant may fail before or after it took effect.  The worker is what  *)
(* EmbedService promises: the vectors of the texts it was given, or none.  *)
(***************************************************************************)
EXTENDS Naturals, FiniteSets

CONSTANTS
  Runs,        \* runs of the job: a bound
  Ids,         \* (course, program) pairs, the ids of rows and of points
  Texts,       \* texts a row may be embedded as
  Payloads,    \* what else a point carries: availability, sessions, ...
  Absent,      \* no row, no point
  BatchSize,   \* EMBEDDING_BATCH_SIZE
  MaxAttempts, \* of an upsert, in retryTransient()
  MaxChanges   \* how often the other jobs change a row: a bound

Row == [text : Texts, payload : Payloads]

ASSUME IdsAssumption         == IsFiniteSet(Ids)
ASSUME BatchSizeAssumption   == BatchSize \in Nat \ {0}
ASSUME MaxAttemptsAssumption == MaxAttempts \in Nat \ {0}
ASSUME MaxChangesAssumption  == MaxChanges \in Nat
ASSUME AbsentAssumption      == Absent \notin Row

VARIABLES
  view,        \* v_courses_for_embedding (external)
  changes,     \* how often it changed
  collection,  \* does the Qdrant collection exist?
  points,      \* its points
  pc,          \* what each run is at
  loaded,      \* the runs whose findAll() has answered
  rows,        \* the rows it returned
  scanned,     \* the ids getExistingTextHashes() has scrolled past
  hashes,      \* the points it saw there
  todo,        \* rowsToIndex not yet in a batch
  batch,       \* preparedBatch, or the one row tried on its own
  singles,     \* the rest of a batch that could not be embedded as a whole
  attempt,     \* of the upsert under way
  indexed,     \* the rows indexedCount counts
  errors,      \* the rows errorCount counts
  disturbed    \* runs whose rows or points another changed since (history)

store    == <<view, changes, collection, points>>
progress == <<todo, batch, singles, attempt, indexed, errors>>
input    == <<loaded, rows, scanned, hashes>>
vars     == <<store, pc, input, progress, disturbed>>

Working == {"creating", "loading", "batching", "embedding",
            "upserting", "falling back", "embedding one", "upserting one"}
Phase   == Working \cup {"idle", "done", "aborted"}

Nothing == [x \in Ids |-> Absent]

Init ==
  /\ view \in [Ids -> Row \cup {Absent}]
  /\ changes = 0
  /\ collection \in BOOLEAN
  /\ points \in [Ids -> Row \cup {Absent}]
  /\ ~collection => points = Nothing
  /\ pc = [r \in Runs |-> "idle"]
  /\ loaded = {}
  /\ rows = [r \in Runs |-> Nothing]
  /\ scanned = [r \in Runs |-> {}]
  /\ hashes = [r \in Runs |-> Nothing]
  /\ todo = [r \in Runs |-> {}]
  /\ batch = [r \in Runs |-> {}]
  /\ singles = [r \in Runs |-> {}]
  /\ attempt = [r \in Runs |-> 1]
  /\ indexed = [r \in Runs |-> {}]
  /\ errors = [r \in Runs |-> {}]
  /\ disturbed = {}

----------------------------------------------------------------------------
(* Another job writes a row the view shows, or removes it (external). *)
ViewChanges(x, row) ==
  /\ changes < MaxChanges
  /\ row # view[x]
  /\ changes' = changes + 1
  /\ view' = [view EXCEPT ![x] = row]
  /\ disturbed' = {r \in Runs : pc[r] # "idle"}
  /\ UNCHANGED <<collection, points, pc, input, progress>>

----------------------------------------------------------------------------
Goes(r, here, there) ==
  /\ pc[r] = here
  /\ pc' = [pc EXCEPT ![r] = there]

(* A run that ends before its time takes its memory with it. *)
Forget(r) ==
  /\ loaded' = loaded \ {r}
  /\ rows' = [rows EXCEPT ![r] = Nothing]
  /\ scanned' = [scanned EXCEPT ![r] = {}]
  /\ hashes' = [hashes EXCEPT ![r] = Nothing]
  /\ todo' = [todo EXCEPT ![r] = {}]
  /\ batch' = [batch EXCEPT ![r] = {}]
  /\ singles' = [singles EXCEPT ![r] = {}]
  /\ attempt' = [attempt EXCEPT ![r] = 1]
  /\ indexed' = [indexed EXCEPT ![r] = {}]
  /\ errors' = [errors EXCEPT ![r] = {}]

(* ensureCollection(): a run that is told 404 creates the collection, and  *)
(* is refused if another run did so in the meantime.                       *)
Start(r) ==
  /\ Goes(r, "idle", IF collection THEN "loading" ELSE "creating")
  /\ UNCHANGED <<store, input, progress, disturbed>>

CreateCollection(r) ==
  /\ ~collection
  /\ Goes(r, "creating", "loading")
  /\ collection' = TRUE
  /\ UNCHANGED <<view, changes, points, input, progress, disturbed>>

CreateRefused(r) ==
  /\ collection
  /\ Goes(r, "creating", "aborted")
  /\ Forget(r)
  /\ UNCHANGED <<store, disturbed>>

----------------------------------------------------------------------------
(* findAll() and getExistingTextHashes() run side by side.  The scroll     *)
(* takes the points page by page: each page shows its ids as they are when *)
(* it is read.                                                             *)
ReadRows(r) ==
  /\ pc[r] = "loading"
  /\ r \notin loaded
  /\ loaded' = loaded \cup {r}
  /\ rows' = [rows EXCEPT ![r] = view]
  /\ UNCHANGED <<store, pc, scanned, hashes, progress, disturbed>>

ScrollPage(r, page) ==
  /\ pc[r] = "loading"
  /\ page # {}
  /\ page \cap scanned[r] = {}
  /\ scanned' = [scanned EXCEPT ![r] = @ \cup page]
  /\ hashes' = [hashes EXCEPT ![r] =
                  [x \in Ids |-> IF x \in page THEN points[x] ELSE @[x]]]
  /\ UNCHANGED <<store, pc, loaded, rows, progress, disturbed>>

(* The text of a row, hashed: buildCourseEmbeddingText() and               *)
(* computeCourseChangeKey().  Nothing else of the row counts.              *)
ChangeKey(row) == IF row = Absent THEN Absent ELSE row.text

(* Mutants: every row is embedded again; a row with a point is not. *)
MutEveryRow(r)     == {x \in Ids : rows[r][x] # Absent}
MutRowsWithout(r)  == {x \in Ids : rows[r][x] # Absent /\ hashes[r][x] = Absent}

RowsToIndex(r) ==
  {x \in Ids : rows[r][x] # Absent /\ ChangeKey(hashes[r][x]) # ChangeKey(rows[r][x])}

FilterRows(r) ==
  /\ r \in loaded
  /\ scanned[r] = Ids
  /\ Goes(r, "loading", "batching")
  /\ todo' = [todo EXCEPT ![r] = RowsToIndex(r)]
  /\ UNCHANGED <<store, input, batch, singles, attempt, indexed, errors, disturbed>>

----------------------------------------------------------------------------
(* The next rows, batchSize of them or all that are left; a row the mapper *)
(* refuses is counted and left out.                                        *)
Batches(r) ==
  {rowsBatch \in SUBSET todo[r] :
     \/ Cardinality(rowsBatch) = BatchSize
     \/ rowsBatch = todo[r] /\ Cardinality(rowsBatch) < BatchSize}

NextBatch(r) ==
  /\ todo[r] # {}
  /\ \E rowsBatch \in Batches(r) : \E prepared \in SUBSET rowsBatch :
       /\ Goes(r, "batching", IF prepared = {} THEN "batching" ELSE "embedding")
       /\ todo' = [todo EXCEPT ![r] = @ \ rowsBatch]
       /\ batch' = [batch EXCEPT ![r] = prepared]
       /\ errors' = [errors EXCEPT ![r] = @ \cup (rowsBatch \ prepared)]
  /\ UNCHANGED <<store, input, singles, attempt, indexed, disturbed>>

Complete(r) ==
  /\ todo[r] = {}
  /\ Goes(r, "batching", "done")
  /\ UNCHANGED <<store, input, progress, disturbed>>

(* embedPreparedBatch(): the worker answers with as many vectors, each of  *)
(* the right size, or the call throws.                                     *)
Embedded(r) ==
  /\ \/ Goes(r, "embedding", "upserting")
     \/ Goes(r, "embedding one", "upserting one")
  /\ attempt' = [attempt EXCEPT ![r] = 1]
  /\ UNCHANGED <<store, input, todo, batch, singles, indexed, errors, disturbed>>

(* A batch that cannot be embedded is tried one row at a time ... *)
EmbedBatchFails(r) ==
  /\ Goes(r, "embedding", "falling back")
  /\ singles' = [singles EXCEPT ![r] = batch[r]]
  /\ batch' = [batch EXCEPT ![r] = {}]
  /\ UNCHANGED <<store, input, todo, attempt, indexed, errors, disturbed>>

NextSingle(r, x) ==
  /\ x \in singles[r]
  /\ Goes(r, "falling back", "embedding one")
  /\ singles' = [singles EXCEPT ![r] = @ \ {x}]
  /\ batch' = [batch EXCEPT ![r] = {x}]
  /\ UNCHANGED <<store, input, todo, attempt, indexed, errors, disturbed>>

(* Mutant: the rest of the batch is dropped. *)
MutDropTheRest(r) == "batching"

(* ... until none is left. *)
AfterSingle(r) == IF singles[r] = {} THEN "batching" ELSE "falling back"

(* ... and a row that cannot be embedded on its own is counted.            *)
EmbedOneFails(r) ==
  /\ Goes(r, "embedding one", AfterSingle(r))
  /\ errors' = [errors EXCEPT ![r] = @ \cup batch[r]]
  /\ batch' = [batch EXCEPT ![r] = {}]
  /\ UNCHANGED <<store, input, todo, singles, attempt, indexed, disturbed>>

----------------------------------------------------------------------------
(* upsertPoints(): Qdrant writes the points, answers or not; a transient   *)
(* error is retried with the same points, any other one ends the job.      *)
Upserting(r) == pc[r] \in {"upserting", "upserting one"}

PointsOf(r) ==
  [x \in Ids |-> IF x \in batch[r] THEN rows[r][x] ELSE points[x]]

Writes(r) ==
  /\ points' = PointsOf(r)
  /\ disturbed' = disturbed \cup {s \in Runs \ {r} : pc[s] # "idle"}

Upserted(r) ==
  /\ \/ Goes(r, "upserting", "batching")
     \/ Goes(r, "upserting one", AfterSingle(r))
  /\ Writes(r)
  /\ indexed' = [indexed EXCEPT ![r] = @ \cup batch[r]]
  /\ batch' = [batch EXCEPT ![r] = {}]
  /\ UNCHANGED <<view, changes, collection, input, todo, singles, attempt, errors>>

(* Mutants: one retry too many; a retry that does not count. *)
MutRetriesOnce(r) ==
  /\ Upserting(r)
  /\ attempt[r] <= MaxAttempts
  /\ attempt' = [attempt EXCEPT ![r] = @ + 1]
  /\ Writes(r) \/ UNCHANGED <<points, disturbed>>
  /\ UNCHANGED <<view, changes, collection, pc, input, todo, batch, singles, indexed,
                 errors>>

MutRetriesForever(r) ==
  /\ Upserting(r)
  /\ Writes(r) \/ UNCHANGED <<points, disturbed>>
  /\ UNCHANGED <<view, changes, collection, pc, input, progress>>

UpsertRetried(r) ==
  /\ Upserting(r)
  /\ attempt[r] < MaxAttempts
  /\ attempt' = [attempt EXCEPT ![r] = @ + 1]
  /\ Writes(r) \/ UNCHANGED <<points, disturbed>>
  /\ UNCHANGED <<view, changes, collection, pc, input, todo, batch, singles, indexed,
                 errors>>

UpsertFails(r) ==
  /\ Upserting(r)
  /\ pc' = [pc EXCEPT ![r] = "aborted"]
  /\ Writes(r) \/ UNCHANGED <<points, disturbed>>
  /\ Forget(r)
  /\ UNCHANGED <<view, changes, collection>>

(* Any other call to Qdrant or the database fails, or the thread of the    *)
(* run is killed with the server.                                          *)
Stops(r) ==
  /\ pc[r] \in Working
  /\ pc' = [pc EXCEPT ![r] = "aborted"]
  /\ Forget(r)
  /\ UNCHANGED <<store, disturbed>>

----------------------------------------------------------------------------
Step(r) ==
  \/ CreateCollection(r) \/ CreateRefused(r)
  \/ ReadRows(r) \/ (\E page \in SUBSET Ids : ScrollPage(r, page)) \/ FilterRows(r)
  \/ NextBatch(r) \/ Complete(r)
  \/ Embedded(r) \/ EmbedBatchFails(r)
  \/ (\E x \in Ids : NextSingle(r, x)) \/ EmbedOneFails(r)
  \/ Upserted(r) \/ UpsertRetried(r) \/ UpsertFails(r)

Next ==
  \/ \E x \in Ids, row \in Row \cup {Absent} : ViewChanges(x, row)
  \/ \E r \in Runs : Start(r) \/ Step(r) \/ Stops(r)

Spec == Init /\ [][Next]_vars

----------------------------------------------------------------------------
TypeOK ==
  /\ view \in [Ids -> Row \cup {Absent}]
  /\ changes \in 0..MaxChanges
  /\ collection \in BOOLEAN
  /\ points \in [Ids -> Row \cup {Absent}]
  /\ pc \in [Runs -> Phase]
  /\ loaded \subseteq Runs
  /\ rows \in [Runs -> [Ids -> Row \cup {Absent}]]
  /\ scanned \in [Runs -> SUBSET Ids]
  /\ hashes \in [Runs -> [Ids -> Row \cup {Absent}]]
  /\ todo \in [Runs -> SUBSET Ids]
  /\ batch \in [Runs -> SUBSET Ids]
  /\ singles \in [Runs -> SUBSET Ids]
  /\ attempt \in [Runs -> 1..MaxAttempts]
  /\ indexed \in [Runs -> SUBSET Ids]
  /\ errors \in [Runs -> SUBSET Ids]
  /\ disturbed \subseteq Runs

(* What the last line of the log says adds up: when a run completes, every *)
(* row it read was skipped, indexed or counted as an error, and only one   *)
(* of the three, whichever batches had to be taken apart.                  *)
RowsRead(r) == {x \in Ids : rows[r][x] # Absent}
Skipped(r)  == RowsRead(r) \ RowsToIndex(r)
EveryRowAccounted ==
  \A r \in Runs : pc[r] = "done" =>
    /\ RowsRead(r) = Skipped(r) \cup indexed[r] \cup errors[r]
    /\ indexed[r] \cap errors[r] = {}
    /\ Skipped(r) \cap (indexed[r] \cup errors[r]) = {}

(* A run that completes, and that neither another run nor a change of the  *)
(* view disturbed, leaves in the collection the text of every row, except  *)
(* of those it counted as errors: whatever earlier runs left undone or     *)
(* wrote from older rows is made up for.                                   *)
CompletedRunIndexes ==
  \A r \in Runs : pc[r] = "done" /\ r \notin disturbed =>
    \A x \in Ids \ errors[r] :
      view[x] # Absent => ChangeKey(points[x]) = ChangeKey(view[x])

(* An undisturbed run asks the worker only for texts the collection does   *)
(* not hold yet: unchanged courses cost nothing, and a retried upsert does *)
(* not make a row be embedded twice.                                       *)
EmbedsOnlyChanges ==
  \A r \in Runs : pc[r] \in {"embedding", "embedding one"} /\ r \notin disturbed =>
    \A x \in batch[r] : ChangeKey(points[x]) # ChangeKey(view[x])

(* Every step of a run leaves it closer to its end: neither the retries    *)
(* nor the fallback go round in circles, whatever the other runs write.    *)
Rank(r) ==
  << CASE pc[r] = "creating" -> 3 [] pc[r] = "loading" -> 2 [] pc[r] \in {"done", "aborted"} -> 0
       [] OTHER -> 1,
     Cardinality(Ids \ scanned[r]) + (IF r \in loaded THEN 0 ELSE 1),
     Cardinality(todo[r]),
     IF pc[r] \in {"embedding", "upserting"} THEN 1 ELSE 0,
     Cardinality(singles[r]),
     CASE pc[r] \in {"embedding", "embedding one"} -> 2 [] Upserting(r) -> 1 [] OTHER -> 0,
     MaxAttempts - attempt[r] >>
Before(s, t) == \E i \in DOMAIN s : s[i] < t[i] /\ \A j \in 1..(i - 1) : s[j] = t[j]

StepsRunOut == [][\A r \in Runs : Step(r) => Before(Rank(r)', Rank(r))]_vars
============================================================================
