---------------------- MODULE EmbeddingIndexerProofs ----------------------
(***************************************************************************)
(* Theorems about EmbeddingIndexer, for any number of runs, rows, texts    *)
(* and payloads, any batch size and any number of attempts.                *)
(*                                                                         *)
(* The argument: each row a run has to index is, at any time, in one place *)
(* only, ahead of the batches, in one, behind it or counted; and the point *)
(* of a row is the one the run scrolled past until the run writes it, or   *)
(* another run or a change of the view is known to have disturbed it.      *)
(***************************************************************************)
EXTENDS EmbeddingIndexer, FiniteSetTheorems, TLAPS

(* The phases before a run knows what to index, and from then on. *)
Early == {"idle", "creating", "loading"}
Late  == {"batching", "embedding", "upserting", "falling back", "embedding one",
          "upserting one", "done"}

(* Nothing is read before the collection is there, all of it afterwards. *)
InputOK(r) ==
  /\ pc[r] \in {"idle", "creating"} => r \notin loaded /\ scanned[r] = {}
  /\ pc[r] \in Late => r \in loaded /\ scanned[r] = Ids

(* Where a row to index may be: in one place, and a row to skip in none. *)
OnePlace(r, x) ==
  /\ x \in RowsToIndex(r) <=>
       (x \in todo[r] \/ x \in batch[r] \/ x \in singles[r] \/ x \in indexed[r] \/ x \in errors[r])
  /\ x \in todo[r] => x \notin batch[r] /\ x \notin singles[r]
                      /\ x \notin indexed[r] /\ x \notin errors[r]
  /\ x \in batch[r] => x \notin singles[r] /\ x \notin indexed[r] /\ x \notin errors[r]
  /\ x \in singles[r] => x \notin indexed[r] /\ x \notin errors[r]
  /\ x \in indexed[r] => x \notin errors[r]

PlacesOK(r) ==
  /\ pc[r] \in Early =>
       /\ todo[r] = {} /\ batch[r] = {} /\ singles[r] = {}
       /\ indexed[r] = {} /\ errors[r] = {}
  /\ pc[r] \in {"batching", "falling back", "done"} => batch[r] = {}
  /\ pc[r] \in {"batching", "embedding", "upserting", "done"} => singles[r] = {}
  /\ pc[r] = "done" => todo[r] = {}
  /\ pc[r] \in Late => \A x \in Ids : OnePlace(r, x)

(* What a run that nothing disturbed has read is still so, until it writes. *)
PointOK(r, x) ==
  /\ x \in scanned[r] /\ x \notin indexed[r] /\ ~(Upserting(r) /\ x \in batch[r])
       => points[x] = hashes[r][x]
  /\ x \in indexed[r] => points[x] = rows[r][x]

SightOK(r) ==
  r \notin disturbed =>
    /\ r \in loaded => rows[r] = view
    /\ \A x \in Ids : PointOK(r, x)

RunOK(r) ==
  /\ InputOK(r)
  /\ PlacesOK(r)
  /\ SightOK(r)

(* The inductive invariant. *)
IInv ==
  /\ TypeOK
  /\ \A r \in Runs : RunOK(r)

USE BatchSizeAssumption, MaxAttemptsAssumption, MaxChangesAssumption, AbsentAssumption

----------------------------------------------------------------------------
LEMMA TypeInit == Init => TypeOK
BY DEF Init, TypeOK, Nothing, Phase, Working

(* What NextBatch() does of a batch and the rows of it that can be mapped. *)
NextBatchIs(r, rowsBatch, prepared) ==
  /\ Goes(r, "batching", IF prepared = {} THEN "batching" ELSE "embedding")
  /\ todo' = [todo EXCEPT ![r] = @ \ rowsBatch]
  /\ batch' = [batch EXCEPT ![r] = prepared]
  /\ errors' = [errors EXCEPT ![r] = @ \cup (rowsBatch \ prepared)]

(* A run that ends early forgets what it knew: the memory keeps its types. *)
LEMMA TypeForget ==
  ASSUME TypeOK, NEW r \in Runs, Forget(r)
  PROVE  /\ loaded' \subseteq Runs
         /\ rows' \in [Runs -> [Ids -> Row \cup {Absent}]]
         /\ scanned' \in [Runs -> SUBSET Ids]
         /\ hashes' \in [Runs -> [Ids -> Row \cup {Absent}]]
         /\ todo' \in [Runs -> SUBSET Ids]
         /\ batch' \in [Runs -> SUBSET Ids]
         /\ singles' \in [Runs -> SUBSET Ids]
         /\ attempt' \in [Runs -> 1..MaxAttempts]
         /\ indexed' \in [Runs -> SUBSET Ids]
         /\ errors' \in [Runs -> SUBSET Ids]
BY DEF TypeOK, Forget, Nothing

(* The points of an upsert are points. *)
LEMMA TypeWrites ==
  ASSUME TypeOK, NEW r \in Runs, Writes(r) \/ UNCHANGED <<points, disturbed>>
  PROVE  points' \in [Ids -> Row \cup {Absent}] /\ disturbed' \subseteq Runs
BY DEF TypeOK, Writes, PointsOf

(* The counters stay within their bounds. *)
LEMMA Counts ==
  /\ 1 \in 1..MaxAttempts
  /\ \A n \in 1..MaxAttempts : n < MaxAttempts => n + 1 \in 1..MaxAttempts
  /\ \A n \in 0..MaxChanges : n < MaxChanges => n + 1 \in 0..MaxChanges
OBVIOUS

LEMMA TypeStep == TypeOK /\ [Next]_vars => TypeOK'
<1> SUFFICES ASSUME TypeOK, [Next]_vars PROVE TypeOK'
  OBVIOUS
<1> USE DEF TypeOK, store, progress, input, Goes, Phase, Working
<1>1. ASSUME NEW x \in Ids, NEW row \in Row \cup {Absent}, ViewChanges(x, row) PROVE TypeOK'
  <2>1. changes' \in 0..MaxChanges
    BY <1>1, Counts DEF ViewChanges
  <2>2. view' \in [Ids -> Row \cup {Absent}] /\ disturbed' \subseteq Runs
    BY <1>1 DEF ViewChanges
  <2>3. UNCHANGED <<collection, points, pc, input, progress>>
    BY <1>1 DEF ViewChanges
  <2> QED
    BY <2>1, <2>2, <2>3
<1>2. ASSUME NEW r \in Runs, Start(r) PROVE TypeOK'
  BY <1>2 DEF Start
<1>3. ASSUME NEW r \in Runs, CreateCollection(r) PROVE TypeOK'
  BY <1>3 DEF CreateCollection
<1>4. ASSUME NEW r \in Runs, CreateRefused(r) PROVE TypeOK'
  <2>1. pc' \in [Runs -> Phase] /\ UNCHANGED <<store, disturbed>>
    BY <1>4 DEF CreateRefused
  <2>2. Forget(r)
    BY <1>4 DEF CreateRefused
  <2> QED
    BY <2>1, <2>2, TypeForget
<1>5. ASSUME NEW r \in Runs, ReadRows(r) PROVE TypeOK'
  BY <1>5 DEF ReadRows
<1>6. ASSUME NEW r \in Runs, NEW page \in SUBSET Ids, ScrollPage(r, page) PROVE TypeOK'
  <2>1. hashes' \in [Runs -> [Ids -> Row \cup {Absent}]]
    BY <1>6 DEF ScrollPage
  <2>2. scanned' \in [Runs -> SUBSET Ids]
    BY <1>6 DEF ScrollPage
  <2>3. UNCHANGED <<store, pc, loaded, rows, progress, disturbed>>
    BY <1>6 DEF ScrollPage
  <2> QED
    BY <2>1, <2>2, <2>3
<1>7. ASSUME NEW r \in Runs, FilterRows(r) PROVE TypeOK'
  <2>1. RowsToIndex(r) \subseteq Ids
    BY DEF RowsToIndex
  <2> QED
    BY <1>7, <2>1 DEF FilterRows
<1>8. ASSUME NEW r \in Runs, NextBatch(r) PROVE TypeOK'
  <2>1. PICK rowsBatch \in Batches(r) : \E prepared \in SUBSET rowsBatch :
                                         NextBatchIs(r, rowsBatch, prepared)
    BY <1>8 DEF NextBatch, NextBatchIs
  <2>p. PICK prepared \in SUBSET rowsBatch : NextBatchIs(r, rowsBatch, prepared)
    BY <2>1
  <2>2. rowsBatch \subseteq Ids
    BY DEF Batches
  <2>3. UNCHANGED <<store, input, singles, attempt, indexed, disturbed>>
    BY <1>8 DEF NextBatch
  <2>4. pc' \in [Runs -> Phase]
    BY <2>p DEF NextBatchIs
  <2>5. /\ todo' \in [Runs -> SUBSET Ids]
        /\ batch' \in [Runs -> SUBSET Ids]
        /\ errors' \in [Runs -> SUBSET Ids]
    BY <2>p, <2>2 DEF NextBatchIs
  <2> QED
    BY <2>3, <2>4, <2>5
<1>9. ASSUME NEW r \in Runs, Complete(r) PROVE TypeOK'
  BY <1>9 DEF Complete
<1>10. ASSUME NEW r \in Runs, Embedded(r) PROVE TypeOK'
  <2>1. pc' \in [Runs -> Phase]
    BY <1>10 DEF Embedded
  <2>2. 1 \in 1..MaxAttempts
    BY Counts
  <2>3. attempt' \in [Runs -> 1..MaxAttempts]
    BY <1>10, <2>2 DEF Embedded
  <2>4. UNCHANGED <<store, input, todo, batch, singles, indexed, errors, disturbed>>
    BY <1>10 DEF Embedded
  <2> QED
    BY <2>1, <2>3, <2>4
<1>11. ASSUME NEW r \in Runs, EmbedBatchFails(r) PROVE TypeOK'
  BY <1>11 DEF EmbedBatchFails
<1>12. ASSUME NEW r \in Runs, NEW x \in Ids, NextSingle(r, x) PROVE TypeOK'
  BY ZenonT(60), <1>12 DEF NextSingle
<1>13. ASSUME NEW r \in Runs, EmbedOneFails(r) PROVE TypeOK'
  BY <1>13 DEF EmbedOneFails, AfterSingle
<1>14. ASSUME NEW r \in Runs, Upserted(r) PROVE TypeOK'
  <2>1. points' \in [Ids -> Row \cup {Absent}] /\ disturbed' \subseteq Runs
    BY <1>14, TypeWrites DEF Upserted
  <2>2. pc' \in [Runs -> Phase]
    BY <1>14 DEF Upserted, AfterSingle
  <2>3. indexed' \in [Runs -> SUBSET Ids] /\ batch' \in [Runs -> SUBSET Ids]
    BY <1>14 DEF Upserted
  <2>4. UNCHANGED <<view, changes, collection, input, todo, singles, attempt, errors>>
    BY <1>14 DEF Upserted
  <2> QED
    BY <2>1, <2>2, <2>3, <2>4
<1>15. ASSUME NEW r \in Runs, UpsertRetried(r) PROVE TypeOK'
  <2>1. points' \in [Ids -> Row \cup {Absent}] /\ disturbed' \subseteq Runs
    BY <1>15, TypeWrites DEF UpsertRetried
  <2>2. attempt' \in [Runs -> 1..MaxAttempts]
    <3>1. attempt[r] \in 1..MaxAttempts /\ attempt[r] < MaxAttempts
      BY <1>15 DEF UpsertRetried
    <3>2. attempt[r] + 1 \in 1..MaxAttempts
      BY <3>1, Counts
    <3>3. attempt' = [attempt EXCEPT ![r] = attempt[r] + 1]
      BY <1>15 DEF UpsertRetried
    <3> QED
      BY <3>2, <3>3
  <2>3. UNCHANGED <<view, changes, collection, pc, input, todo, batch, singles, indexed, errors>>
    BY <1>15 DEF UpsertRetried
  <2> QED
    BY <2>1, <2>2, <2>3
<1>16. ASSUME NEW r \in Runs, UpsertFails(r) PROVE TypeOK'
  <2>1. points' \in [Ids -> Row \cup {Absent}] /\ disturbed' \subseteq Runs
    BY <1>16, TypeWrites DEF UpsertFails
  <2>2. pc' \in [Runs -> Phase] /\ UNCHANGED <<view, changes, collection>>
    BY <1>16 DEF UpsertFails
  <2>3. Forget(r)
    BY <1>16 DEF UpsertFails
  <2> QED
    BY <2>1, <2>2, <2>3, TypeForget
<1>17. ASSUME NEW r \in Runs, Stops(r) PROVE TypeOK'
  <2>1. pc' \in [Runs -> Phase] /\ UNCHANGED <<store, disturbed>>
    BY <1>17 DEF Stops
  <2>2. Forget(r)
    BY <1>17 DEF Stops
  <2> QED
    BY <2>1, <2>2, TypeForget
<1>18. CASE UNCHANGED vars
  BY <1>18 DEF vars
<1> QED
  BY <1>1, <1>2, <1>3, <1>4, <1>5, <1>6, <1>7, <1>8, <1>9, <1>10, <1>11, <1>12, <1>13, <1>14,
     <1>15, <1>16, <1>17, <1>18 DEF Next, Step

(* Every variable keeps its type.                                          *)
THEOREM TypeCorrect == Spec => []TypeOK
<1>1. Init => TypeOK
  BY TypeInit
<1>2. TypeOK /\ [Next]_vars => TypeOK'
  BY TypeStep
<1> QED
  BY <1>1, <1>2, PTL DEF Spec

----------------------------------------------------------------------------
LEMMA IInvInit == Init => IInv
<1> SUFFICES ASSUME Init PROVE IInv
  OBVIOUS
<1>1. TypeOK
  BY TypeInit
<1>2. ASSUME NEW r \in Runs PROVE RunOK(r)
  BY DEF Init, RunOK, InputOK, PlacesOK, SightOK, PointOK, Early, Late
<1> QED
  BY <1>1, <1>2 DEF IInv

(* A step of another run, or a change of the view, leaves a run alone ... *)
Same(s) ==
  /\ pc'[s] = pc[s]
  /\ s \in loaded' <=> s \in loaded
  /\ rows'[s] = rows[s]
  /\ scanned'[s] = scanned[s]
  /\ hashes'[s] = hashes[s]
  /\ todo'[s] = todo[s]
  /\ batch'[s] = batch[s]
  /\ singles'[s] = singles[s]
  /\ indexed'[s] = indexed[s]
  /\ errors'[s] = errors[s]

(* ... and what it sees, unless it is disturbed or has not begun. *)
Seen(s) ==
  \/ UNCHANGED <<view, points>> /\ (s \in disturbed => s \in disturbed')
  \/ s \in disturbed'
  \/ pc[s] = "idle"

LEMMA OthersKeep ==
  ASSUME NEW s \in Runs, RunOK(s), Same(s), Seen(s)
  PROVE  RunOK(s)'
<1>1. InputOK(s)'
  BY DEF RunOK, InputOK, Same, Late
<1>2. ASSUME NEW x \in Ids, OnePlace(s, x) PROVE OnePlace(s, x)'
  <2>1. x \in RowsToIndex(s)' <=> x \in RowsToIndex(s)
    BY DEF RowsToIndex, Same, ChangeKey
  <2> QED
    BY <1>2, <2>1 DEF OnePlace, Same
<1>3. PlacesOK(s)'
  BY <1>2 DEF RunOK, PlacesOK, Same, Early, Late
<1>4. SightOK(s)'
  <2>1. CASE UNCHANGED <<view, points>> /\ (s \in disturbed => s \in disturbed')
    BY <2>1 DEF RunOK, SightOK, PointOK, Same, Upserting
  <2>2. CASE s \in disturbed'
    BY <2>2 DEF SightOK
  <2>3. CASE pc[s] = "idle"
    <3>1. s \notin loaded /\ scanned[s] = {} /\ indexed[s] = {}
      BY <2>3 DEF RunOK, InputOK, PlacesOK, Early
    <3> QED
      BY <3>1 DEF SightOK, PointOK, Same
  <2> QED
    BY <2>1, <2>2, <2>3 DEF Seen
<1> QED
  BY <1>1, <1>3, <1>4 DEF RunOK

(* A run that ends early leaves nothing to account for. *)
LEMMA EndsEarly ==
  ASSUME TypeOK, NEW r \in Runs, Forget(r), pc' = [pc EXCEPT ![r] = "aborted"]
  PROVE  RunOK(r)' /\ \A s \in Runs \ {r} : Same(s)
<1>1. /\ pc'[r] = "aborted" /\ r \notin loaded'
      /\ scanned'[r] = {} /\ indexed'[r] = {}
  BY DEF TypeOK, Forget
<1>2. InputOK(r)' /\ PlacesOK(r)' /\ SightOK(r)'
  BY <1>1 DEF InputOK, PlacesOK, SightOK, PointOK, Early, Late
<1>3. ASSUME NEW s \in Runs \ {r} PROVE Same(s)
  BY DEF TypeOK, Forget, Same
<1> QED
  BY <1>2, <1>3 DEF RunOK

(* A run that writes is seen by every other that has begun. *)
LEMMA WritesSeen ==
  ASSUME TypeOK, NEW r \in Runs, Writes(r) \/ UNCHANGED <<points, disturbed>>, view' = view
  PROVE  \A s \in Runs \ {r} : Seen(s)
BY DEF TypeOK, Writes, Seen

LEMMA IInvStep == IInv /\ [Next]_vars => IInv'
<1> SUFFICES ASSUME IInv, [Next]_vars PROVE IInv'
  OBVIOUS
<1>t. TypeOK /\ TypeOK'
  BY TypeStep DEF IInv
<1>i. \A s \in Runs : RunOK(s)
  BY DEF IInv
<1>o. ASSUME NEW r \in Runs, \A s \in Runs \ {r} : Same(s) /\ Seen(s), RunOK(r)' PROVE IInv'
  <2>1. ASSUME NEW s \in Runs PROVE RunOK(s)'
    <3>1. CASE s = r
      BY <3>1, <1>o
    <3>2. CASE s # r
      BY <3>2, <1>o, <1>i, OthersKeep
    <3> QED
      BY <3>1, <3>2
  <2> QED
    BY <2>1, <1>t DEF IInv
<1>1. ASSUME NEW x \in Ids, NEW row \in Row \cup {Absent}, ViewChanges(x, row) PROVE IInv'
  <2>1. ASSUME NEW s \in Runs PROVE Same(s) /\ Seen(s)
    BY <1>1, <1>t DEF ViewChanges, Same, Seen, input, progress
  <2> QED
    BY <2>1, <1>i, <1>t, OthersKeep DEF IInv
<1>2. ASSUME NEW r \in Runs, Start(r) PROVE IInv'
  <2>1. /\ pc[r] = "idle" /\ pc'[r] \in {"creating", "loading"}
        /\ UNCHANGED <<store, input, progress, disturbed>>
    BY <1>2, <1>t DEF Start, Goes, TypeOK
  <2>2. \A s \in Runs \ {r} : Same(s) /\ Seen(s)
    BY <1>2, <1>t DEF Start, Goes, TypeOK, Same, Seen, store, input, progress
  <2>3. RunOK(r)
    BY <1>i
  <2>4. RunOK(r)'
    BY <2>1, <2>3 DEF RunOK, InputOK, PlacesOK, SightOK, PointOK, Upserting, Early, Late,
       store, input, progress
  <2> QED
    BY <2>2, <2>4, <1>o
<1>3. ASSUME NEW r \in Runs, CreateCollection(r) PROVE IInv'
  <2>1. /\ pc[r] = "creating" /\ pc'[r] = "loading"
        /\ UNCHANGED <<view, points, input, progress, disturbed>>
    BY <1>3, <1>t DEF CreateCollection, Goes, TypeOK
  <2>2. \A s \in Runs \ {r} : Same(s) /\ Seen(s)
    BY <1>3, <1>t DEF CreateCollection, Goes, TypeOK, Same, Seen, input, progress
  <2>3. RunOK(r)
    BY <1>i
  <2>4. RunOK(r)'
    BY <2>1, <2>3 DEF RunOK, InputOK, PlacesOK, SightOK, PointOK, Upserting, Early, Late,
       input, progress
  <2> QED
    BY <2>2, <2>4, <1>o
<1>4. ASSUME NEW r \in Runs, CreateRefused(r) PROVE IInv'
  <2>1. Forget(r) /\ pc' = [pc EXCEPT ![r] = "aborted"] /\ UNCHANGED <<view, points, disturbed>>
    BY <1>4 DEF CreateRefused, Goes, store
  <2>2. \A s \in Runs \ {r} : Seen(s)
    BY <2>1 DEF Seen
  <2> QED
    BY <2>1, <2>2, <1>t, <1>o, EndsEarly
<1>5. ASSUME NEW r \in Runs, ReadRows(r) PROVE IInv'
  <2>1. /\ pc[r] = "loading" /\ rows'[r] = view
        /\ UNCHANGED <<store, pc, scanned, hashes, progress, disturbed>>
    BY <1>5, <1>t DEF ReadRows, TypeOK
  <2>2. \A s \in Runs \ {r} : Same(s) /\ Seen(s)
    BY <1>5, <1>t DEF ReadRows, TypeOK, Same, Seen, store, progress
  <2>3. RunOK(r)
    BY <1>i
  <2>4. indexed[r] = {} /\ batch[r] = {}
    BY <2>1, <2>3 DEF RunOK, PlacesOK, Early
  <2>5. InputOK(r)' /\ PlacesOK(r)'
    BY <2>1, <2>3 DEF RunOK, InputOK, PlacesOK, Early, Late, progress
  <2>6. SightOK(r)'
    BY <2>1, <2>3, <2>4 DEF RunOK, SightOK, PointOK, Upserting, store, progress
  <2> QED
    BY <2>2, <2>5, <2>6, <1>o DEF RunOK
<1>6. ASSUME NEW r \in Runs, NEW page \in SUBSET Ids, ScrollPage(r, page) PROVE IInv'
  <2>1. /\ pc[r] = "loading" /\ scanned'[r] = scanned[r] \cup page
        /\ UNCHANGED <<store, pc, loaded, rows, progress, disturbed>>
    BY <1>6, <1>t DEF ScrollPage, TypeOK
  <2>2. hashes'[r] = [x \in Ids |-> IF x \in page THEN points[x] ELSE hashes[r][x]]
    BY <1>6, <1>t DEF ScrollPage, TypeOK
  <2>3. \A s \in Runs \ {r} : Same(s) /\ Seen(s)
    BY <1>6, <1>t DEF ScrollPage, TypeOK, Same, Seen, store, progress
  <2>4. RunOK(r)
    BY <1>i
  <2>5. indexed[r] = {} /\ batch[r] = {}
    BY <2>1, <2>4 DEF RunOK, PlacesOK, Early
  <2>6. InputOK(r)' /\ PlacesOK(r)'
    BY <2>1, <2>4 DEF RunOK, InputOK, PlacesOK, Early, Late, progress
  <2>7. SightOK(r)'
    BY <2>1, <2>2, <2>4, <2>5 DEF RunOK, SightOK, PointOK, Upserting, store, progress
  <2> QED
    BY <2>3, <2>6, <2>7, <1>o DEF RunOK
<1>7. ASSUME NEW r \in Runs, FilterRows(r) PROVE IInv'
  <2>1. /\ pc[r] = "loading" /\ pc'[r] = "batching" /\ r \in loaded /\ scanned[r] = Ids
        /\ todo'[r] = RowsToIndex(r)
        /\ UNCHANGED <<store, input, batch, singles, indexed, errors, disturbed>>
    BY <1>7, <1>t DEF FilterRows, Goes, TypeOK
  <2>2. \A s \in Runs \ {r} : Same(s) /\ Seen(s)
    BY <1>7, <1>t DEF FilterRows, Goes, TypeOK, Same, Seen, store, input
  <2>3. RunOK(r)
    BY <1>i
  <2>4. batch[r] = {} /\ singles[r] = {} /\ indexed[r] = {} /\ errors[r] = {}
    BY <2>1, <2>3 DEF RunOK, PlacesOK, Early
  <2>5. RowsToIndex(r)' = RowsToIndex(r)
    BY <2>1 DEF RowsToIndex, ChangeKey, input
  <2>6. \A x \in Ids : OnePlace(r, x)'
    BY <2>1, <2>4, <2>5 DEF OnePlace
  <2>7. InputOK(r)' /\ PlacesOK(r)'
    BY <2>1, <2>4, <2>6 DEF InputOK, PlacesOK, Early, Late, input
  <2>8. SightOK(r)'
    BY <2>1, <2>3 DEF RunOK, SightOK, PointOK, Upserting, store, input
  <2> QED
    BY <2>2, <2>7, <2>8, <1>o DEF RunOK
<1>8. ASSUME NEW r \in Runs, NextBatch(r) PROVE IInv'
  <2>1. PICK rowsBatch \in Batches(r) : \E prepared \in SUBSET rowsBatch :
                                         NextBatchIs(r, rowsBatch, prepared)
    BY <1>8 DEF NextBatch, NextBatchIs
  <2>2. PICK prepared \in SUBSET rowsBatch : NextBatchIs(r, rowsBatch, prepared)
    BY <2>1
  <2>3. /\ pc[r] = "batching"
        /\ pc'[r] = IF prepared = {} THEN "batching" ELSE "embedding"
        /\ todo'[r] = todo[r] \ rowsBatch
        /\ batch'[r] = prepared
        /\ errors'[r] = errors[r] \cup (rowsBatch \ prepared)
        /\ rowsBatch \subseteq todo[r]
    BY <2>2, <1>t DEF NextBatchIs, Goes, TypeOK, Batches
  <2>4. UNCHANGED <<store, input, singles, indexed, disturbed>>
    BY <1>8 DEF NextBatch
  <2>5. \A s \in Runs \ {r} : Same(s) /\ Seen(s)
    BY <2>2, <2>4, <1>t DEF NextBatchIs, Goes, TypeOK, Same, Seen, store, input
  <2>6. RunOK(r)
    BY <1>i
  <2>7. RowsToIndex(r)' = RowsToIndex(r)
    BY <2>4 DEF RowsToIndex, ChangeKey, input
  <2>8. batch[r] = {} /\ singles[r] = {} /\ \A x \in Ids : OnePlace(r, x)
    BY <2>3, <2>6 DEF RunOK, PlacesOK, Late
  <2>9. ASSUME NEW x \in Ids PROVE OnePlace(r, x)'
    BY <2>3, <2>4, <2>7, <2>8 DEF OnePlace
  <2>10. InputOK(r)'
    BY <2>3, <2>4, <2>6 DEF RunOK, InputOK, Late, input
  <2>11. PlacesOK(r)'
    BY <2>3, <2>4, <2>8, <2>9 DEF PlacesOK, Early, Late
  <2>12. SightOK(r)'
    BY <2>3, <2>4, <2>6, <2>8 DEF RunOK, SightOK, PointOK, Upserting, store, input
  <2> QED
    BY <2>5, <2>10, <2>11, <2>12, <1>o DEF RunOK
<1>9. ASSUME NEW r \in Runs, Complete(r) PROVE IInv'
  <2>1. /\ pc[r] = "batching" /\ pc'[r] = "done" /\ todo[r] = {}
        /\ UNCHANGED <<store, input, progress, disturbed>>
    BY <1>9, <1>t DEF Complete, Goes, TypeOK
  <2>2. \A s \in Runs \ {r} : Same(s) /\ Seen(s)
    BY <1>9, <1>t DEF Complete, Goes, TypeOK, Same, Seen, store, input, progress
  <2>3. RunOK(r)
    BY <1>i
  <2>4. ASSUME NEW x \in Ids PROVE OnePlace(r, x)'
    <3>1. OnePlace(r, x)
      BY <2>1, <2>3 DEF RunOK, PlacesOK, Late
    <3>2. RowsToIndex(r)' = RowsToIndex(r)
      BY <2>1 DEF RowsToIndex, ChangeKey, input
    <3> QED
      BY <2>1, <3>1, <3>2 DEF OnePlace, progress
  <2>5. InputOK(r)' /\ PlacesOK(r)'
    BY <2>1, <2>3, <2>4 DEF RunOK, InputOK, PlacesOK, Early, Late, input, progress
  <2>6. SightOK(r)'
    BY <2>1, <2>3 DEF RunOK, SightOK, PointOK, Upserting, store, input, progress
  <2> QED
    BY <2>2, <2>5, <2>6, <1>o DEF RunOK
<1>10. ASSUME NEW r \in Runs, Embedded(r) PROVE IInv'
  <2>1. /\ \/ pc[r] = "embedding" /\ pc'[r] = "upserting"
           \/ pc[r] = "embedding one" /\ pc'[r] = "upserting one"
        /\ UNCHANGED <<store, input, todo, batch, singles, indexed, errors, disturbed>>
    BY <1>10, <1>t DEF Embedded, Goes, TypeOK
  <2>2. \A s \in Runs \ {r} : Same(s) /\ Seen(s)
    BY <1>10, <1>t DEF Embedded, Goes, TypeOK, Same, Seen, store, input
  <2>3. RunOK(r)
    BY <1>i
  <2>4. ASSUME NEW x \in Ids PROVE OnePlace(r, x)'
    <3>1. OnePlace(r, x)
      BY <2>1, <2>3 DEF RunOK, PlacesOK, Late
    <3>2. RowsToIndex(r)' = RowsToIndex(r)
      BY <2>1 DEF RowsToIndex, ChangeKey, input
    <3> QED
      BY <2>1, <3>1, <3>2 DEF OnePlace
  <2>5. InputOK(r)' /\ PlacesOK(r)'
    BY <2>1, <2>3, <2>4 DEF RunOK, InputOK, PlacesOK, Early, Late, input
  <2>6. SightOK(r)'
    BY <2>1, <2>3 DEF RunOK, SightOK, PointOK, Upserting, store, input
  <2> QED
    BY <2>2, <2>5, <2>6, <1>o DEF RunOK
<1>11. ASSUME NEW r \in Runs, EmbedBatchFails(r) PROVE IInv'
  <2>1. /\ pc[r] = "embedding" /\ pc'[r] = "falling back"
        /\ singles'[r] = batch[r] /\ batch'[r] = {}
        /\ UNCHANGED <<store, input, todo, indexed, errors, disturbed>>
    BY <1>11, <1>t DEF EmbedBatchFails, Goes, TypeOK
  <2>2. \A s \in Runs \ {r} : Same(s) /\ Seen(s)
    BY <1>11, <1>t DEF EmbedBatchFails, Goes, TypeOK, Same, Seen, store, input
  <2>3. RunOK(r)
    BY <1>i
  <2>4. singles[r] = {} /\ \A x \in Ids : OnePlace(r, x)
    BY <2>1, <2>3 DEF RunOK, PlacesOK, Late
  <2>5. RowsToIndex(r)' = RowsToIndex(r)
    BY <2>1 DEF RowsToIndex, ChangeKey, input
  <2>6. ASSUME NEW x \in Ids PROVE OnePlace(r, x)'
    BY <2>1, <2>4, <2>5 DEF OnePlace
  <2>7. InputOK(r)' /\ PlacesOK(r)'
    BY <2>1, <2>3, <2>6 DEF RunOK, InputOK, PlacesOK, Early, Late, input
  <2>8. SightOK(r)'
    BY <2>1, <2>3 DEF RunOK, SightOK, PointOK, Upserting, store, input
  <2> QED
    BY <2>2, <2>7, <2>8, <1>o DEF RunOK
<1>12. ASSUME NEW r \in Runs, NEW y \in Ids, NextSingle(r, y) PROVE IInv'
  <2>1. /\ pc[r] = "falling back" /\ pc'[r] = "embedding one"
        /\ y \in singles[r] /\ singles'[r] = singles[r] \ {y} /\ batch'[r] = {y}
        /\ UNCHANGED <<store, input, todo, indexed, errors, disturbed>>
    BY <1>12, <1>t DEF NextSingle, Goes, TypeOK
  <2>2. \A s \in Runs \ {r} : Same(s) /\ Seen(s)
    BY <1>12, <1>t DEF NextSingle, Goes, TypeOK, Same, Seen, store, input
  <2>3. RunOK(r)
    BY <1>i
  <2>4. batch[r] = {} /\ \A x \in Ids : OnePlace(r, x)
    BY <2>1, <2>3 DEF RunOK, PlacesOK, Late
  <2>5. RowsToIndex(r)' = RowsToIndex(r)
    BY <2>1 DEF RowsToIndex, ChangeKey, input
  <2>6. ASSUME NEW x \in Ids PROVE OnePlace(r, x)'
    BY <2>1, <2>4, <2>5 DEF OnePlace
  <2>7. InputOK(r)' /\ PlacesOK(r)'
    BY <2>1, <2>3, <2>6 DEF RunOK, InputOK, PlacesOK, Early, Late, input
  <2>8. SightOK(r)'
    BY <2>1, <2>3 DEF RunOK, SightOK, PointOK, Upserting, store, input
  <2> QED
    BY <2>2, <2>7, <2>8, <1>o DEF RunOK
<1>13. ASSUME NEW r \in Runs, EmbedOneFails(r) PROVE IInv'
  <2>1. /\ pc[r] = "embedding one"
        /\ \/ pc'[r] = "batching" /\ singles[r] = {}
           \/ pc'[r] = "falling back"
        /\ errors'[r] = errors[r] \cup batch[r] /\ batch'[r] = {}
        /\ UNCHANGED <<store, input, todo, singles, indexed, disturbed>>
    BY <1>13, <1>t DEF EmbedOneFails, AfterSingle, Goes, TypeOK
  <2>2. \A s \in Runs \ {r} : Same(s) /\ Seen(s)
    BY <1>13, <1>t DEF EmbedOneFails, Goes, TypeOK, Same, Seen, store, input
  <2>3. RunOK(r)
    BY <1>i
  <2>4. \A x \in Ids : OnePlace(r, x)
    BY <2>1, <2>3 DEF RunOK, PlacesOK, Late
  <2>5. RowsToIndex(r)' = RowsToIndex(r)
    BY <2>1 DEF RowsToIndex, ChangeKey, input
  <2>6. ASSUME NEW x \in Ids PROVE OnePlace(r, x)'
    BY <2>1, <2>4, <2>5 DEF OnePlace
  <2>7. InputOK(r)' /\ PlacesOK(r)'
    BY <2>1, <2>3, <2>6 DEF RunOK, InputOK, PlacesOK, Early, Late, input
  <2>8. SightOK(r)'
    BY <2>1, <2>3 DEF RunOK, SightOK, PointOK, Upserting, store, input
  <2> QED
    BY <2>2, <2>7, <2>8, <1>o DEF RunOK
<1>14. ASSUME NEW r \in Runs, Upserted(r) PROVE IInv'
  <2>1. /\ Upserting(r)
        /\ \/ pc'[r] = "batching" /\ singles[r] = {}
           \/ pc'[r] = "falling back"
        /\ indexed'[r] = indexed[r] \cup batch[r] /\ batch'[r] = {}
        /\ UNCHANGED <<view, input, todo, singles, errors>>
    <3>1. pc[r] = "upserting" => singles[r] = {}
      BY <1>i DEF RunOK, PlacesOK
    <3> QED
      BY <1>14, <1>t, <3>1 DEF Upserted, Upserting, AfterSingle, Goes, TypeOK
  <2>2. \A s \in Runs \ {r} : Same(s)
    BY <1>14, <1>t DEF Upserted, Goes, TypeOK, Same, input
  <2>3. \A s \in Runs \ {r} : Seen(s)
    BY <1>14, <1>t, WritesSeen DEF Upserted
  <2>4. RunOK(r)
    BY <1>i
  <2>5. pc[r] \in Late /\ \A x \in Ids : OnePlace(r, x)
    BY <2>1, <2>4 DEF RunOK, PlacesOK, Late, Upserting
  <2>6. RowsToIndex(r)' = RowsToIndex(r)
    BY <2>1 DEF RowsToIndex, ChangeKey, input
  <2>7. ASSUME NEW x \in Ids PROVE OnePlace(r, x)'
    BY <2>1, <2>5, <2>6 DEF OnePlace
  <2>8. InputOK(r)' /\ PlacesOK(r)'
    BY <2>1, <2>4, <2>5, <2>7 DEF RunOK, InputOK, PlacesOK, Early, Late, input
  <2>9. SightOK(r)'
    <3>1. r \in disturbed' <=> r \in disturbed
      BY <1>14 DEF Upserted, Writes
    <3>2. ASSUME NEW x \in Ids, PointOK(r, x) PROVE PointOK(r, x)'
      <4>1. points'[x] = IF x \in batch[r] THEN rows[r][x] ELSE points[x]
        BY <1>14 DEF Upserted, Writes, PointsOf
      <4> QED
        BY <2>1, <3>2, <4>1 DEF PointOK, input
    <3> QED
      BY <2>1, <2>4, <3>1, <3>2 DEF RunOK, SightOK, input
  <2> QED
    BY <2>2, <2>3, <2>8, <2>9, <1>o DEF RunOK
<1>15. ASSUME NEW r \in Runs, UpsertRetried(r) PROVE IInv'
  <2>1. Upserting(r) /\ UNCHANGED <<view, pc, input, todo, batch, singles, indexed, errors>>
    BY <1>15 DEF UpsertRetried
  <2>2. \A s \in Runs \ {r} : Same(s)
    BY <2>1 DEF Same, input
  <2>3. \A s \in Runs \ {r} : Seen(s)
    BY <1>15, <1>t, WritesSeen DEF UpsertRetried
  <2>4. RunOK(r)
    BY <1>i
  <2>5. RowsToIndex(r)' = RowsToIndex(r)
    BY <2>1 DEF RowsToIndex, ChangeKey, input
  <2>6. ASSUME NEW x \in Ids, OnePlace(r, x) PROVE OnePlace(r, x)'
    BY <2>1, <2>5, <2>6 DEF OnePlace
  <2>7. InputOK(r)' /\ PlacesOK(r)'
    BY <2>1, <2>4, <2>6 DEF RunOK, InputOK, PlacesOK, input
  <2>8. SightOK(r)'
    <3>1. r \in disturbed' <=> r \in disturbed
      BY <1>15 DEF UpsertRetried, Writes
    <3>2. ASSUME NEW x \in Ids, PointOK(r, x), OnePlace(r, x) PROVE PointOK(r, x)'
      <4>1. \/ points'[x] = IF x \in batch[r] THEN rows[r][x] ELSE points[x]
            \/ points'[x] = points[x]
        BY <1>15 DEF UpsertRetried, Writes, PointsOf
      <4> QED
        BY <2>1, <3>2, <4>1 DEF PointOK, OnePlace, Upserting, input
    <3>3. \A x \in Ids : OnePlace(r, x)
      BY <2>1, <2>4 DEF RunOK, PlacesOK, Upserting, Late
    <3> QED
      BY <2>1, <2>4, <3>1, <3>2, <3>3 DEF RunOK, SightOK, input
  <2> QED
    BY <2>2, <2>3, <2>7, <2>8, <1>o DEF RunOK
<1>16. ASSUME NEW r \in Runs, UpsertFails(r) PROVE IInv'
  <2>1. Forget(r) /\ pc' = [pc EXCEPT ![r] = "aborted"]
    BY <1>16 DEF UpsertFails
  <2>2. \A s \in Runs \ {r} : Seen(s)
    BY <1>16, <1>t, WritesSeen DEF UpsertFails
  <2> QED
    BY <2>1, <2>2, <1>t, <1>o, EndsEarly
<1>17. ASSUME NEW r \in Runs, Stops(r) PROVE IInv'
  <2>1. Forget(r) /\ pc' = [pc EXCEPT ![r] = "aborted"] /\ UNCHANGED <<view, points, disturbed>>
    BY <1>17 DEF Stops, store
  <2>2. \A s \in Runs \ {r} : Seen(s)
    BY <2>1 DEF Seen
  <2> QED
    BY <2>1, <2>2, <1>t, <1>o, EndsEarly
<1>18. CASE UNCHANGED vars
  <2>1. ASSUME NEW s \in Runs PROVE Same(s) /\ Seen(s)
    BY <1>18 DEF vars, store, input, progress, Same, Seen
  <2> QED
    BY <2>1, <1>i, <1>t, OthersKeep DEF IInv
<1> QED
  BY <1>1, <1>2, <1>3, <1>4, <1>5, <1>6, <1>7, <1>8, <1>9, <1>10, <1>11, <1>12, <1>13, <1>14,
     <1>15, <1>16, <1>17, <1>18 DEF Next, Step

LEMMA Invariance == Spec => []IInv
<1>1. Init => IInv
  BY IInvInit
<1>2. IInv /\ [Next]_vars => IInv'
  BY IInvStep
<1> QED
  BY <1>1, <1>2, PTL DEF Spec

----------------------------------------------------------------------------
(* The counts of a completed run add up: every row it read was skipped,    *)
(* indexed or counted as an error, and only one of the three.              *)
THEOREM Accounts == Spec => []EveryRowAccounted
<1>1. IInv => EveryRowAccounted
  <2> SUFFICES ASSUME IInv, NEW r \in Runs, pc[r] = "done"
               PROVE  /\ RowsRead(r) = Skipped(r) \cup indexed[r] \cup errors[r]
                      /\ indexed[r] \cap errors[r] = {}
                      /\ Skipped(r) \cap (indexed[r] \cup errors[r]) = {}
    BY DEF EveryRowAccounted
  <2>1. indexed[r] \subseteq Ids /\ errors[r] \subseteq Ids
    BY DEF IInv, TypeOK
  <2>2. RowsToIndex(r) \subseteq RowsRead(r) /\ RowsRead(r) \subseteq Ids
    BY DEF RowsToIndex, RowsRead
  <2>3. todo[r] = {} /\ batch[r] = {} /\ singles[r] = {} /\ \A x \in Ids : OnePlace(r, x)
    BY DEF IInv, RunOK, PlacesOK, Late
  <2>4. \A x \in Ids : /\ x \in RowsToIndex(r) <=> x \in indexed[r] \/ x \in errors[r]
                       /\ x \in indexed[r] => x \notin errors[r]
    BY <2>3 DEF OnePlace
  <2> QED
    BY <2>1, <2>2, <2>4 DEF Skipped
<1> QED
  BY <1>1, Invariance, PTL

(* A completed run that nothing disturbed leaves in the collection the     *)
(* text of every row, except of those it counted as errors.                *)
THEOREM Indexes == Spec => []CompletedRunIndexes
<1>1. IInv => CompletedRunIndexes
  <2> SUFFICES ASSUME IInv, NEW r \in Runs, pc[r] = "done", r \notin disturbed,
                      NEW x \in Ids \ errors[r], view[x] # Absent
               PROVE  ChangeKey(points[x]) = ChangeKey(view[x])
    BY DEF CompletedRunIndexes
  <2>1. /\ r \in loaded /\ scanned[r] = Ids /\ OnePlace(r, x)
        /\ todo[r] = {} /\ batch[r] = {} /\ singles[r] = {}
    BY DEF IInv, RunOK, InputOK, PlacesOK, Late
  <2>2. rows[r] = view /\ PointOK(r, x)
    BY <2>1 DEF IInv, RunOK, SightOK
  <2>3. CASE x \in indexed[r]
    BY <2>2, <2>3 DEF PointOK
  <2>4. CASE x \notin indexed[r]
    <3>1. points[x] = hashes[r][x] /\ x \notin RowsToIndex(r)
      BY <2>1, <2>2, <2>4 DEF PointOK, OnePlace
    <3> QED
      BY <2>2, <3>1 DEF RowsToIndex
  <2> QED
    BY <2>3, <2>4
<1> QED
  BY <1>1, Invariance, PTL

(* An undisturbed run embeds only texts the collection does not hold yet,  *)
(* whatever batch was taken apart and whatever upsert was retried.         *)
THEOREM EmbedsChanges == Spec => []EmbedsOnlyChanges
<1>1. IInv => EmbedsOnlyChanges
  <2> SUFFICES ASSUME IInv, NEW r \in Runs, pc[r] \in {"embedding", "embedding one"},
                      r \notin disturbed, NEW x \in batch[r]
               PROVE  ChangeKey(points[x]) # ChangeKey(view[x])
    BY DEF EmbedsOnlyChanges
  <2>1. x \in Ids
    BY DEF IInv, TypeOK
  <2>2. r \in loaded /\ scanned[r] = Ids /\ OnePlace(r, x)
    BY <2>1 DEF IInv, RunOK, InputOK, PlacesOK, Late
  <2>3. rows[r] = view /\ PointOK(r, x)
    BY <2>1, <2>2 DEF IInv, RunOK, SightOK
  <2>4. points[x] = hashes[r][x] /\ x \in RowsToIndex(r)
    BY <2>1, <2>2, <2>3 DEF PointOK, OnePlace, Upserting
  <2> QED
    BY <2>3, <2>4 DEF RowsToIndex
<1> QED
  BY <1>1, Invariance, PTL

----------------------------------------------------------------------------
(* The order of ranks, spelled out. *)
LEMMA Lexical ==
  ASSUME NEW a1, NEW a2, NEW a3, NEW a4, NEW a5, NEW a6, NEW a7,
         NEW b1, NEW b2, NEW b3, NEW b4, NEW b5, NEW b6, NEW b7,
         \/ a1 < b1
         \/ a1 = b1 /\ a2 < b2
         \/ a1 = b1 /\ a2 = b2 /\ a3 < b3
         \/ a1 = b1 /\ a2 = b2 /\ a3 = b3 /\ a4 < b4
         \/ a1 = b1 /\ a2 = b2 /\ a3 = b3 /\ a4 = b4 /\ a5 < b5
         \/ a1 = b1 /\ a2 = b2 /\ a3 = b3 /\ a4 = b4 /\ a5 = b5 /\ a6 < b6
         \/ a1 = b1 /\ a2 = b2 /\ a3 = b3 /\ a4 = b4 /\ a5 = b5 /\ a6 = b6 /\ a7 < b7
  PROVE  Before(<<a1, a2, a3, a4, a5, a6, a7>>, <<b1, b2, b3, b4, b5, b6, b7>>)
<1> DEFINE s == <<a1, a2, a3, a4, a5, a6, a7>>
           t == <<b1, b2, b3, b4, b5, b6, b7>>
<1>1. DOMAIN s = 1..7
  OBVIOUS
<1>2. /\ s[1] = a1 /\ s[2] = a2 /\ s[3] = a3 /\ s[4] = a4 /\ s[5] = a5 /\ s[6] = a6 /\ s[7] = a7
      /\ t[1] = b1 /\ t[2] = b2 /\ t[3] = b3 /\ t[4] = b4 /\ t[5] = b5 /\ t[6] = b6 /\ t[7] = b7
  OBVIOUS
<1> HIDE DEF s, t
<1>3. \E i \in 1..7 : s[i] < t[i] /\ \A j \in 1..(i - 1) : s[j] = t[j]
  <2>1. CASE a1 < b1
    BY <1>2, <2>1
  <2>2. CASE a1 = b1 /\ a2 < b2
    BY <1>2, <2>2
  <2>3. CASE a1 = b1 /\ a2 = b2 /\ a3 < b3
    BY <1>2, <2>3
  <2>4. CASE a1 = b1 /\ a2 = b2 /\ a3 = b3 /\ a4 < b4
    BY <1>2, <2>4
  <2>5. CASE a1 = b1 /\ a2 = b2 /\ a3 = b3 /\ a4 = b4 /\ a5 < b5
    BY <1>2, <2>5
  <2>6. CASE a1 = b1 /\ a2 = b2 /\ a3 = b3 /\ a4 = b4 /\ a5 = b5 /\ a6 < b6
    BY <1>2, <2>6
  <2>7. CASE a1 = b1 /\ a2 = b2 /\ a3 = b3 /\ a4 = b4 /\ a5 = b5 /\ a6 = b6 /\ a7 < b7
    BY <1>2, <2>7
  <2> QED
    BY <2>1, <2>2, <2>3, <2>4, <2>5, <2>6, <2>7
<1>4. Before(s, t)
  BY <1>1, <1>3 DEF Before
<1> QED
  BY <1>4 DEF s, t

(* Sets of rows get smaller. *)
LEMMA Smaller ==
  ASSUME NEW S \in SUBSET Ids, NEW T \in SUBSET S, T # S
  PROVE  Cardinality(T) \in Nat /\ Cardinality(S) \in Nat /\ Cardinality(T) < Cardinality(S)
<1>1. IsFiniteSet(S) /\ IsFiniteSet(T)
  BY IdsAssumption, FS_Subset
<1> QED
  BY <1>1, FS_Subset, FS_CardinalityType

(* A batch is never empty. *)
LEMMA BatchNotEmpty ==
  ASSUME TypeOK, NEW r \in Runs, todo[r] # {}
  PROVE  {} \notin Batches(r)
<1>1. Cardinality({}) = 0
  BY FS_EmptySet
<1> QED
  BY <1>1 DEF Batches

(* The parts of a rank that depend on the phase. *)
StageOf(phase) ==
  CASE phase = "creating" -> 3 [] phase = "loading" -> 2 [] phase \in {"done", "aborted"} -> 0
    [] OTHER -> 1
WholeOf(phase)  == IF phase \in {"embedding", "upserting"} THEN 1 ELSE 0
WithinOf(phase) ==
  CASE phase \in {"embedding", "embedding one"} -> 2
    [] phase \in {"upserting", "upserting one"} -> 1 [] OTHER -> 0

LEMMA Ranks ==
  /\ StageOf("creating") = 3 /\ StageOf("loading") = 2
  /\ StageOf("done") = 0 /\ StageOf("aborted") = 0
  /\ \A phase \in Late \ {"done"} : StageOf(phase) = 1
  /\ WholeOf("embedding") = 1 /\ WholeOf("upserting") = 1
  /\ \A phase \in {"batching", "falling back", "embedding one", "upserting one"} : WholeOf(phase) = 0
  /\ WithinOf("embedding") = 2 /\ WithinOf("embedding one") = 2
  /\ WithinOf("upserting") = 1 /\ WithinOf("upserting one") = 1
  /\ WithinOf("batching") = 0 /\ WithinOf("falling back") = 0
BY DEF StageOf, WholeOf, WithinOf, Late

LEMMA Drops ==
  /\ StageOf("loading") < StageOf("creating") /\ StageOf("aborted") < StageOf("creating")
  /\ StageOf("batching") < StageOf("loading") /\ StageOf("done") < StageOf("batching")
  /\ StageOf("aborted") < StageOf("upserting") /\ StageOf("aborted") < StageOf("upserting one")
  /\ WholeOf("falling back") < WholeOf("embedding") /\ WholeOf("batching") < WholeOf("upserting")
  /\ WithinOf("upserting") < WithinOf("embedding")
  /\ WithinOf("upserting one") < WithinOf("embedding one")
  /\ WithinOf("batching") < WithinOf("embedding one")
  /\ WithinOf("falling back") < WithinOf("embedding one")
  /\ WithinOf("batching") < WithinOf("upserting one")
  /\ WithinOf("falling back") < WithinOf("upserting one")
BY DEF StageOf, WholeOf, WithinOf

Unread(r) == Cardinality(Ids \ scanned[r]) + (IF r \in loaded THEN 0 ELSE 1)

LEMMA Lower ==
  ASSUME NEW r \in Runs,
         \/ StageOf(pc'[r]) < StageOf(pc[r])
         \/ /\ StageOf(pc'[r]) = StageOf(pc[r])
            /\ Unread(r)' < Unread(r)
         \/ /\ StageOf(pc'[r]) = StageOf(pc[r]) /\ UNCHANGED <<loaded, scanned>>
            /\ Cardinality(todo'[r]) < Cardinality(todo[r])
         \/ /\ StageOf(pc'[r]) = StageOf(pc[r]) /\ UNCHANGED <<loaded, scanned, todo>>
            /\ WholeOf(pc'[r]) < WholeOf(pc[r])
         \/ /\ StageOf(pc'[r]) = StageOf(pc[r]) /\ UNCHANGED <<loaded, scanned, todo>>
            /\ WholeOf(pc'[r]) = WholeOf(pc[r]) /\ Cardinality(singles'[r]) < Cardinality(singles[r])
         \/ /\ StageOf(pc'[r]) = StageOf(pc[r]) /\ UNCHANGED <<loaded, scanned, todo, singles>>
            /\ WholeOf(pc'[r]) = WholeOf(pc[r]) /\ WithinOf(pc'[r]) < WithinOf(pc[r])
         \/ /\ UNCHANGED <<pc, loaded, scanned, todo, singles>>
            /\ MaxAttempts - attempt'[r] < MaxAttempts - attempt[r]
  PROVE  Before(Rank(r)', Rank(r))
<1>1. Rank(r) = <<StageOf(pc[r]), Unread(r), Cardinality(todo[r]), WholeOf(pc[r]), Cardinality(singles[r]),
                  WithinOf(pc[r]), MaxAttempts - attempt[r]>>
  BY DEF Rank, StageOf, Unread, WholeOf, WithinOf, Upserting
<1>2. Rank(r)' = <<StageOf(pc'[r]), Unread(r)', Cardinality(todo'[r]), WholeOf(pc'[r]), Cardinality(singles'[r]),
                   WithinOf(pc'[r]), MaxAttempts - attempt'[r]>>
  BY DEF Rank, StageOf, Unread, WholeOf, WithinOf, Upserting
<1>3. UNCHANGED <<loaded, scanned>> => Unread(r)' = Unread(r)
  BY DEF Unread
<1>4. UNCHANGED pc => StageOf(pc'[r]) = StageOf(pc[r]) /\ WholeOf(pc'[r]) = WholeOf(pc[r]) /\ WithinOf(pc'[r]) = WithinOf(pc[r])
  OBVIOUS
<1>5. Before(<<StageOf(pc'[r]), Unread(r)', Cardinality(todo'[r]), WholeOf(pc'[r]), Cardinality(singles'[r]),
               WithinOf(pc'[r]), MaxAttempts - attempt'[r]>>,
             <<StageOf(pc[r]), Unread(r), Cardinality(todo[r]), WholeOf(pc[r]), Cardinality(singles[r]),
               WithinOf(pc[r]), MaxAttempts - attempt[r]>>)
  BY <1>3, <1>4, Lexical
<1> QED
  BY <1>1, <1>2, <1>5

LEMMA StepsDown ==
  ASSUME TypeOK, NEW r \in Runs, Step(r)
  PROVE  Before(Rank(r)', Rank(r))
<1>1. CASE CreateCollection(r)
  <2>1. pc[r] = "creating" /\ pc'[r] = "loading"
    BY <1>1 DEF CreateCollection, Goes, TypeOK
  <2>2. StageOf(pc'[r]) < StageOf(pc[r])
    BY <2>1, Drops
  <2> QED
    BY <2>2, Lower
<1>2. CASE CreateRefused(r)
  <2>1. pc[r] = "creating" /\ pc'[r] = "aborted"
    BY <1>2 DEF CreateRefused, Goes, TypeOK
  <2>2. StageOf(pc'[r]) < StageOf(pc[r])
    BY <2>1, Drops
  <2> QED
    BY <2>2, Lower
<1>3. CASE ReadRows(r)
  <2>1. pc[r] = "loading" /\ pc'[r] = "loading" /\ r \notin loaded /\ r \in loaded'
        /\ UNCHANGED scanned
    BY <1>3 DEF ReadRows
  <2>2. Cardinality(Ids \ scanned[r]) \in Nat
    BY IdsAssumption, FS_Difference, FS_CardinalityType
  <2>3. Unread(r)' < Unread(r)
    BY <2>1, <2>2 DEF Unread
  <2> QED
    BY <2>1, <2>3, Ranks, Lower
<1>4. ASSUME NEW page \in SUBSET Ids, ScrollPage(r, page) PROVE Before(Rank(r)', Rank(r))
  <2>1. pc[r] = "loading" /\ pc'[r] = "loading" /\ UNCHANGED loaded
        /\ page # {} /\ page \cap scanned[r] = {} /\ scanned'[r] = scanned[r] \cup page
    BY <1>4 DEF ScrollPage, TypeOK
  <2>2. /\ Cardinality(Ids \ scanned'[r]) \in Nat /\ Cardinality(Ids \ scanned[r]) \in Nat
        /\ Cardinality(Ids \ scanned'[r]) < Cardinality(Ids \ scanned[r])
    <3>1. Ids \ scanned'[r] # Ids \ scanned[r] /\ Ids \ scanned'[r] \subseteq Ids \ scanned[r]
      BY <2>1
    <3> QED
      BY <3>1, Smaller
  <2>3. Unread(r)' < Unread(r)
    BY <2>1, <2>2 DEF Unread
  <2> QED
    BY <2>1, <2>3, Ranks, Lower
<1>5. CASE FilterRows(r)
  <2>1. pc[r] = "loading" /\ pc'[r] = "batching"
    BY <1>5 DEF FilterRows, Goes, TypeOK
  <2>2. StageOf(pc'[r]) < StageOf(pc[r])
    BY <2>1, Drops
  <2> QED
    BY <2>2, Lower
<1>6. CASE NextBatch(r)
  <2>1. PICK rowsBatch \in Batches(r) : \E prepared \in SUBSET rowsBatch :
                                         NextBatchIs(r, rowsBatch, prepared)
    BY <1>6 DEF NextBatch, NextBatchIs
  <2>2. /\ pc[r] = "batching" /\ pc'[r] \in {"batching", "embedding"}
        /\ todo'[r] = todo[r] \ rowsBatch
    BY <2>1 DEF NextBatchIs, Goes, TypeOK
  <2>3. UNCHANGED <<loaded, scanned>>
    BY <1>6 DEF NextBatch, input
  <2>4. rowsBatch # {} /\ rowsBatch \subseteq todo[r]
    BY <1>6, BatchNotEmpty DEF NextBatch, Batches
  <2>5. Cardinality(todo'[r]) < Cardinality(todo[r])
    <3>1. todo[r] \in SUBSET Ids /\ todo'[r] \in SUBSET todo[r] /\ todo'[r] # todo[r]
      BY <2>2, <2>4 DEF TypeOK
    <3> QED
      BY <3>1, Smaller
  <2>6. StageOf(pc'[r]) = StageOf(pc[r])
    BY <2>2, Ranks, Drops DEF Late
  <2> QED
    BY <2>3, <2>5, <2>6, Lower
<1>7. CASE Complete(r)
  <2>1. pc[r] = "batching" /\ pc'[r] = "done"
    BY <1>7 DEF Complete, Goes, TypeOK
  <2>2. StageOf(pc'[r]) < StageOf(pc[r])
    BY <2>1, Drops
  <2> QED
    BY <2>2, Lower
<1>8. CASE Embedded(r)
  <2>1. /\ \/ pc[r] = "embedding" /\ pc'[r] = "upserting"
           \/ pc[r] = "embedding one" /\ pc'[r] = "upserting one"
        /\ UNCHANGED <<loaded, scanned, todo, singles>>
    BY <1>8 DEF Embedded, Goes, TypeOK, input
  <2>2. StageOf(pc'[r]) = StageOf(pc[r]) /\ WholeOf(pc'[r]) = WholeOf(pc[r]) /\ WithinOf(pc'[r]) < WithinOf(pc[r])
    BY <2>1, Ranks, Drops DEF Late
  <2> QED
    BY <2>1, <2>2, Lower
<1>9. CASE EmbedBatchFails(r)
  <2>1. pc[r] = "embedding" /\ pc'[r] = "falling back" /\ UNCHANGED <<loaded, scanned, todo>>
    BY <1>9 DEF EmbedBatchFails, Goes, TypeOK, input
  <2>2. StageOf(pc'[r]) = StageOf(pc[r]) /\ WholeOf(pc'[r]) < WholeOf(pc[r])
    BY <2>1, Ranks, Drops DEF Late
  <2> QED
    BY <2>1, <2>2, Lower
<1>10. ASSUME NEW x \in Ids, NextSingle(r, x) PROVE Before(Rank(r)', Rank(r))
  <2>1. /\ pc[r] = "falling back" /\ pc'[r] = "embedding one"
        /\ x \in singles[r] /\ singles'[r] = singles[r] \ {x}
        /\ UNCHANGED <<loaded, scanned, todo>>
    BY <1>10 DEF NextSingle, Goes, TypeOK, input
  <2>2. StageOf(pc'[r]) = StageOf(pc[r]) /\ WholeOf(pc'[r]) = WholeOf(pc[r])
    BY <2>1, Ranks, Drops DEF Late
  <2>3. Cardinality(singles'[r]) < Cardinality(singles[r])
    <3>1. singles[r] \in SUBSET Ids /\ singles'[r] \in SUBSET singles[r] /\ singles'[r] # singles[r]
      BY <2>1 DEF TypeOK
    <3> QED
      BY <3>1, Smaller
  <2> QED
    BY <2>1, <2>2, <2>3, Lower
<1>11. CASE EmbedOneFails(r)
  <2>1. /\ pc[r] = "embedding one" /\ pc'[r] \in {"batching", "falling back"}
        /\ UNCHANGED <<loaded, scanned, todo, singles>>
    BY <1>11 DEF EmbedOneFails, AfterSingle, Goes, TypeOK, input
  <2>2. StageOf(pc'[r]) = StageOf(pc[r]) /\ WholeOf(pc'[r]) = WholeOf(pc[r]) /\ WithinOf(pc'[r]) < WithinOf(pc[r])
    BY <2>1, Ranks, Drops DEF Late
  <2> QED
    BY <2>1, <2>2, Lower
<1>12. CASE Upserted(r)
  <2>1. /\ \/ pc[r] = "upserting" /\ pc'[r] = "batching"
           \/ pc[r] = "upserting one" /\ pc'[r] \in {"batching", "falling back"}
        /\ UNCHANGED <<loaded, scanned, todo, singles>>
    BY <1>12 DEF Upserted, AfterSingle, Goes, TypeOK, input
  <2>2. StageOf(pc'[r]) = StageOf(pc[r])
    BY <2>1, Ranks, Drops DEF Late
  <2>3. WholeOf(pc'[r]) < WholeOf(pc[r]) \/ (WholeOf(pc'[r]) = WholeOf(pc[r]) /\ WithinOf(pc'[r]) < WithinOf(pc[r]))
    BY <2>1, Ranks, Drops DEF Late
  <2> QED
    BY <2>1, <2>2, <2>3, Lower
<1>13. CASE UpsertRetried(r)
  <2>1. attempt[r] \in 1..MaxAttempts /\ attempt'[r] = attempt[r] + 1
    BY <1>13 DEF UpsertRetried, TypeOK
  <2>2. MaxAttempts - attempt'[r] < MaxAttempts - attempt[r]
    BY <2>1
  <2>3. UNCHANGED <<pc, loaded, scanned, todo, singles>>
    BY <1>13 DEF UpsertRetried, input
  <2> QED
    BY <2>2, <2>3, Lower
<1>14. CASE UpsertFails(r)
  <2>1. pc[r] \in {"upserting", "upserting one"} /\ pc'[r] = "aborted"
    BY <1>14 DEF UpsertFails, Upserting, TypeOK
  <2>2. StageOf(pc'[r]) < StageOf(pc[r])
    BY <2>1, Drops
  <2> QED
    BY <2>2, Lower
<1> QED
  BY <1>1, <1>2, <1>3, <1>4, <1>5, <1>6, <1>7, <1>8, <1>9, <1>10, <1>11, <1>12, <1>13, <1>14 DEF Step

(* Every step of a run brings it closer to its end, so that no run makes   *)
(* steps for ever, whatever the others do.                                 *)
THEOREM RunsOut == Spec => StepsRunOut
<1>1. TypeOK /\ [Next]_vars => [\A r \in Runs : Step(r) => Before(Rank(r)', Rank(r))]_vars
  BY StepsDown
<1>2. Spec => []TypeOK
  BY TypeCorrect
<1> QED
  BY <1>1, <1>2, PTL DEF Spec, StepsRunOut
============================================================================
