------------------------ MODULE CourseDescriptions ------------------------
(***************************************************************************)
(* The two jobs of CoursesJobService (src/jobs/workers/courses.worker.ts)  *)
(* that write the column Course.description.  processCourses() upserts     *)
(* what the ETS API lists, whose descriptions are truncated;               *)
(* syncCourseDescriptionsFromEtsWebsite() replaces them with the text of   *)
(* the course's page, and with PlanETS's where the page gives none.        *)
(*                                                                         *)
(* A run does one of the two, in a thread of its own; runs of different    *)
(* triggers overlap (see JobsPipeline).  Each call to a source or to the   *)
(* database is a step, and either may fail.                                *)
(***************************************************************************)
EXTENDS Naturals, FiniteSets

CONSTANTS
  Runs,     \* runs of either job: a bound
  Courses,  \* rows of the table Course, by code
  Pages,    \* the texts the website and PlanETS show
  BatchSize \* DESCRIPTION_SYNC_BATCH_SIZE

FromApi      == {"blank", "truncated"}
Descriptions == Pages \cup FromApi
Column       == [Courses -> Descriptions \cup {"no row"}]

VARIABLES
  description, \* the column, "no row" for a course not in the table
  pc,          \* what each run is at
  read,        \* what it read first: the API's list, or the column
  left,        \* the courses of its loop still to come
  current,     \* the courses it is writing
  texts,       \* what it writes to them
  pass,        \* of the sync: 1 the website, 2 PlanETS
  failed,      \* failedCourseCodes of the pass
  overtaken,   \* runs whose blank row a sync filled before they did (history)
  lost         \* courses whose page a backfill has overwritten (history)

memory  == <<read, left, current, texts, pass, failed>>
history == <<overtaken, lost>>
vars    == <<description, pc, memory, history>>

Upserting == {"upserting", "backfilling"}
Syncing   == {"asking", "writing"}
Phase     == Upserting \cup Syncing \cup {"idle", "upserted", "synced", "stopped"}

NoRows == [c \in Courses |-> "no row"]
InTable(column) == {c \in Courses : column[c] # "no row"}

Init ==
  /\ description \in Column
  /\ pc = [r \in Runs |-> "idle"]
  /\ read = [r \in Runs |-> NoRows]
  /\ left = [r \in Runs |-> {}]
  /\ current = [r \in Runs |-> {}]
  /\ texts = [r \in Runs |-> NoRows]
  /\ pass = [r \in Runs |-> 1]
  /\ failed = [r \in Runs |-> {}]
  /\ overtaken = {}
  /\ lost = {}

Goes(r, here, there) ==
  /\ pc[r] = here
  /\ pc' = [pc EXCEPT ![r] = there]

Write(column) ==
  description' = [c \in Courses |-> IF column[c] = "no row" THEN description[c] ELSE column[c]]

Only(courses, column) == [c \in Courses |-> IF c \in courses THEN column[c] ELSE "no row"]

----------------------------------------------------------------------------
(* fetchAllCoursesWithCredits() gives every course listed, or throws.      *)
FetchCourses(r, list) ==
  /\ Goes(r, "idle", "upserting")
  /\ InTable(list) # {}
  /\ read' = [read EXCEPT ![r] = list]
  /\ left' = [left EXCEPT ![r] = InTable(list)]
  /\ UNCHANGED <<description, current, texts, pass, failed, history>>

(* Mutant: the description is part of the update. *)
MutUpserted(r, c) == read[r][c]

(* A new row takes the API's description, an old one keeps its own.        *)
Upserted(r, c) == IF description[c] = "no row" THEN read[r][c] ELSE description[c]

(* Mutant: a row that was blank is left so. *)
MutToBackfill(r, c) == FALSE

ToBackfill(r, c) == Upserted(r, c) = "blank" /\ read[r][c] # "blank"

UpsertCourse(r, c) ==
  /\ pc[r] = "upserting"
  /\ c \in left[r]
  /\ description' = [description EXCEPT ![c] = Upserted(r, c)]
  /\ left' = [left EXCEPT ![r] = @ \ {c}]
  /\ IF ToBackfill(r, c)
     THEN /\ pc' = [pc EXCEPT ![r] = "backfilling"]
          /\ current' = [current EXCEPT ![r] = {c}]
     ELSE UNCHANGED <<pc, current>>
  /\ UNCHANGED <<read, texts, pass, failed, history>>

Backfill(r) ==
  /\ Goes(r, "backfilling", "upserting")
  /\ Write(Only(current[r], read[r]))
  /\ current' = [current EXCEPT ![r] = {}]
  /\ overtaken' = overtaken \ {r}
  /\ lost' = lost \cup {c \in current[r] : description[c] \in Pages}
  /\ UNCHANGED <<read, left, texts, pass, failed>>

UpsertsDone(r) ==
  /\ left[r] = {}
  /\ Goes(r, "upserting", "upserted")
  /\ UNCHANGED <<description, memory, history>>

----------------------------------------------------------------------------
(* getCoursesForDescriptionSync(): which courses have a page (cycle, code, *)
(* kind of program) is not modelled; any may.                              *)
ReadCourses(r, withPage) ==
  /\ Goes(r, "idle", "asking")
  /\ withPage \subseteq InTable(description)
  /\ read' = [read EXCEPT ![r] = Only(withPage, description)]
  /\ left' = [left EXCEPT ![r] = withPage]
  /\ UNCHANGED <<description, current, texts, pass, failed, history>>

(* Truncated descriptions come first; the second pass takes those the      *)
(* first one failed for, grouped by their errors.                          *)
Batches(r) ==
  {batch \in SUBSET left[r] :
     /\ \/ Cardinality(batch) = BatchSize
        \/ batch = left[r] /\ Cardinality(batch) < BatchSize
     /\ pass[r] = 1 => \A c \in batch, d \in left[r] \ batch :
                         read[r][d] = "truncated" => read[r][c] = "truncated"}

(* fetchCourseDescription() answers with a text, never an empty one, or    *)
(* throws: the page cannot be fetched, or holds no description.            *)
Fetched(answered) == [answered -> Pages]

(* The pages of a batch are fetched side by side; one that fails, fails    *)
(* its own course only.                                                    *)
FetchPages(r) ==
  /\ pc[r] = "asking"
  /\ left[r] # {}
  /\ \E batch \in Batches(r) : \E answered \in SUBSET batch : \E shown \in Fetched(answered) :
       LET changed == {c \in answered : shown[c] # read[r][c]}
       IN  /\ left' = [left EXCEPT ![r] = @ \ batch]
           /\ failed' = [failed EXCEPT ![r] = @ \cup (batch \ answered)]
           /\ current' = [current EXCEPT ![r] = changed]
           /\ texts' = [texts EXCEPT ![r] =
                          [c \in Courses |-> IF c \in changed THEN shown[c] ELSE "no row"]]
           /\ pc' = [pc EXCEPT ![r] = IF changed = {} THEN "asking" ELSE "writing"]
  /\ UNCHANGED <<description, read, pass, history>>

(* updateCourseDescriptionsBatch(): one transaction for the batch.         *)
WriteDescriptions(r) ==
  /\ Goes(r, "writing", "asking")
  /\ Write(texts[r])
  /\ overtaken' = overtaken \cup
       {s \in Runs : pc[s] = "backfilling" /\ current[s] \cap current[r] # {}}
  /\ lost' = lost \ current[r]
  /\ current' = [current EXCEPT ![r] = {}]
  /\ texts' = [texts EXCEPT ![r] = NoRows]
  /\ UNCHANGED <<read, left, pass, failed>>

(* Mutant: as many passes as there are failures. *)
MutRetryAgain(r) ==
  /\ pc[r] = "asking" /\ left[r] = {} /\ failed[r] # {}
  /\ left' = [left EXCEPT ![r] = failed[r]]
  /\ failed' = [failed EXCEPT ![r] = {}]
  /\ UNCHANGED <<description, pc, read, current, texts, pass, history>>

RetryFailed(r) ==
  /\ pc[r] = "asking" /\ left[r] = {} /\ failed[r] # {}
  /\ pass[r] = 1
  /\ left' = [left EXCEPT ![r] = failed[r]]
  /\ failed' = [failed EXCEPT ![r] = {}]
  /\ pass' = [pass EXCEPT ![r] = 2]
  /\ UNCHANGED <<description, pc, read, current, texts, history>>

(* Mutant: the job ends after the website. *)
MutSyncDone(r) ==
  /\ left[r] = {}
  /\ Goes(r, "asking", "synced")
  /\ failed' = [failed EXCEPT ![r] = {}]
  /\ UNCHANGED <<description, read, left, current, texts, pass, history>>

SyncDone(r) ==
  /\ left[r] = {}
  /\ failed[r] = {} \/ pass[r] = 2
  /\ Goes(r, "asking", "synced")
  /\ UNCHANGED <<description, memory, history>>

----------------------------------------------------------------------------
(* A call to the API or to the database fails, or the thread of the run is *)
(* killed, which ends the run and its memory; what it wrote stays.         *)
Stops(r) ==
  /\ pc[r] \in Upserting \cup Syncing
  /\ pc' = [pc EXCEPT ![r] = "stopped"]
  /\ read' = [read EXCEPT ![r] = NoRows]
  /\ left' = [left EXCEPT ![r] = {}]
  /\ current' = [current EXCEPT ![r] = {}]
  /\ texts' = [texts EXCEPT ![r] = NoRows]
  /\ pass' = [pass EXCEPT ![r] = 1]
  /\ failed' = [failed EXCEPT ![r] = {}]
  /\ overtaken' = overtaken \ {r}
  /\ UNCHANGED <<description, lost>>

Step(r) ==
  \/ (\E c \in Courses : UpsertCourse(r, c)) \/ Backfill(r) \/ UpsertsDone(r)
  \/ FetchPages(r) \/ WriteDescriptions(r) \/ RetryFailed(r) \/ SyncDone(r)

Start(r) ==
  \/ \E list \in [Courses -> FromApi \cup {"no row"}] : FetchCourses(r, list)
  \/ \E withPage \in SUBSET Courses : ReadCourses(r, withPage)

Next == \E r \in Runs : Start(r) \/ Step(r) \/ Stops(r)

Spec == Init /\ [][Next]_vars
----------------------------------------------------------------------------
TypeOK ==
  /\ description \in Column
  /\ pc \in [Runs -> Phase]
  /\ read \in [Runs -> Column]
  /\ left \in [Runs -> SUBSET Courses]
  /\ current \in [Runs -> SUBSET Courses]
  /\ texts \in [Runs -> [Courses -> Pages \cup {"no row"}]]
  /\ pass \in [Runs -> {1, 2}]
  /\ failed \in [Runs -> SUBSET Courses]
  /\ overtaken \subseteq Runs
  /\ lost \subseteq Courses

(* "The API truncates it and would clobber the website scrape on every     *)
(* run", says upsertCourses(), which is why it updates no description.  It *)
(* overwrites a page's text in one case only: a sync wrote it between the  *)
(* upsert that found the row blank and the backfill.                       *)
PageLostOnlyInRace ==
  [][\A c \in Courses : description[c] \in Pages /\ description'[c] \notin Pages =>
       \E r \in overtaken : pc[r] = "backfilling" /\ c \in current[r]]_vars

(* When processCourses() completes, the table has every course the API     *)
(* listed, blank only where the API has nothing either.                    *)
ListedAreDescribed ==
  \A r \in Runs : pc[r] = "upserted" =>
    \A c \in InTable(read[r]) :
      /\ description[c] # "no row"
      /\ read[r][c] # "blank" => description[c] # "blank"

(* When a sync completes, every course it took on shows the text of a page *)
(* unless both sources failed, or a backfill overwrote the text: a batch   *)
(* with failures still writes the others, and what equals the text it read *)
(* needs no write although other runs write meanwhile.                     *)
SyncedShowPages ==
  \A r \in Runs : pc[r] = "synced" =>
    \A c \in InTable(read[r]) \ (failed[r] \cup lost) : description[c] \in Pages

(* Every step of a run brings it closer to its end: the pass over the      *)
(* failures comes once.                                                    *)
Rank(r) ==
  << IF pc[r] \in Upserting \cup Syncing THEN 3 - pass[r] ELSE 0,
     Cardinality(left[r]),
     CASE pc[r] \in {"backfilling", "writing"} -> 2 [] pc[r] \in {"upserting", "asking"} -> 1 [] OTHER -> 0 >>
Before(s, t) == \E i \in DOMAIN s : s[i] < t[i] /\ \A j \in 1..(i - 1) : s[j] = t[j]
StepsRunOut == [][\A r \in Runs : Step(r) => Before(Rank(r)', Rank(r))]_vars
============================================================================
