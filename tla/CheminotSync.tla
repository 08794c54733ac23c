---------------------------- MODULE CheminotSync ----------------------------
(***************************************************************************)
(* syncCourseDetailsWithCheminotData() of CoursesJobService (src/jobs/     *)
(* workers/courses.worker.ts): it gives every course of every program the  *)
(* type and the session Cheminot's file says, in the table ProgramCourse.  *)
(*                                                                         *)
(* A run decides against the rows it read before it parsed the file.  Runs *)
(* of different triggers overlap (see JobsPipeline), so every call to the  *)
(* database is a step, and the file, the programs and the courses change   *)
(* under the runs.                                                         *)
(***************************************************************************)
EXTENDS Naturals, FiniteSets

CONSTANTS
  Runs,      \* runs of the job: a bound
  Programs,  \* by id
  Courses,   \* by code
  Details,   \* a type and a typical session
  MaxChanges \* of the file, the programs or the courses: a bound

Pairs  == Programs \X Courses
Column == [Pairs -> Details \cup {"no row"}]
NoRows == [p \in Pairs |-> "no row"]
InTable(column) == {p \in Pairs : column[p] # "no row"}

VARIABLES
  programs,  \* rows of Program (external: see ProgramsJob)
  courses,   \* rows of Course (external: see CourseDescriptions)
  file,      \* what Cheminot's file says (external: see CheminotParser)
  changes,   \* how often these changed
  details,   \* ProgramCourse
  pc,        \* what each run is at
  known,     \* the programs it read
  snapshot,  \* their courses
  parsed,    \* the file it parsed
  left,      \* the pairs its loops have still to come to
  current,   \* the pair it is writing
  disturbed  \* runs overtaken by a change, or by a run with another file (history)

sources == <<programs, courses, file, changes>>
memory  == <<known, snapshot, parsed, left, current>>
vars    == <<sources, details, pc, memory, disturbed>>

Working == {"parsing", "matching", "updating", "creating"}
Phase   == Working \cup {"idle", "matched", "refused", "stopped"}

Init ==
  /\ programs \in SUBSET Programs
  /\ courses \in SUBSET Courses
  /\ file \in Column
  /\ changes = 0
  /\ details \in Column
  /\ InTable(details) \subseteq programs \X courses
  /\ pc = [r \in Runs |-> "idle"]
  /\ known = [r \in Runs |-> {}]
  /\ snapshot = [r \in Runs |-> NoRows]
  /\ parsed = [r \in Runs |-> NoRows]
  /\ left = [r \in Runs |-> {}]
  /\ current = [r \in Runs |-> {}]
  /\ disturbed = {}

Goes(r, here, there) ==
  /\ pc[r] = here
  /\ pc' = [pc EXCEPT ![r] = there]

----------------------------------------------------------------------------
(* Another job adds a program or a course, or Cheminot's file is replaced. *)
SourcesChange ==
  /\ changes < MaxChanges
  /\ changes' = changes + 1
  /\ \/ \E g \in Programs \ programs : programs' = programs \cup {g} /\ UNCHANGED <<courses, file>>
     \/ \E c \in Courses \ courses : courses' = courses \cup {c} /\ UNCHANGED <<programs, file>>
     \/ \E p \in Pairs, d \in Details \cup {"no row"} :
          /\ d # file[p]
          /\ file' = [file EXCEPT ![p] = d]
          /\ UNCHANGED <<programs, courses>>
  /\ disturbed' = {r \in Runs : pc[r] # "idle"}
  /\ UNCHANGED <<details, pc, memory>>

(* getAllProgramsWithCourses() *)
ReadPrograms(r) ==
  /\ Goes(r, "idle", "parsing")
  /\ known' = [known EXCEPT ![r] = programs]
  /\ snapshot' = [snapshot EXCEPT ![r] = details]
  /\ UNCHANGED <<sources, details, parsed, left, current, disturbed>>

(* A program the file does not have is listed in the log, and skipped.     *)
ParseFile(r) ==
  /\ Goes(r, "parsing", "matching")
  /\ parsed' = [parsed EXCEPT ![r] = file]
  /\ left' = [left EXCEPT ![r] = {p \in InTable(file) : p[1] \in known[r]}]
  /\ UNCHANGED <<sources, details, known, snapshot, current, disturbed>>

----------------------------------------------------------------------------
(* Mutant: a row is updated when its table, not its file, has changed. *)
MutHasChanged(r, p) == details[p] # snapshot[r][p]

(* hasProgramCourseChanged(), against the row read at the start.           *)
HasChanged(r, p) == parsed[r][p] # snapshot[r][p]

(* createProgramCourse() leaves a row it finds alone.                      *)
ToCreate(r, p) == snapshot[r][p] = "no row" /\ details[p] = "no row"
ToUpdate(r, p) == snapshot[r][p] # "no row" /\ HasChanged(r, p)

(* handleProgramCourseUpsertion(), up to its write.  A course that is not  *)
(* in the table is listed in the log, and skipped.                         *)
MatchCourse(r, p) ==
  /\ pc[r] = "matching"
  /\ p \in left[r]
  /\ left' = [left EXCEPT ![r] = @ \ {p}]
  /\ IF p[2] \in courses /\ (ToCreate(r, p) \/ ToUpdate(r, p))
     THEN /\ pc' = [pc EXCEPT ![r] = IF ToCreate(r, p) THEN "creating" ELSE "updating"]
          /\ current' = [current EXCEPT ![r] = {p}]
     ELSE UNCHANGED <<pc, current>>
  /\ UNCHANGED <<sources, details, known, snapshot, parsed, disturbed>>

(* A write of what the file no longer says disturbs the other runs.        *)
Writes(r, p) ==
  /\ details' = [details EXCEPT ![p] = parsed[r][p]]
  /\ disturbed' = disturbed \cup
       {s \in Runs : pc[s] # "idle" /\ s # r /\ parsed[r][p] # file[p]}
  /\ current' = [current EXCEPT ![r] = {}]
  /\ UNCHANGED <<sources, known, snapshot, parsed, left>>

UpdateProgramCourse(r, p) ==
  /\ p \in current[r]
  /\ Goes(r, "updating", "matching")
  /\ Writes(r, p)

CreateProgramCourse(r, p) ==
  /\ p \in current[r]
  /\ details[p] = "no row"
  /\ Goes(r, "creating", "matching")
  /\ Writes(r, p)

Forget(r) ==
  /\ known' = [known EXCEPT ![r] = {}]
  /\ snapshot' = [snapshot EXCEPT ![r] = NoRows]
  /\ parsed' = [parsed EXCEPT ![r] = NoRows]
  /\ left' = [left EXCEPT ![r] = {}]
  /\ current' = [current EXCEPT ![r] = {}]

(* Another run created the row since createProgramCourse() looked: the     *)
(* unique key refuses this one, and the job ends.                          *)
CreateRefused(r) ==
  /\ \E p \in current[r] : details[p] # "no row"
  /\ Goes(r, "creating", "refused")
  /\ Forget(r)
  /\ UNCHANGED <<sources, details, disturbed>>

MatchingDone(r) ==
  /\ left[r] = {}
  /\ Goes(r, "matching", "matched")
  /\ UNCHANGED <<sources, details, memory, disturbed>>

(* A call to the database or to Cheminot fails, or the thread is killed.   *)
Stops(r) ==
  /\ pc[r] \in Working
  /\ pc' = [pc EXCEPT ![r] = "stopped"]
  /\ Forget(r)
  /\ UNCHANGED <<sources, details, disturbed>>

Step(r) ==
  \/ ParseFile(r)
  \/ \E p \in Pairs : MatchCourse(r, p) \/ UpdateProgramCourse(r, p) \/ CreateProgramCourse(r, p)
  \/ CreateRefused(r) \/ MatchingDone(r)

Next == SourcesChange \/ \E r \in Runs : ReadPrograms(r) \/ Step(r) \/ Stops(r)

Spec == Init /\ [][Next]_vars

----------------------------------------------------------------------------
(* A row of ProgramCourse has its program and its course.                  *)
TypeOK ==
  /\ programs \subseteq Programs
  /\ courses \subseteq Courses
  /\ file \in Column
  /\ changes \in 0..MaxChanges
  /\ details \in Column
  /\ InTable(details) \subseteq programs \X courses
  /\ pc \in [Runs -> Phase]
  /\ known \in [Runs -> SUBSET Programs]
  /\ snapshot \in [Runs -> Column]
  /\ parsed \in [Runs -> Column]
  /\ left \in [Runs -> SUBSET Pairs]
  /\ current \in [Runs -> SUBSET Pairs]
  /\ disturbed \subseteq Runs

(* A run that completes has brought every course the file lists up to the  *)
(* file, although it decided against rows read at its start: overlapping   *)
(* runs that parsed the same file do each other no harm.                   *)
MatchedRunApplies ==
  \A r \in Runs : pc[r] = "matched" /\ r \notin disturbed =>
    \A p \in InTable(file) :
      p[1] \in programs /\ p[2] \in courses => details[p] = file[p]

(* Overlapping runs that create the same rows refuse each other, but never *)
(* all of them: one goes on to the end of the file.                        *)
NotAllRefused ==
  (\E r \in Runs : pc[r] = "refused") => \E s \in Runs : pc[s] \notin {"idle", "refused"}

(* Every step of a run brings it closer to its end.                        *)
Rank(r) ==
  << IF pc[r] = "parsing" THEN 1 ELSE 0,
     Cardinality(left[r]),
     CASE pc[r] \in {"updating", "creating"} -> 2 [] pc[r] = "matching" -> 1 [] OTHER -> 0 >>
Before(s, t) == \E i \in DOMAIN s : s[i] < t[i] /\ \A j \in 1..(i - 1) : s[j] = t[j]
StepsRunOut == [][\A r \in Runs : Step(r) => Before(Rank(r)', Rank(r))]_vars
============================================================================
