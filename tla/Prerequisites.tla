---------------------------- MODULE Prerequisites ----------------------------
(***************************************************************************)
(* The prerequisites of SessionsJobService (src/jobs/workers/sessions.     *)
(* worker.ts) and PrerequisiteService (src/prerequisite/prerequisite.      *)
(* service.ts): for every course of the timetable PDF of a program, the    *)
(* text of its prerequisites goes to its row of ProgramCourse, and, if the *)
(* text is a list of course codes, one row per code to the table           *)
(* Prerequisite.                                                           *)
(*                                                                         *)
(* What to delete and what to add is decided against the rows read first.  *)
(* Runs of different triggers overlap (see JobsPipeline), so every call to *)
(* the database is a step, and the PDFs and the courses of the programs    *)
(* change under the runs.                                                  *)
(***************************************************************************)
EXTENDS Naturals, FiniteSets

CONSTANTS
  Runs,      \* runs of the job: a bound
  Programs,  \* isHorairePdfParsable ones
  Scheduled, \* the courses the PDFs may list, by code
  Others,    \* the courses that are prerequisites only
  MaxChanges \* of the PDFs or of the programs' courses: a bound

AllCourses == Scheduled \cup Others
Pairs      == Programs \X Scheduled
Members    == Programs \X AllCourses

(* A text of prerequisites is the set of the codes it lists, empty when    *)
(* parsePrerequisiteString() gives null: nothing, or a part that is no     *)
(* code.  No PDF gives a course as its own prerequisite.                   *)
Texts   == {s \in [Pairs -> SUBSET AllCourses] : \A p \in Pairs : p[2] \notin s[p]}
NoTexts == [p \in Pairs |-> {}]

VARIABLES
  members,   \* rows of ProgramCourse (external: see CheminotSync)
  listed,    \* the courses in the programs' PDFs (external: see HoraireParser)
  says,      \* their prerequisites there
  changes,   \* how often these changed
  text,      \* unstructuredPrerequisite of the rows
  rows,      \* Prerequisite: the prerequisites of each row
  pc,        \* what each run is at
  programs,  \* the programs its loop has still to come to
  pdf,       \* the PDF it parsed: what it says of the courses it lists
  left,      \* the courses of the PDF still to come
  current,   \* the course it is at
  seen,      \* the prerequisites it read of the course
  toDelete,  \* of these, the ones still to delete
  toAdd,     \* the ones still to add
  adding,    \* the one addPrerequisiteIfNotExists() did not find
  refused,   \* programs given up because another run created a row (history)
  givenUp,   \* programs given up because a call failed (history)
  disturbed  \* runs overtaken by a change, or by a run with another PDF (history)

sources == <<members, listed, says, changes>>
tables  == <<text, rows>>
course  == <<current, seen, toDelete, toAdd, adding>>
history == <<refused, givenUp, disturbed>>
vars    == <<sources, tables, pc, programs, pdf, left, course, history>>

InProgram == {"next course", "text", "clearing", "deleting", "adding", "creating"}
Phase     == InProgram \cup {"idle", "next program", "hung", "done", "stopped"}

(* A row of Prerequisite has its two rows of ProgramCourse. *)
KeysHold ==
  \A p \in Pairs :
    /\ rows[p] \subseteq {c \in AllCourses : <<p[1], c>> \in members}
    /\ p \notin members => rows[p] = {} /\ text[p] = {}

Init ==
  /\ members \in SUBSET Members
  /\ listed \in SUBSET Pairs
  /\ says \in {s \in Texts : \A p \in Pairs \ listed : s[p] = {}}
  /\ changes = 0
  /\ text \in Texts
  /\ rows \in Texts
  /\ KeysHold
  /\ pc = [r \in Runs |-> "idle"]
  /\ programs = [r \in Runs |-> {}]
  /\ pdf = [r \in Runs |-> NoTexts]
  /\ left = [r \in Runs |-> {}]
  /\ current = [r \in Runs |-> {}]
  /\ seen = [r \in Runs |-> {}]
  /\ toDelete = [r \in Runs |-> {}]
  /\ toAdd = [r \in Runs |-> {}]
  /\ adding = [r \in Runs |-> {}]
  /\ refused = [r \in Runs |-> {}]
  /\ givenUp = [r \in Runs |-> {}]
  /\ disturbed = {}

Goes(r, here, there) ==
  /\ pc[r] = here
  /\ pc' = [pc EXCEPT ![r] = there]

----------------------------------------------------------------------------
(* Cheminot's job adds a course to a program, or a PDF is replaced.        *)
Change ==
  /\ changes < MaxChanges
  /\ changes' = changes + 1
  /\ disturbed' = {r \in Runs : pc[r] # "idle"}
  /\ UNCHANGED <<tables, pc, programs, pdf, left, course, refused, givenUp>>

MemberAdded(m) ==
  /\ Change
  /\ m \notin members
  /\ members' = members \cup {m}
  /\ UNCHANGED <<listed, says>>

PdfReplaced(p, codes) ==
  /\ Change
  /\ \/ codes # says[p] /\ listed' = listed \cup {p}
     \/ p \in listed /\ codes = {} /\ listed' = listed \ {p}
     \/ p \notin listed /\ codes = {} /\ listed' = listed \cup {p}
  /\ says' = [says EXCEPT ![p] = codes]
  /\ UNCHANGED members

----------------------------------------------------------------------------
Start(r) ==
  /\ Goes(r, "idle", "next program")
  /\ programs' = [programs EXCEPT ![r] = Programs]
  /\ UNCHANGED <<sources, tables, pdf, left, course, history>>

ReadPdf(r, g) ==
  /\ g \in programs[r]
  /\ Goes(r, "next program", "next course")
  /\ programs' = [programs EXCEPT ![r] = @ \ {g}]
  /\ pdf' = [pdf EXCEPT ![r] = says]
  /\ left' = [left EXCEPT ![r] = {p \in listed : p[1] = g}]
  /\ UNCHANGED <<sources, tables, course, history>>

(* A PDF that cannot be fetched, or whose processing throws, is logged;    *)
(* the program keeps its prerequisites.                                    *)
PdfFails(r, g) ==
  /\ pc[r] = "next program"
  /\ g \in programs[r]
  /\ programs' = [programs EXCEPT ![r] = @ \ {g}]
  /\ givenUp' = [givenUp EXCEPT ![r] = @ \cup {g}]
  /\ UNCHANGED <<sources, tables, pc, pdf, left, course, refused, disturbed>>

(* On a PDF that pdf2json cannot read, parsePdfBuffer() settles nothing.   *)
PdfHangs(r, g) ==
  /\ g \in programs[r]
  /\ Goes(r, "next program", "hung")
  /\ UNCHANGED <<sources, tables, programs, pdf, left, course, history>>

(* Mutant: only what the text replaces is deleted. *)
MutToDelete(r, p) == IF text[p] = pdf[r][p] THEN {} ELSE rows[p] \ pdf[r][p]

ToDelete(r, p) == rows[p] \ pdf[r][p]

(* getExistingCourse() and getProgramCourseWithPrerequisites(); a course   *)
(* the program does not have is skipped.                                   *)
LookUp(r, p) ==
  /\ pc[r] = "next course"
  /\ p \in left[r]
  /\ left' = [left EXCEPT ![r] = @ \ {p}]
  /\ IF p \in members
     THEN /\ pc' = [pc EXCEPT ![r] = IF text[p] # pdf[r][p] THEN "text"
                                     ELSE IF pdf[r][p] = {} THEN "clearing" ELSE "deleting"]
          /\ current' = [current EXCEPT ![r] = {p}]
          /\ seen' = [seen EXCEPT ![r] = rows[p]]
          /\ toDelete' = [toDelete EXCEPT ![r] = IF pdf[r][p] = {} THEN {} ELSE ToDelete(r, p)]
     ELSE UNCHANGED <<pc, current, seen, toDelete>>
  /\ UNCHANGED <<sources, tables, programs, pdf, toAdd, adding, history>>

(* A write of what the PDF no longer says disturbs the other runs.         *)
Disturbs(r, p) ==
  disturbed' = disturbed \cup
    {s \in Runs : s # r /\ pc[s] # "idle" /\ (pdf[r][p] # says[p] \/ p \notin listed)}

(* updateUnstructuredPrerequisite(), when the text read differs.           *)
UpdateText(r, p) ==
  /\ p \in current[r]
  /\ Goes(r, "text", IF pdf[r][p] = {} THEN "clearing" ELSE "deleting")
  /\ text' = [text EXCEPT ![p] = pdf[r][p]]
  /\ Disturbs(r, p)
  /\ UNCHANGED <<sources, rows, programs, pdf, left, course, refused, givenUp>>

CourseDone(r) ==
  /\ current' = [current EXCEPT ![r] = {}]
  /\ seen' = [seen EXCEPT ![r] = {}]

(* A text that is no list of codes leaves the course no prerequisite.      *)
DeleteAllPrerequisites(r, p) ==
  /\ p \in current[r]
  /\ Goes(r, "clearing", "next course")
  /\ rows' = [rows EXCEPT ![p] = {}]
  /\ Disturbs(r, p)
  /\ CourseDone(r)
  /\ UNCHANGED <<sources, text, programs, pdf, left, toDelete, toAdd, adding, refused, givenUp>>

(* deletePrerequisiteForProgramCourse() swallows its errors, the one of a  *)
(* row another run has deleted among them.                                 *)
DeletePrerequisite(r, p, c) ==
  /\ pc[r] = "deleting"
  /\ p \in current[r] /\ c \in toDelete[r]
  /\ toDelete' = [toDelete EXCEPT ![r] = @ \ {c}]
  /\ \/ rows' = [rows EXCEPT ![p] = @ \ {c}] /\ Disturbs(r, p) /\ UNCHANGED givenUp
     \/ givenUp' = [givenUp EXCEPT ![r] = @ \cup {p[1]}] /\ UNCHANGED <<rows, disturbed>>
  /\ UNCHANGED <<sources, text, pc, programs, pdf, left, current, seen, toAdd, adding, refused>>

(* addPrerequisiteIfNotExists() skips what the row had when it was read.   *)
ToAdd(r, p) == pdf[r][p] \ seen[r]

DeletesDone(r, p) ==
  /\ p \in current[r] /\ toDelete[r] = {}
  /\ Goes(r, "deleting", "adding")
  /\ toAdd' = [toAdd EXCEPT ![r] = ToAdd(r, p)]
  /\ UNCHANGED <<sources, tables, programs, pdf, left, current, seen, toDelete, adding, history>>

(* Mutant: the row is created without a look at the table. *)
MutIsMember(p, c) == <<p[1], c>> \in members
IsMissing(p, c) == <<p[1], c>> \in members /\ c \notin rows[p]

(* The prerequisite must be a course of the program too, and createPre-    *)
(* requisite() looks for the row once more.                                *)
LookForPrerequisite(r, p, c) ==
  /\ pc[r] = "adding"
  /\ p \in current[r] /\ c \in toAdd[r]
  /\ toAdd' = [toAdd EXCEPT ![r] = @ \ {c}]
  /\ IF IsMissing(p, c)
     THEN /\ pc' = [pc EXCEPT ![r] = "creating"]
          /\ adding' = [adding EXCEPT ![r] = {c}]
     ELSE UNCHANGED <<pc, adding>>
  /\ UNCHANGED <<sources, tables, programs, pdf, left, current, seen, toDelete, history>>

CreatePrerequisite(r, p, c) ==
  /\ p \in current[r] /\ c \in adding[r] \ rows[p]
  /\ Goes(r, "creating", "adding")
  /\ rows' = [rows EXCEPT ![p] = @ \cup {c}]
  /\ adding' = [adding EXCEPT ![r] = {}]
  /\ Disturbs(r, p)
  /\ UNCHANGED <<sources, text, programs, pdf, left, current, seen, toDelete, toAdd, refused, givenUp>>

AddsDone(r) ==
  /\ toAdd[r] = {}
  /\ Goes(r, "adding", "next course")
  /\ CourseDone(r)
  /\ UNCHANGED <<sources, tables, programs, pdf, left, toDelete, toAdd, adding, history>>

ProgramDone(r) ==
  /\ left[r] = {}
  /\ Goes(r, "next course", "next program")
  /\ UNCHANGED <<sources, tables, programs, pdf, left, course, history>>

(* An error ends the program, not the job.                                 *)
ForgetProgram(r) ==
  /\ left' = [left EXCEPT ![r] = {}]
  /\ toDelete' = [toDelete EXCEPT ![r] = {}]
  /\ toAdd' = [toAdd EXCEPT ![r] = {}]
  /\ adding' = [adding EXCEPT ![r] = {}]
  /\ CourseDone(r)

CreateRefused(r, p, c) ==
  /\ p \in current[r] /\ c \in adding[r] \cap rows[p]
  /\ Goes(r, "creating", "next program")
  /\ ForgetProgram(r)
  /\ refused' = [refused EXCEPT ![r] = @ \cup {p[1]}]
  /\ UNCHANGED <<sources, tables, programs, pdf, givenUp, disturbed>>

CallFails(r, p) ==
  /\ pc[r] \in InProgram
  /\ p \in IF pc[r] = "next course" THEN left[r] ELSE current[r]
  /\ pc' = [pc EXCEPT ![r] = "next program"]
  /\ ForgetProgram(r)
  /\ givenUp' = [givenUp EXCEPT ![r] = @ \cup {p[1]}]
  /\ UNCHANGED <<sources, tables, programs, pdf, refused, disturbed>>

JobDone(r) ==
  /\ programs[r] = {}
  /\ Goes(r, "next program", "done")
  /\ UNCHANGED <<sources, tables, programs, pdf, left, course, history>>

(* The thread of the run is killed.                                        *)
Stops(r) ==
  /\ pc[r] \in InProgram \cup {"next program", "hung"}
  /\ pc' = [pc EXCEPT ![r] = "stopped"]
  /\ programs' = [programs EXCEPT ![r] = {}]
  /\ ForgetProgram(r)
  /\ UNCHANGED <<sources, tables, pdf, history>>

CourseStep(r, p) ==
  \/ LookUp(r, p) \/ UpdateText(r, p) \/ DeleteAllPrerequisites(r, p) \/ DeletesDone(r, p)
  \/ CallFails(r, p)
  \/ \E c \in AllCourses : DeletePrerequisite(r, p, c) \/ LookForPrerequisite(r, p, c)
                        \/ CreatePrerequisite(r, p, c) \/ CreateRefused(r, p, c)

Step(r) ==
  \/ \E g \in Programs : ReadPdf(r, g) \/ PdfFails(r, g) \/ PdfHangs(r, g)
  \/ \E p \in Pairs : CourseStep(r, p)
  \/ AddsDone(r) \/ ProgramDone(r) \/ JobDone(r)

Next ==
  \/ \E m \in Members : MemberAdded(m)
  \/ \E p \in Pairs : \E codes \in SUBSET (AllCourses \ {p[2]}) : PdfReplaced(p, codes)
  \/ \E r \in Runs : Start(r) \/ Step(r) \/ Stops(r)

Spec == Init /\ [][Next]_vars
----------------------------------------------------------------------------
TypeOK ==
  /\ members \subseteq Members
  /\ listed \subseteq Pairs
  /\ says \in Texts
  /\ changes \in 0..MaxChanges
  /\ text \in Texts
  /\ rows \in Texts
  /\ KeysHold
  /\ pc \in [Runs -> Phase]
  /\ programs \in [Runs -> SUBSET Programs]
  /\ pdf \in [Runs -> Texts]
  /\ left \in [Runs -> SUBSET Pairs]
  /\ current \in [Runs -> SUBSET Pairs]
  /\ seen \in [Runs -> SUBSET AllCourses]
  /\ toDelete \in [Runs -> SUBSET AllCourses]
  /\ toAdd \in [Runs -> SUBSET AllCourses]
  /\ adding \in [Runs -> SUBSET AllCourses]
  /\ refused \in [Runs -> SUBSET Programs]
  /\ givenUp \in [Runs -> SUBSET Programs]
  /\ disturbed \subseteq Runs

(* A run that completes leaves each course of the PDFs it did not give up  *)
(* with the PDF's text and exactly its codes, of those the program has,    *)
(* whatever earlier runs left half done and although it decided against    *)
(* rows read before its first write: runs with the same PDF do not undo    *)
(* each other's work.                                                      *)
CompletedRunMatches ==
  \A r \in Runs : pc[r] = "done" /\ r \notin disturbed =>
    \A p \in listed \cap members : p[1] \notin refused[r] \cup givenUp[r] =>
      /\ text[p] = says[p]
      /\ rows[p] = {c \in says[p] : <<p[1], c>> \in members}

(* Overlapping runs that create the same rows refuse each other, but for   *)
(* no program all of them: one gets to its end, or something else ends it. *)
NotAllRefused ==
  \A g \in Programs : (\E r \in Runs : g \in refused[r]) =>
    \E s \in Runs : pc[s] # "idle" /\ g \notin refused[s]

(* Every step of a run brings it closer to its end, or to a PDF that hangs.*)
Stage(r) ==
  CASE pc[r] = "text" -> 3 [] pc[r] \in {"clearing", "deleting"} -> 2
    [] pc[r] \in {"adding", "creating"} -> 1 [] OTHER -> 0
Rank(r) ==
  << IF pc[r] \in InProgram \cup {"next program"} THEN 1 ELSE 0,
     Cardinality(programs[r]), IF pc[r] \in InProgram THEN 1 ELSE 0, Cardinality(left[r]),
     Stage(r), Cardinality(toDelete[r]), Cardinality(toAdd[r]), Cardinality(adding[r]) >>
Before(s, t) == \E i \in DOMAIN s : s[i] < t[i] /\ \A j \in 1..(i - 1) : s[j] = t[j]
StepsRunOut == [][\A r \in Runs : Step(r) => Before(Rank(r)', Rank(r))]_vars
============================================================================
