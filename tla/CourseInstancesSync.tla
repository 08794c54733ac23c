------------------------ MODULE CourseInstancesSync ------------------------
(***************************************************************************)
(* CourseInstancesJobService (src/jobs/workers/course-instances.worker.ts) *)
(* over the CourseInstance table (src/course-instance/                     *)
(* course-instance.service.ts): read the planification PDF of every        *)
(* program, build the instances they require, take a snapshot of the       *)
(* table, create or update what is required, delete the rest.              *)
(*                                                                         *)
(* Every database call is a step: there is no transaction, and runs of the *)
(* job started by different triggers (see JobsPipeline) interleave.  A row *)
(* that appeared or vanished since the snapshot makes the call throw,      *)
(* which ends the job.                                                     *)
(***************************************************************************)
EXTENDS Naturals

CONSTANTS
  Runs,        \* runs of the job: a bound
  Programs,    \* programs with one code and a parsable planification PDF
  Keys,        \* (course, session) pairs a PDF may list
  KnownKeys,   \* those whose course is in the Course table
  Avails,      \* availabilities a PDF may give
  Absent,      \* no row, or a pair a PDF does not list
  Invalid,     \* an availability code parseAvailability() refuses
  Unread,      \* a PDF a run has not read
  Failed,      \* a PDF whose fetch or processing threw
  Pending,     \* a PDF pdf2json refused: its parse never settles
  MaxChanges   \* how often the published PDFs may change: a bound

ASSUME KeysAssumption == KnownKeys \subseteq Keys
ASSUME MaxChangesAssumption == MaxChanges \in Nat
ASSUME ValuesAssumption ==
  Absent # Invalid /\ Absent \notin Avails /\ Invalid \notin Avails

Row         == Avails \cup {Absent}
Publication == [Keys -> Avails \cup {Absent, Invalid}]

ASSUME ParsedAssumption ==
  /\ {Unread, Failed, Pending} \cap Publication = {}
  /\ Pending \notin {Unread, Failed}

VARIABLES
  table,      \* the CourseInstance table
  published,  \* the PDFs of the ETS website (external)
  changes,    \* how often they changed
  phase,      \* of each run: idle | reading | syncing | done | aborted | dead
  parsed,     \* allParsedData, by program
  required,   \* requiredInstancesMap
  left,       \* the required keys the loop has not reached
  existing,   \* existingInstancesMap: the snapshot, less what was processed
  overlap     \* the runs that were under way during this one (history)

run  == <<phase, parsed, required, left, existing, overlap>>
vars == <<table, published, changes, run>>

Active(r) == phase[r] \in {"reading", "syncing"}

Init ==
  /\ table \in [Keys -> Row]
  /\ \A k \in Keys \ KnownKeys : table[k] = Absent
  /\ published \in [Programs -> Publication]
  /\ changes = 0
  /\ phase = [r \in Runs |-> "idle"]
  /\ parsed = [r \in Runs |-> [p \in Programs |-> Unread]]
  /\ required = [r \in Runs |-> [k \in Keys |-> Absent]]
  /\ left = [r \in Runs |-> {}]
  /\ existing = [r \in Runs |-> [k \in Keys |-> Absent]]
  /\ overlap = [r \in Runs |-> {}]

----------------------------------------------------------------------------
(* The school republishes a PDF (external). *)
Publish(p) ==
  /\ changes < MaxChanges
  /\ changes' = changes + 1
  /\ \E pdf \in Publication : published' = [published EXCEPT ![p] = pdf]
  /\ UNCHANGED <<table, run>>

----------------------------------------------------------------------------
(* processCourseInstances(): seed the flags, fetch the programs. *)
Begin(r) ==
  /\ phase[r] = "idle"
  /\ phase' = [phase EXCEPT ![r] = "reading"]
  /\ LET others == {s \in Runs : Active(s)}
     IN  overlap' = [s \in Runs |-> IF s = r THEN others
                                    ELSE IF s \in others THEN overlap[s] \cup {r}
                                    ELSE overlap[s]]
  /\ UNCHANGED <<table, published, changes, parsed, required, left, existing>>

(* Mutants: invalid codes are not filtered out; the map is built anew for  *)
(* each program.                                                           *)
MutOverridden(r, pdf) ==
  [k \in Keys |-> IF k \in KnownKeys /\ pdf[k] # Absent THEN pdf[k] ELSE required[r][k]]
MutLastProgram(r, pdf) ==
  [k \in Keys |-> IF k \in KnownKeys /\ pdf[k] \in Avails THEN pdf[k] ELSE Absent]

(* A later program overrides an earlier one; the order in which the        *)
(* programs are fetched is the database's.  Pairs of unknown courses and   *)
(* invalid codes are skipped.                                              *)
Overridden(r, pdf) ==
  [k \in Keys |-> IF k \in KnownKeys /\ pdf[k] \in Avails THEN pdf[k] ELSE required[r][k]]

(* The programs are read one after the other, each PDF awaited.            *)
Hangs(r)    == \E p \in Programs : parsed[r][p] = Pending
Reads(r, p) == phase[r] = "reading" /\ parsed[r][p] = Unread /\ ~Hangs(r)

ParseProgram(r, p) ==
  /\ Reads(r, p)
  /\ parsed' = [parsed EXCEPT ![r][p] = published[p]]
  /\ required' = [required EXCEPT ![r] = Overridden(r, published[p])]
  /\ UNCHANGED <<table, published, changes, phase, left, existing, overlap>>

YieldsNothing(r, p, outcome) ==
  /\ Reads(r, p)
  /\ parsed' = [parsed EXCEPT ![r][p] = outcome]
  /\ UNCHANGED <<table, published, changes, phase, required, left, existing, overlap>>

(* A PDF that cannot be fetched, or whose processing throws, is logged.    *)
ParseFails(r, p) == YieldsNothing(r, p, Failed)

(* On a PDF that pdf2json cannot read, parsePdfBuffer() logs the error and *)
(* settles nothing: the job awaits that PDF for ever.                      *)
ParseHangs(r, p) == YieldsNothing(r, p, Pending)

FetchExistingInstances(r) ==
  /\ phase[r] = "reading"
  /\ \A p \in Programs : parsed[r][p] \notin {Unread, Pending}
  /\ phase' = [phase EXCEPT ![r] = "syncing"]
  /\ existing' = [existing EXCEPT ![r] = table]
  /\ left' = [left EXCEPT ![r] = {k \in Keys : required[r][k] # Absent}]
  /\ UNCHANGED <<table, published, changes, parsed, required, overlap>>

(* One iteration of processRequiredInstances(), and one of                 *)
(* deleteObsoleteInstances(), each with its database call.                 *)
MarkProcessed(r, k) == existing' = [existing EXCEPT ![r][k] = Absent]
Write(k, row)       == table' = [table EXCEPT ![k] = row]

(* Mutant: a pair listed by two PDFs is processed again. *)
MutNextRequired(r, k) ==
  /\ phase[r] = "syncing"
  /\ k \in left[r]
  /\ UNCHANGED <<left, published, changes, phase, parsed, required, overlap>>

NextRequired(r, k) ==
  /\ phase[r] = "syncing"
  /\ k \in left[r]
  /\ left' = [left EXCEPT ![r] = @ \ {k}]
  /\ UNCHANGED <<published, changes, phase, parsed, required, overlap>>

(* Mutant: a row that is kept is not marked as processed. *)
MutKeepUnmarked(r, k) ==
  /\ NextRequired(r, k)
  /\ existing[r][k] = required[r][k]
  /\ UNCHANGED <<existing, table>>

KeepInstance(r, k) ==
  /\ NextRequired(r, k)
  /\ existing[r][k] = required[r][k]
  /\ MarkProcessed(r, k)
  /\ UNCHANGED table

UpdateInstance(r, k) ==
  /\ NextRequired(r, k)
  /\ existing[r][k] \notin {Absent, required[r][k]}
  /\ table[k] # Absent
  /\ Write(k, required[r][k])
  /\ MarkProcessed(r, k)

CreateInstance(r, k) ==
  /\ NextRequired(r, k)
  /\ existing[r][k] = Absent
  /\ table[k] = Absent
  /\ Write(k, required[r][k])
  /\ UNCHANGED existing

Obsolete(r, k) ==
  /\ phase[r] = "syncing"
  /\ left[r] = {}
  /\ existing[r][k] # Absent

DeleteInstance(r, k) ==
  /\ Obsolete(r, k)
  /\ table[k] # Absent
  /\ Write(k, Absent)
  /\ MarkProcessed(r, k)
  /\ UNCHANGED <<published, changes, phase, parsed, required, left, overlap>>

(* Mutant: the delete of a missing row is retried. *)
MutCallThrows(r, k) ==
  /\ k \in left[r]
  /\ \/ existing[r][k] \notin {Absent, required[r][k]} /\ table[k] = Absent
     \/ existing[r][k] = Absent /\ table[k] # Absent

(* update() or delete() of a row that is gone, create() of one that is     *)
(* there: the call throws and nobody catches it before the job runner.     *)
CallThrows(r, k) ==
  \/ /\ k \in left[r]
     /\ \/ existing[r][k] \notin {Absent, required[r][k]} /\ table[k] = Absent
        \/ existing[r][k] = Absent /\ table[k] # Absent
  \/ Obsolete(r, k) /\ table[k] = Absent

Stop(r, how) ==
  /\ phase' = [phase EXCEPT ![r] = how]
  /\ UNCHANGED <<table, published, changes, parsed, required, left, existing, overlap>>

Abort(r) ==
  /\ phase[r] = "syncing"
  /\ \E k \in Keys : CallThrows(r, k)
  /\ Stop(r, "aborted")

Finish(r) ==
  /\ phase[r] = "syncing"
  /\ left[r] = {}
  /\ \A k \in Keys : existing[r][k] = Absent
  /\ Stop(r, "done")

(* The worker thread of the run dies, or the process is restarted. *)
ThreadDies(r) == Active(r) /\ Stop(r, "dead")

----------------------------------------------------------------------------
Step(r) ==
  \/ Begin(r)
  \/ \E p \in Programs : ParseProgram(r, p) \/ ParseFails(r, p) \/ ParseHangs(r, p)
  \/ FetchExistingInstances(r)
  \/ \E k \in Keys : \/ KeepInstance(r, k)
                     \/ UpdateInstance(r, k)
                     \/ CreateInstance(r, k)
                     \/ DeleteInstance(r, k)
  \/ Abort(r)
  \/ Finish(r)

Next ==
  \/ \E p \in Programs : Publish(p)
  \/ \E r \in Runs : Step(r) \/ ThreadDies(r)

Spec     == Init /\ [][Next]_vars
FairSpec == Spec /\ \A r \in Runs : WF_vars(Step(r))

----------------------------------------------------------------------------
TypeOK ==
  /\ table \in [Keys -> Row]
  /\ published \in [Programs -> Publication]
  /\ changes \in 0..MaxChanges
  /\ phase \in [Runs -> {"idle", "reading", "syncing", "done", "aborted", "dead"}]
  /\ parsed \in [Runs -> [Programs -> Publication \cup {Unread, Failed, Pending}]]
  /\ required \in [Runs -> [Keys -> Row]]
  /\ left \in [Runs -> SUBSET Keys]
  /\ existing \in [Runs -> [Keys -> Row]]
  /\ overlap \in [Runs -> SUBSET Runs]

(* The availabilities that the PDFs a run could read give for a pair.      *)
Listed(r, k) ==
  IF k \notin KnownKeys THEN {}
  ELSE {parsed[r][p][k] : p \in {q \in Programs : parsed[r][q] \in Publication}}
         \cap Avails

(* A run ends with the table the PDFs call for: a row for exactly the      *)
(* listed pairs, with an availability some PDF gives.  This is so whatever *)
(* an earlier run that aborted or died left in the table, and even if      *)
(* another run worked beside it, provided that the other run had read the  *)
(* same and the PDFs do not contradict each other.                         *)
Agree(r, s) ==
  \A k \in Keys : /\ Listed(r, k) = Listed(s, k)
                  /\ \A a, b \in Listed(r, k) : a = b
Undisturbed(r) ==
  \A s \in overlap[r] : phase[s] # "reading" => Agree(r, s)
ConvergesToPdfs ==
  [][\A r \in Runs : Finish(r) /\ Undisturbed(r) =>
       \A k \in Keys : IF Listed(r, k) = {} THEN table[k] = Absent
                                            ELSE table[k] \in Listed(r, k)]_vars

(* No run deletes a row that one of the PDFs it read lists, whatever other *)
(* runs do to the table meanwhile.                                         *)
DeletesOnlyUnlisted ==
  [][\A r \in Runs, k \in Keys :
       DeleteInstance(r, k) => Listed(r, k) = {}]_vars

(* A run that has the table to itself never trips over its own snapshot:   *)
(* it takes another run to make one of its calls throw.                    *)
AbortsOnlyOnOverlap ==
  \A r \in Runs : phase[r] = "aborted" => overlap[r] # {}

(* "This pipeline keeps PlanifETS academic data in sync with external ETS  *)
(* sources" (docs/jobs/jobs-pipeline.md): an instance that a published PDF *)
(* lists is not deleted.                                                   *)
PublishedRowsStay ==
  [][\A r \in Runs, k \in Keys :
       DeleteInstance(r, k) => \A p \in Programs : published[p][k] \notin Avails]_vars

(* A run ends, whatever other runs do to its rows, provided that the PDF   *)
(* parser answers: the one other way is to await a PDF for ever.           *)
RunsEnd == \A r \in Runs : Active(r) ~> (~Active(r) \/ Hangs(r))
============================================================================
