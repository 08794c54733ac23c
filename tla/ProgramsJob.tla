----------------------------- MODULE ProgramsJob -----------------------------
(***************************************************************************)
(* ProgramsJobService (src/jobs/workers/programs.worker.ts): it creates    *)
(* the program types of the ETS API that are not in the table, and upserts *)
(* its programs, all at once, each connected to its types.                 *)
(*                                                                         *)
(* createProgramTypes() looks before it creates and swallows every error;  *)
(* an upsert with relations looks before it writes too, so the runs of     *)
(* different triggers (see JobsPipeline) get in each other's way.          *)
(***************************************************************************)
EXTENDS Naturals, FiniteSets

CONSTANTS
  Runs,      \* runs of the job: a bound
  Programs,  \* by id
  Types,     \* by id
  MaxChanges \* of what the API answers: a bound

(* An answer of the API: the types it lists, the programs, and their types.*)
Answer ==
  [types : SUBSET Types, programs : SUBSET Programs, typesOf : [Programs -> SUBSET Types]]
NoAnswer == [types |-> {}, programs |-> {}, typesOf |-> [g \in Programs |-> {}]]
Consistent(answer) ==
  \A g \in Programs :
    answer.typesOf[g] \subseteq (IF g \in answer.programs THEN answer.types ELSE {})

VARIABLES
  api,      \* what the API answers (external)
  changes,  \* how often that changed
  types,    \* rows of ProgramType
  programs, \* rows of Program
  typesOf,  \* the types a program is connected to
  pc,       \* what each run is at
  fetched,  \* the answer it got
  newTypes, \* the types it did not find in the table
  waiting,  \* programs whose upsert has not looked yet
  updating, \* programs whose upsert found a row
  creating, \* programs whose upsert found none
  untyped,  \* runs refused because a type was not there (history)
  unlucky,  \* runs whose types could not be created for lack of the database (history)
  disturbed \* runs overtaken by a change, or by a run with another answer (history)

source  == <<api, changes>>
tables  == <<types, programs, typesOf>>
memory  == <<fetched, newTypes, waiting, updating, creating>>
history == <<untyped, unlucky, disturbed>>
vars    == <<source, tables, pc, memory, history>>

Working == {"fetched", "creating types", "upserting"}
Phase   == Working \cup {"idle", "updated", "failed", "stopped"}

Init ==
  /\ api \in Answer
  /\ Consistent(api)
  /\ changes = 0
  /\ types \in SUBSET Types
  /\ programs = {}
  /\ typesOf = [g \in Programs |-> {}]
  /\ pc = [r \in Runs |-> "idle"]
  /\ fetched = [r \in Runs |-> NoAnswer]
  /\ newTypes = [r \in Runs |-> {}]
  /\ waiting = [r \in Runs |-> {}]
  /\ updating = [r \in Runs |-> {}]
  /\ creating = [r \in Runs |-> {}]
  /\ untyped = {}
  /\ unlucky = {}
  /\ disturbed = {}

Goes(r, here, there) ==
  /\ pc[r] = here
  /\ pc' = [pc EXCEPT ![r] = there]

Rivals(r) == {s \in Runs \ {r} : pc[s] # "idle"}

ApiChanges(answer) ==
  /\ changes < MaxChanges
  /\ answer # api
  /\ Consistent(answer)
  /\ changes' = changes + 1
  /\ api' = answer
  /\ disturbed' = {r \in Runs : pc[r] # "idle"}
  /\ UNCHANGED <<tables, pc, memory, untyped, unlucky>>

----------------------------------------------------------------------------
(* fetchAllProgramsFromEtsAPI(); without types or programs the job throws. *)
FetchPrograms(r) ==
  /\ Goes(r, "idle", IF api.programs = {} \/ api.types = {} THEN "failed" ELSE "fetched")
  /\ fetched' = [fetched EXCEPT ![r] = api]
  /\ UNCHANGED <<source, tables, newTypes, waiting, updating, creating, history>>

NewTypes(r) == fetched[r].types \ types

StartUpserts(r) == waiting' = [waiting EXCEPT ![r] = fetched[r].programs]

FindTypes(r) ==
  /\ Goes(r, "fetched", IF NewTypes(r) = {} THEN "upserting" ELSE "creating types")
  /\ newTypes' = [newTypes EXCEPT ![r] = NewTypes(r)]
  /\ IF NewTypes(r) = {} THEN StartUpserts(r) ELSE UNCHANGED waiting
  /\ UNCHANGED <<source, tables, fetched, updating, creating, history>>

(* Mutant: the table is replaced. *)
MutCreateTypes(r) ==
  /\ Goes(r, "creating types", "upserting")
  /\ types' = newTypes[r]
  /\ disturbed' = IF fetched[r] # api THEN disturbed \cup Rivals(r) ELSE disturbed
  /\ StartUpserts(r)
  /\ UNCHANGED <<source, programs, typesOf, fetched, newTypes, updating, creating, untyped, unlucky>>

(* createMany() writes all the rows or, if one is there by now, none.      *)
CreateTypes(r) ==
  /\ Goes(r, "creating types", "upserting")
  /\ IF newTypes[r] \cap types = {}
     THEN types' = types \cup newTypes[r]
     ELSE UNCHANGED types
  /\ disturbed' = IF fetched[r] # api THEN disturbed \cup Rivals(r) ELSE disturbed
  /\ StartUpserts(r)
  /\ UNCHANGED <<source, programs, typesOf, fetched, newTypes, updating, creating, untyped, unlucky>>

(* The look or the write fails, which is only logged: the upserts go on.   *)
TypesFail(r) ==
  /\ Goes(r, "fetched", "upserting") \/ Goes(r, "creating types", "upserting")
  /\ StartUpserts(r)
  /\ unlucky' = unlucky \cup {r}
  /\ UNCHANGED <<source, tables, fetched, newTypes, updating, creating, untyped, disturbed>>

----------------------------------------------------------------------------
(* The upserts of Promise.all() take their steps in any order.             *)
UpsertLooks(r, g) ==
  /\ pc[r] = "upserting"
  /\ g \in waiting[r]
  /\ waiting' = [waiting EXCEPT ![r] = @ \ {g}]
  /\ IF g \in programs
     THEN updating' = [updating EXCEPT ![r] = @ \cup {g}] /\ UNCHANGED creating
     ELSE creating' = [creating EXCEPT ![r] = @ \cup {g}] /\ UNCHANGED updating
  /\ UNCHANGED <<source, tables, pc, fetched, newTypes, history>>

(* Mutant: the relations of an old row are added to, never cleared. *)
MutConnected(r, g) == typesOf[g] \cup fetched[r].typesOf[g]

Connected(r, g) == fetched[r].typesOf[g]

UpsertWrites(r, g) ==
  /\ pc[r] = "upserting"
  /\ g \in updating[r] \cup (creating[r] \ programs)
  /\ Connected(r, g) \subseteq types
  /\ programs' = programs \cup {g}
  /\ typesOf' = [typesOf EXCEPT ![g] = Connected(r, g)]
  /\ updating' = [updating EXCEPT ![r] = @ \ {g}]
  /\ creating' = [creating EXCEPT ![r] = @ \ {g}]
  /\ disturbed' = IF fetched[r] # api THEN disturbed \cup Rivals(r) ELSE disturbed
  /\ UNCHANGED <<source, types, pc, fetched, newTypes, waiting, untyped, unlucky>>

Forget(r) ==
  /\ fetched' = [fetched EXCEPT ![r] = NoAnswer]
  /\ newTypes' = [newTypes EXCEPT ![r] = {}]
  /\ waiting' = [waiting EXCEPT ![r] = {}]
  /\ updating' = [updating EXCEPT ![r] = {}]
  /\ creating' = [creating EXCEPT ![r] = {}]

(* A type to connect is not there, or another run created the row first:   *)
(* the first upsert refused ends the job, with the others' writes done or  *)
(* not.                                                                    *)
UpsertRefused(r, g) ==
  /\ Goes(r, "upserting", "failed")
  /\ g \in updating[r] \cup creating[r]
  /\ \/ g \in creating[r] \cap programs
     \/ ~(Connected(r, g) \subseteq types)
  /\ untyped' = IF Connected(r, g) \subseteq types THEN untyped ELSE untyped \cup {r}
  /\ Forget(r)
  /\ UNCHANGED <<source, tables, unlucky, disturbed>>

UpsertsDone(r) ==
  /\ waiting[r] \cup updating[r] \cup creating[r] = {}
  /\ Goes(r, "upserting", "updated")
  /\ UNCHANGED <<source, tables, memory, history>>

(* A call to the database fails, or the thread of the run is killed.       *)
Stops(r) ==
  /\ pc[r] \in Working
  /\ pc' = [pc EXCEPT ![r] = "stopped"]
  /\ Forget(r)
  /\ UNCHANGED <<source, tables, history>>

Step(r) ==
  \/ FindTypes(r) \/ CreateTypes(r) \/ TypesFail(r)
  \/ \E g \in Programs : UpsertLooks(r, g) \/ UpsertWrites(r, g) \/ UpsertRefused(r, g)
  \/ UpsertsDone(r)

Next ==
  \/ \E answer \in Answer : ApiChanges(answer)
  \/ \E r \in Runs : FetchPrograms(r) \/ Step(r) \/ Stops(r)

Spec == Init /\ [][Next]_vars

----------------------------------------------------------------------------
(* A program is connected to rows of ProgramType only.                     *)
TypeOK ==
  /\ api \in Answer
  /\ changes \in 0..MaxChanges
  /\ types \subseteq Types
  /\ programs \subseteq Programs
  /\ typesOf \in [Programs -> SUBSET types]
  /\ pc \in [Runs -> Phase]
  /\ fetched \in [Runs -> Answer]
  /\ newTypes \in [Runs -> SUBSET Types]
  /\ waiting \in [Runs -> SUBSET Programs]
  /\ updating \in [Runs -> SUBSET Programs]
  /\ creating \in [Runs -> SUBSET Programs]
  /\ untyped \subseteq Runs
  /\ unlucky \subseteq Runs
  /\ disturbed \subseteq Runs

(* A run that completes leaves every program of the API in the table, with *)
(* the types the API gives it and no other, whatever overlapping runs that *)
(* got the same answer did meanwhile.                                      *)
UpdatedRunMatchesApi ==
  \A r \in Runs : pc[r] = "updated" /\ r \notin disturbed =>
    \A g \in api.programs : g \in programs /\ typesOf[g] = api.typesOf[g]

(* The errors createProgramTypes() swallows cost no program its types when *)
(* they come from overlapping runs that got the same answer: only a failed *)
(* call, or a run with another answer, leaves a type out.                  *)
TypesRaceIsHarmless == untyped \subseteq unlucky \cup disturbed

(* Overlapping runs leave what the API says. *)
ProgramsMatchApi == UpdatedRunMatchesApi /\ TypesRaceIsHarmless

(* Every step of a run brings it closer to its end.                        *)
Rank(r) ==
  << CASE pc[r] = "fetched" -> 3 [] pc[r] = "creating types" -> 2 [] pc[r] = "upserting" -> 1 [] OTHER -> 0,
     Cardinality(waiting[r]), Cardinality(updating[r] \cup creating[r]) >>
Before(s, t) == \E i \in DOMAIN s : s[i] < t[i] /\ \A j \in 1..(i - 1) : s[j] = t[j]
StepsRunOut == [][\A r \in Runs : Step(r) => Before(Rank(r)', Rank(r))]_vars
============================================================================
