------------------------------- MODULE MCTables -------------------------------
(***************************************************************************)
(* Small instances of the jobs that write the tables of the catalogue.  No *)
(* two of them write the same column, so one run checks them side by side: *)
(* the initial state says which of the four tables' jobs run, and the      *)
(* others stay idle on empty tables.                                       *)
(***************************************************************************)
EXTENDS Naturals, FiniteSets, TLC

CONSTANTS Runs, Programs, Courses, Types, Details, Pages, BatchSize, Scheduled, Others, MaxChanges

(* A page does not show what stands for the API's texts or a missing row. *)
ASSUME PagesAssumption == Pages \cap {"blank", "truncated", "no row"} = {}
ASSUME ChangesAssumption == MaxChanges \in Nat
ASSUME FiniteAssumption ==
  \A S \in {Programs, Courses, Scheduled, Others} : IsFiniteSet(S)
ASSUME BatchAssumption == BatchSize \in Nat \ {0}

VARIABLES
  job,
  \* CourseDescriptions
  description, descriptionPc, read, descriptionLeft, descriptionCurrent, texts, pass, failed,
  overtaken, lost,
  \* ProgramsJob
  api, apiChanges, types, programs, typesOf, programsPc, fetched, newTypes, waiting, updating,
  creating, untyped, unlucky, programsDisturbed,
  \* CheminotSync
  programRows, courseRows, file, fileChanges, details, cheminotPc, known, snapshot, parsed,
  cheminotLeft, cheminotCurrent, cheminotDisturbed,
  \* Prerequisites
  members, listed, says, pdfChanges, text, rows, prerequisitesPc, programsLeft, pdf,
  prerequisitesLeft, prerequisitesCurrent, seen, toDelete, toAdd, adding, refused, givenUp,
  prerequisitesDisturbed

descriptionVars == <<
  description, descriptionPc, read, descriptionLeft, descriptionCurrent, texts, pass, failed,
  overtaken, lost>>
programVars == <<
  api, apiChanges, types, programs, typesOf, programsPc, fetched, newTypes, waiting, updating,
  creating, untyped, unlucky, programsDisturbed>>
cheminotVars == <<
  programRows, courseRows, file, fileChanges, details, cheminotPc, known, snapshot, parsed,
  cheminotLeft, cheminotCurrent, cheminotDisturbed>>
prerequisiteVars == <<
  members, listed, says, pdfChanges, text, rows, prerequisitesPc, programsLeft, pdf,
  prerequisitesLeft, prerequisitesCurrent, seen, toDelete, toAdd, adding, refused, givenUp,
  prerequisitesDisturbed>>
vars == <<job, descriptionVars, programVars, cheminotVars, prerequisiteVars>>

Descriptions == INSTANCE CourseDescriptions WITH
  pc <- descriptionPc, left <- descriptionLeft, current <- descriptionCurrent
ProgramTable == INSTANCE ProgramsJob WITH
  changes <- apiChanges, pc <- programsPc, disturbed <- programsDisturbed
Cheminot == INSTANCE CheminotSync WITH
  programs <- programRows, courses <- courseRows, changes <- fileChanges, pc <- cheminotPc,
  left <- cheminotLeft, current <- cheminotCurrent, disturbed <- cheminotDisturbed
Prerequisite == INSTANCE Prerequisites WITH
  changes <- pdfChanges, pc <- prerequisitesPc, programs <- programsLeft,
  left <- prerequisitesLeft, current <- prerequisitesCurrent, disturbed <- prerequisitesDisturbed

(* The idle jobs' tables and sources, empty. *)
DescriptionsIdle == Descriptions!Init /\ description = [c \in Courses |-> "no row"]
ProgramsIdle     == ProgramTable!Init /\ api = ProgramTable!NoAnswer /\ types = {}
CheminotIdle     == Cheminot!Init /\ programRows = {} /\ courseRows = {} /\ file = Cheminot!NoRows
PrerequisiteIdle == Prerequisite!Init /\ members = {} /\ listed = {}

Init ==
  \/ job = "descriptions"  /\ Descriptions!Init /\ ProgramsIdle /\ CheminotIdle /\ PrerequisiteIdle
  \/ job = "programs"      /\ ProgramTable!Init /\ DescriptionsIdle /\ CheminotIdle /\ PrerequisiteIdle
  \/ job = "cheminot"      /\ Cheminot!Init /\ DescriptionsIdle /\ ProgramsIdle /\ PrerequisiteIdle
  \/ job = "prerequisites" /\ Prerequisite!Init /\ DescriptionsIdle /\ ProgramsIdle /\ CheminotIdle

Next ==
  /\ UNCHANGED job
  /\ \/ /\ job = "descriptions" /\ Descriptions!Next
        /\ UNCHANGED <<programVars, cheminotVars, prerequisiteVars>>
     \/ /\ job = "programs" /\ ProgramTable!Next
        /\ UNCHANGED <<descriptionVars, cheminotVars, prerequisiteVars>>
     \/ /\ job = "cheminot" /\ Cheminot!Next
        /\ UNCHANGED <<descriptionVars, programVars, prerequisiteVars>>
     \/ /\ job = "prerequisites" /\ Prerequisite!Next
        /\ UNCHANGED <<descriptionVars, programVars, cheminotVars>>

Spec == Init /\ [][Next]_vars

Symmetry ==
  Permutations(Runs) \cup Permutations(Programs) \cup Permutations(Courses) \cup Permutations(Others) \cup
  Permutations(Types) \cup Permutations(Details) \cup Permutations(Pages)

(* The types of the four modules' variables, and the keys of their tables. *)
TypeOK == Descriptions!TypeOK /\ ProgramTable!TypeOK /\ Cheminot!TypeOK /\ Prerequisite!TypeOK

(* The properties of the four modules, stated and explained there. *)
PageLostOnlyInRace  == Descriptions!PageLostOnlyInRace
ListedAreDescribed  == Descriptions!ListedAreDescribed
SyncedShowPages     == Descriptions!SyncedShowPages
ProgramsMatchApi    == ProgramTable!ProgramsMatchApi
MatchedRunApplies   == Cheminot!MatchedRunApplies
CompletedRunMatches == Prerequisite!CompletedRunMatches
NotAllRefused       == Cheminot!NotAllRefused /\ Prerequisite!NotAllRefused

(* Every step of a run of any of the jobs brings it closer to its end: the *)
(* second pass over the pages that failed, the upserts of the programs and *)
(* the lists of what is to be deleted and added all run out.               *)
StepsRunOut ==
  /\ Descriptions!StepsRunOut /\ ProgramTable!StepsRunOut
  /\ Cheminot!StepsRunOut /\ Prerequisite!StepsRunOut
============================================================================
