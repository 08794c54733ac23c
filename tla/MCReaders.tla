------------------------------ MODULE MCReaders ------------------------------
(***************************************************************************)
(* Small instances of the parts that read: the three parsers, the search   *)
(* for courses and the model of the embedding worker.  They share nothing, *)
(* so one run checks them side by side: the initial state says which one   *)
(* is at work, and the others stand at their beginning.                    *)
(***************************************************************************)
EXTENDS Naturals, FiniteSets, TLC

CONSTANTS
  Codes, Groups, Days, Times, Words, MaxTexts, Sessions, Availabilities, MaxRowTexts,
  Programs, Details, Listed, Requirements, MaxLines, Scores, Limit, Oversample,
  Requests, Models, None

(* None is no text, no score and no load; a column of the planification is *)
(* the one of codes or the one of a session.                               *)
ASSUME NoneAssumption   ==
  None \notin Codes \cup Groups \cup Days \cup Times \cup Scores \cup Requests
ASSUME FiniteAssumption == IsFiniteSet(Codes) /\ IsFiniteSet(Programs)
ASSUME ColumnsAssumption == "code" \notin Sessions
ASSUME ScoresAssumption == Scores \subseteq Nat
ASSUME LimitAssumption  == Limit \in Nat /\ Oversample \in Nat

VARIABLES
  reader,
  \* HoraireParser
  horaire, horaireCourses, course, group, periods, horaireDone,
  \* PlanificationParser
  table, tableCourses, row, tableDone,
  \* CheminotParser
  lines, opened, programCourses, programs, currentProgram, skip, collecting, thrown,
  \* Retrieval
  score, filter, request, hits, answer,
  \* ExtractorCache
  wants, handler, load, extractorState, waitsFor

horaireVars  == <<horaire, horaireCourses, course, group, periods, horaireDone>>
tableVars    == <<table, tableCourses, row, tableDone>>
cheminotVars ==
  <<lines, opened, programCourses, programs, currentProgram, skip, collecting, thrown>>
searchVars   == <<score, filter, request, hits, answer>>
modelVars    == <<wants, handler, load, extractorState, waitsFor>>
vars == <<reader, horaireVars, tableVars, cheminotVars, searchVars, modelVars>>

Horaire == INSTANCE HoraireParser WITH
  Details <- Times, document <- horaire, courses <- horaireCourses, done <- horaireDone
Planification == INSTANCE PlanificationParser WITH
  MaxTexts <- MaxRowTexts, document <- table, courses <- tableCourses, current <- row,
  done <- tableDone
Cheminot == INSTANCE CheminotParser WITH
  Nothing <- None, courses <- programCourses, current <- currentProgram
Search == INSTANCE Retrieval WITH Courses <- Codes, NoPoint <- None, state <- request
Model == INSTANCE ExtractorCache WITH NoLoad <- None, state <- extractorState

Begun == Horaire!Init /\ Planification!Init /\ Cheminot!Init
SearchBegun == Search!Init /\ score = [p \in Search!Points |-> None] /\ filter = {}
ModelBegun  == Model!Init /\ wants = [r \in Requests |-> CHOOSE m \in Models : TRUE]

Init ==
  \/ reader \in {"horaire", "planification", "cheminot"} /\ Begun /\ SearchBegun /\ ModelBegun
  \/ reader = "search" /\ Begun /\ Search!Init /\ ModelBegun
  \/ reader = "model"  /\ Begun /\ SearchBegun /\ Model!Init

Next ==
  /\ UNCHANGED reader
  /\ \/ /\ reader = "horaire" /\ Horaire!Next
        /\ UNCHANGED <<tableVars, cheminotVars, searchVars, modelVars>>
     \/ /\ reader = "planification" /\ Planification!Next
        /\ UNCHANGED <<horaireVars, cheminotVars, searchVars, modelVars>>
     \/ /\ reader = "cheminot" /\ Cheminot!Next
        /\ UNCHANGED <<horaireVars, tableVars, searchVars, modelVars>>
     \/ /\ reader = "search" /\ Search!Next
        /\ UNCHANGED <<horaireVars, tableVars, cheminotVars, modelVars>>
     \/ /\ reader = "model" /\ Model!Next
        /\ UNCHANGED <<horaireVars, tableVars, cheminotVars, searchVars>>

Spec == Init /\ [][Next]_vars

Symmetry == Permutations(Codes) \cup Permutations(Groups)

(* The properties of the five modules, stated and explained there. *)
HoraireAsPrinted  == Horaire!HoraireAsPrinted
RowsAsPrinted     == Planification!RowsAsPrinted
CheminotAsPrinted == Cheminot!CheminotAsPrinted
BestCoursesFound  == Search!BestCoursesFound
LoadsAreShared    == Model!LoadsAreShared
============================================================================
