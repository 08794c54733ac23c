------------------------- MODULE PlanificationParser -------------------------
(***************************************************************************)
(* PlanificationCoursService (src/common/website-helper/pdf/pdf-parser/    *)
(* planification): it reads the table of a program's PDF, whose rows begin *)
(* with a course code and have a cell for each session to come, into the   *)
(* availabilities CourseInstancesSync stores.                              *)
(*                                                                         *)
(* The columns are found from the coloured cells of the header; a text     *)
(* comes with the column its position falls in.                            *)
(***************************************************************************)
EXTENDS Naturals, Sequences, FiniteSets

CONSTANTS
  Codes,          \* of courses
  Sessions,       \* headers like "E23"
  Availabilities, \* "J", "S", "JS", ...: no letter twice
  None,           \* no code
  MaxTexts        \* length of a document: a bound

Columns == Sessions \cup {"code", "other"}
Texts   == Codes \cup Availabilities
Cells   == [Sessions -> Seq(Availabilities)]
Course  == [code : Codes \cup {None}, available : Cells]

VARIABLES
  document, \* the texts read so far, and their columns (history)
  courses,
  current,  \* currentCourse
  done      \* the document is over

vars == <<document, courses, current, done>>

NewCourse(code) == [code |-> code, available |-> [s \in Sessions |-> <<>>]]

Init ==
  /\ document = <<>>
  /\ courses = <<>>
  /\ current = NewCourse(None)
  /\ done = FALSE

----------------------------------------------------------------------------
Pushed == IF current.code = None THEN courses ELSE Append(courses, current)

(* Mutant: the cells of the row before stay. *)
MutRow(code) == [current EXCEPT !.code = code]

Row(code) == NewCourse(code)

(* A text that is neither a code in the column of codes nor an availability*)
(* in the column of a session is passed over.  Two texts of a cell are     *)
(* joined with a space, as a sequence is here.                             *)
ReadText(column, text) ==
  /\ ~done
  /\ Len(document) < MaxTexts
  /\ document' = Append(document, [column |-> column, text |-> text])
  /\ IF column = "code" /\ text \in Codes
     THEN courses' = Pushed /\ current' = Row(text)
     ELSE /\ UNCHANGED courses
          /\ current' = IF column \in Sessions /\ text \in Availabilities
                        THEN [current EXCEPT !.available[column] = Append(@, text)]
                        ELSE current
  /\ UNCHANGED done

DocumentEnds ==
  /\ ~done
  /\ done' = TRUE
  /\ courses' = Pushed
  /\ UNCHANGED <<document, current>>

Next ==
  \/ \E column \in Columns, text \in Texts : ReadText(column, text)
  \/ DocumentEnds

Spec == Init /\ [][Next]_vars

----------------------------------------------------------------------------
TypeOK ==
  /\ document \in Seq([column : Columns, text : Texts])
  /\ courses \in Seq([code : Codes, available : Cells])
  /\ current \in Course
  /\ done \in BOOLEAN

(* The rows of the table, in order, are the courses, each with what its    *)
(* own cells hold, even of a code that is listed twice; what stands before *)
(* the first row goes to none.                                             *)
Headings == {i \in DOMAIN document : document[i].column = "code" /\ document[i].text \in Codes}
UpTo(i, places) == Cardinality({j \in places : j <= i})
RowOf(i) == UpTo(i, Headings)
CellOf(row, session) ==
  {i \in DOMAIN document :
     document[i].column = session /\ document[i].text \in Availabilities /\ RowOf(i) = row}

Lists(cell, places) ==
  /\ Len(cell) = Cardinality(places)
  /\ \A i \in places : cell[UpTo(i, places)] = document[i].text

RowsAsPrinted ==
  done =>
    /\ Len(courses) = Cardinality(Headings)
    /\ \A h \in Headings : courses[RowOf(h)].code = document[h].text
    /\ \A row \in DOMAIN courses, s \in Sessions : Lists(courses[row].available[s], CellOf(row, s))
============================================================================
